------------------------------ MODULE TcpServer ------------------------------
(***************************************************************************)
(* TcpServer (src/net/TCPServer.cpp) with the sockets it accepts: an owner *)
(* that calls listen(), interrupt(), interruptChildren() and close(), a    *)
(* thread that calls accept() until it is interrupted, and for each        *)
(* accepted connection a thread that reads it (TcpSocket::read).  No lock  *)
(* guards the server's fields.  Descriptors are numbers that the system    *)
(* hands out again; the two socket pairs are modelled by what their reader *)
(* finds in them.                                                          *)
(***************************************************************************)
EXTENDS Integers, FiniteSets, FiniteSetsExt, Functions

CONSTANTS
  Conns,           \* the connections clients make
  MaxListens,      \* bound: how often listen() is called
  MaxInterrupts,   \* bound: how often interrupt() is called between two listen()s
  Interruptable,   \* _interruptableChildren
  CloseWaits       \* the owner calls close() only after the accepting thread ended

ASSUME ServerAssumption ==
  /\ IsFiniteSet(Conns)
  /\ {MaxListens, MaxInterrupts} \subseteq Nat
  /\ {Interruptable, CloseWaits} \subseteq BOOLEAN

Fields == {"sock", "iw", "ir", "cw", "cr"}   \* _serverSock, the two pairs' ends
None == 0
Fds == 1..(5 + Cardinality(Conns) + MaxListens)

VARIABLES
  owner,       \* "down", "listening" (inside listen()), "up", "stopping" (after interrupt())
  server,      \* the server's descriptors, None for HD_INVALID_SOCKET
  listening,   \* _listening
  listens,     \* how often listen() has been called
  interrupts,  \* how often interrupt() has been called since
  open,        \* the descriptors the process has open
  bytes,       \* unread bytes in the pair of interrupt()
  reader,      \* per listen(): the descriptor behind _interruptChildReader
  readable,    \* per listen(): that descriptor is readable, for ever
  acceptor,    \* at; watch: what poll() was given; events: what it returned
  child        \* per connection: at, fd, by: the listen() it came by, shares: its reader

vars == <<owner, server, listening, listens, interrupts, open, bytes, reader, readable,
          acceptor, child>>

Init ==
  /\ owner = "down" /\ listening = FALSE /\ listens = 0 /\ interrupts = 0
  /\ server = [f \in Fields |-> None] /\ open = {} /\ bytes = 0
  /\ reader = [g \in 1..MaxListens |-> None] /\ readable = [g \in 1..MaxListens |-> FALSE]
  /\ acceptor = [at |-> "out", watch |-> {}, events |-> {}]
  /\ child = [c \in Conns |-> [at |-> "none", fd |-> None, by |-> 0, shares |-> FALSE]]

-----------------------------------------------------------------------------
(* Descriptors                                                             *)

(* The system hands out the lowest descriptors that are free. *)
Lowest(n) == {d \in Fds \ open : Cardinality({e \in Fds \ open : e < d}) < n}
LowestFd == Min(Fds \ open)

Live(c) == child[c].at \in {"idle", "reading", "ended"}

(* The holders of the shared_ptr that listen() number g made. *)
Sharers(g) == {c \in Conns : Live(c) /\ child[c].shares /\ child[c].by = g}
ServerShares(g) == g = listens /\ server["cr"] # None

-----------------------------------------------------------------------------
(* The owner                                                               *)

(* listen() up to the socket: either pair may fail, and then goes without. *)
Listen ==
  /\ owner = "down" /\ listens < MaxListens
  /\ ~listening /\ server["sock"] = None
  /\ \E has \in SUBSET Fields :
       /\ "sock" \in has
       /\ "iw" \in has <=> "ir" \in has
       /\ "cw" \in has <=> "cr" \in has
       /\ LET fds == CHOOSE fds \in Bijection(has, Lowest(Cardinality(has))) : TRUE
          IN /\ server' = [f \in Fields |-> IF f \in has THEN fds[f] ELSE None]
             /\ open' = open \cup {fds[f] : f \in has}
  /\ owner' = "listening" /\ listening' = TRUE /\ listens' = listens + 1
  /\ interrupts' = 0 /\ bytes' = 0
  /\ reader' = [reader EXCEPT ![listens + 1] = server'["cr"]]
  /\ UNCHANGED <<readable, acceptor, child>>

(* Mutant of CloseAll: the children's reader is closed under them. *)
CloseReaderToo ==
  /\ server' = [f \in Fields |-> None] /\ listening' = FALSE
  /\ open' = open \ {server[f] : f \in Fields}
  /\ readable' = [readable EXCEPT ![listens] = TRUE]

(* close(): what is valid is closed; the reader of the children is closed
   with its last holder, and without a writer it stays readable. *)
CloseAll ==
  /\ server' = [f \in Fields |-> None] /\ listening' = FALSE
  /\ open' = open \ ({server[f] : f \in Fields \ {"cr"}}
                       \cup IF Sharers(listens) = {} THEN {server["cr"]} ELSE {})
  /\ readable' = [readable EXCEPT ![listens] = TRUE]

(* Setting the socket up, bind() or ::listen() fails. *)
ListenFails ==
  /\ owner = "listening" /\ owner' = "down"
  /\ CloseAll
  /\ UNCHANGED <<listens, interrupts, bytes, reader, acceptor, child>>

(* listen() returns, and the accepting thread is started. *)
ListenReturns ==
  /\ owner = "listening" /\ owner' = "up"
  /\ acceptor' = [at |-> "call", watch |-> {}, events |-> {}]
  /\ UNCHANGED <<server, listening, listens, interrupts, open, bytes, reader, readable, child>>

(* interrupt() *)
Interrupt ==
  /\ owner = "up" /\ interrupts < MaxInterrupts
  /\ interrupts' = interrupts + 1
  /\ bytes' = IF server["iw"] = None THEN bytes ELSE bytes + 1
  /\ owner' \in {"up", "stopping"}
  /\ UNCHANGED <<server, listening, listens, open, reader, readable, acceptor, child>>

(* interruptChildren(); nobody reads the byte it writes. *)
InterruptChildren ==
  /\ owner \in {"up", "stopping"} /\ server["cw"] # None
  /\ readable' = [readable EXCEPT ![listens] = TRUE]
  /\ UNCHANGED <<owner, server, listening, listens, interrupts, open, bytes, reader, acceptor, child>>

(* close() *)
Close ==
  /\ owner = "stopping" /\ (CloseWaits => acceptor.at = "out")
  /\ owner' = "down"
  /\ CloseAll
  /\ child' = [c \in Conns |-> IF child[c].at = "queued" THEN [child[c] EXCEPT !.at = "closed"]
                                ELSE child[c]]
  /\ UNCHANGED <<listens, interrupts, bytes, reader, acceptor>>

-----------------------------------------------------------------------------
(* Clients                                                                 *)

Connect(c) ==
  /\ child[c].at = "none" /\ owner \in {"up", "stopping"}
  /\ child' = [child EXCEPT ![c].at = "queued"]
  /\ UNCHANGED <<owner, server, listening, listens, interrupts, open, bytes, reader, readable, acceptor>>

(* A client resets its connection before it is accepted. *)
Reset(c) ==
  /\ child[c].at = "queued"
  /\ child' = [child EXCEPT ![c].at = "closed"]
  /\ UNCHANGED <<owner, server, listening, listens, interrupts, open, bytes, reader, readable, acceptor>>

Backlog == {c \in Conns : child[c].at = "queued"}

-----------------------------------------------------------------------------
(* The accepting thread                                                    *)

(* Mutant of Watched: the interrupting pair is not polled. *)
WatchedSockOnly == {f \in {"sock"} : server[f] # None}

(* What poll() is given: the descriptors the fields name now. *)
Watched == {f \in {"sock", "ir"} : server[f] # None}

(* accept() is called: it throws, or it polls (the accept timeout is not 0). *)
AcceptCall ==
  /\ acceptor.at = "call"
  /\ acceptor' = IF ~listening \/ server["sock"] = None THEN [acceptor EXCEPT !.at = "out"]
                 ELSE [acceptor EXCEPT !.at = "poll", !.watch = Watched]
  /\ UNCHANGED <<owner, server, listening, listens, interrupts, open, bytes, reader, readable, child>>

(* What poll() finds ready; closing the writer makes the reader readable too. *)
Ready ==
  {f \in acceptor.watch : \/ f = "ir" /\ (bytes > 0 \/ server["iw"] = None)
                          \/ f = "sock" /\ Backlog # {}}

PollReturns ==
  /\ acceptor.at = "poll" /\ Ready # {}
  /\ acceptor' = [acceptor EXCEPT !.at = "woke", !.events = Ready]
  /\ UNCHANGED <<owner, server, listening, listens, interrupts, open, bytes, reader, readable, child>>

(* poll() times out, or fails too often: accept() throws and is called again. *)
PollEnds ==
  /\ acceptor.at = "poll" /\ Ready = {}
  /\ acceptor' = [acceptor EXCEPT !.at = "call", !.watch = {}]
  /\ UNCHANGED <<owner, server, listening, listens, interrupts, open, bytes, reader, readable, child>>

(* The event is looked at, and the fields once more: EInterrupt ends the
   thread, a connection is taken, else poll() is called again. *)
Woke ==
  /\ acceptor.at = "woke"
  /\ IF server["ir"] # None /\ "ir" \in acceptor.events
     THEN /\ acceptor' = [at |-> "out", watch |-> {}, events |-> {}]
          /\ bytes' = IF bytes > 0 THEN bytes - 1 ELSE bytes
     ELSE /\ acceptor' = IF "sock" \in acceptor.events
                         THEN [at |-> "take", watch |-> {}, events |-> {}]
                         ELSE [at |-> "poll", watch |-> Watched, events |-> {}]
          /\ UNCHANGED bytes
  /\ UNCHANGED <<owner, server, listening, listens, interrupts, open, reader, readable, child>>

(* Mutant of Take: the socket takes the reader without a share in it. *)
TakeUnshared(c) ==
  /\ acceptor.at = "take" /\ server["sock"] # None /\ c \in Backlog
  /\ open' = open \cup {LowestFd}
  /\ child' = [child EXCEPT ![c] = [at |-> "idle", fd |-> LowestFd, by |-> listens, shares |-> FALSE]]
  /\ acceptor' = [acceptor EXCEPT !.at = "call"]
  /\ UNCHANGED <<owner, server, listening, listens, interrupts, bytes, reader, readable>>

(* ::accept() takes a connection and a TcpSocket is made for it, with its
   share of the interrupting reader. *)
Take(c) ==
  /\ acceptor.at = "take" /\ server["sock"] # None /\ c \in Backlog
  /\ open' = open \cup {LowestFd}
  /\ child' = [child EXCEPT ![c] = [at |-> "idle", fd |-> LowestFd, by |-> listens,
                  shares |-> Interruptable /\ server["cr"] # None]]
  /\ acceptor' = [acceptor EXCEPT !.at = "call"]
  /\ UNCHANGED <<owner, server, listening, listens, interrupts, bytes, reader, readable>>

(* There is none to take, or fcntl() fails and it is closed again: accept()
   throws, or returns no socket, and is called again. *)
TakeFails ==
  /\ acceptor.at = "take"
  /\ \/ (Backlog = {} \/ server["sock"] = None) /\ UNCHANGED child
     \/ \E c \in Backlog : server["sock"] # None /\ child' = [child EXCEPT ![c].at = "closed"]
  /\ acceptor' = [acceptor EXCEPT !.at = "call"]
  /\ UNCHANGED <<owner, server, listening, listens, interrupts, open, bytes, reader, readable>>

-----------------------------------------------------------------------------
(* The threads that read the accepted sockets                              *)

ChildRead(c) ==
  /\ child[c].at = "idle"
  /\ child' = [child EXCEPT ![c].at = "reading"]
  /\ UNCHANGED <<owner, server, listening, listens, interrupts, open, bytes, reader, readable, acceptor>>

Told(c) == child[c].shares /\ readable[child[c].by]

(* read() returns data; with an interrupt pending it would have thrown. *)
ChildData(c) ==
  /\ child[c].at = "reading" /\ ~Told(c)
  /\ child' = [child EXCEPT ![c].at = "idle"]
  /\ UNCHANGED <<owner, server, listening, listens, interrupts, open, bytes, reader, readable, acceptor>>

(* read() throws: interrupted, or the peer is gone. *)
ChildEnds(c) ==
  /\ child[c].at = "reading"
  /\ child' = [child EXCEPT ![c].at = "ended"]
  /\ UNCHANGED <<owner, server, listening, listens, interrupts, open, bytes, reader, readable, acceptor>>

(* The TcpSocket is deleted: its descriptor is closed, and the reader if this
   was the last to share it. *)
ChildClose(c) ==
  /\ child[c].at = "ended"
  /\ LET g == child[c].by
         last == Sharers(g) = {c} /\ ~ServerShares(g)
     IN open' = open \ ({child[c].fd} \cup IF last THEN {reader[g]} ELSE {})
  /\ child' = [child EXCEPT ![c].at = "closed"]
  /\ UNCHANGED <<owner, server, listening, listens, interrupts, bytes, reader, readable, acceptor>>

-----------------------------------------------------------------------------
AcceptorSteps == AcceptCall \/ PollReturns \/ Woke \/ (\E c \in Conns : Take(c)) \/ TakeFails
Next ==
  \/ Listen \/ ListenFails \/ ListenReturns \/ Interrupt \/ InterruptChildren \/ Close
  \/ AcceptorSteps \/ PollEnds
  \/ \E c \in Conns : Connect(c) \/ Reset(c) \/ ChildRead(c) \/ ChildData(c) \/ ChildEnds(c) \/ ChildClose(c)

(* Threads that can go on do; poll() need not time out, a client need not
   connect or send, and the owner need not stop. *)
Fairness ==
  /\ WF_vars(AcceptorSteps)
  /\ \A c \in Conns : WF_vars(ChildRead(c)) /\ WF_vars(ChildEnds(c) /\ Told(c)) /\ WF_vars(ChildClose(c))

Spec == Init /\ [][Next]_vars /\ Fairness

-----------------------------------------------------------------------------
(* Properties                                                              *)

TypeOK ==
  /\ owner \in {"down", "listening", "up", "stopping"} /\ listening \in BOOLEAN
  /\ server \in [Fields -> Fds \cup {None}] /\ open \subseteq Fds
  /\ bytes \in 0..MaxInterrupts /\ listens \in 0..MaxListens
  /\ acceptor.at \in {"out", "call", "poll", "woke", "take"}
  /\ acceptor.watch \subseteq Fields /\ acceptor.events \subseteq acceptor.watch
  /\ \A c \in Conns : child[c].at \in {"none", "queued", "idle", "reading", "ended", "closed"}

(* What the process must have open: each valid field of the server, each live
   socket it accepted, and each reader with a holder. *)
Owned ==
  ({server[f] : f \in Fields} \ {None})
    \cup {child[c].fd : c \in {d \in Conns : Live(d)}}
    \cup ({reader[g] : g \in {h \in 1..MaxListens : Sharers(h) # {}}} \ {None})

(* No descriptor leaks, also when listen() fails half-way, and none is closed
   while something holds it: a number closed twice would by then name another
   socket.  (With the types of the variables.) *)
OpenIsOwned == TypeOK /\ open = Owned

(* interrupt() ends the accept() it finds. *)
InterruptEndsAccept == (bytes > 0 /\ acceptor.at # "out") ~> (acceptor.at = "out")

(* However long its client stays connected: interruptChildren() and close()
   end the reads of every socket the server accepted, and it is closed.  (A
   server that could not make the pair of its children has none to tell.) *)
ChildrenEnd ==
  \A c \in Conns :
    (Live(c) /\ Interruptable /\ reader[child[c].by] # None /\ readable[child[c].by])
      ~> (child[c].at = "closed")
=============================================================================
