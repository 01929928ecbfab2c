---------------------------- MODULE SocketOptions -----------------------------
(***************************************************************************)
(* The options of a TcpSocket or UdpSocket (src/net): what its setters     *)
(* were told and what the system has.  A setter can be called before       *)
(* open(), between two and while the socket is open; open() gives every    *)
(* socket it makes the options that were asked for.  Which addresses       *)
(* open() tries is the matter of TcpConnect and UdpSocket: here each of    *)
(* them may fail at any step, and another may follow.                      *)
(***************************************************************************)
EXTENDS OptionKinds

VARIABLES
  kind,        \* "tcp", "udp", or "accepted": made of a socket that is open
  at,          \* "closed", "opened", "threw"; "making" in open()
  field,       \* per option: the member that keeps it
  kernel,      \* per option: what the system does, 0 for off
  todo,        \* options that open() has still to set
  untold       \* switches of which the system was not told, or refused

vars == <<kind, at, field, kernel, todo, untold>>

Options == Sizes \cup (IF kind = "udp" THEN {"broadcast", "device"} ELSE {"linger", "noDelay", "keepAlive"})

\* A new socket.
New == [o \in Options |-> Default(o)]

-----------------------------------------------------------------------------
\* Constructors set _lingerOn and _noDelay; _broadcast is left as the memory was.
Made(o) == IF o \in {"linger", "noDelay"} THEN {1} ELSE IF o = "broadcast" THEN {0, 1} ELSE {0}

\* What linger and noDelay an accepted socket has inherited is up to the system.
Init ==
  /\ kind \in {"tcp", "udp", "accepted"} /\ todo = {}
  /\ field \in [Options -> {0, 1}] /\ \A o \in Options : field[o] \in Made(o)
  /\ IF kind = "accepted"
     THEN /\ at = "opened" /\ untold = {"linger", "noDelay"}
          /\ \E l, d \in {0, 1} : kernel = [New EXCEPT !["linger"] = l, !["noDelay"] = d]
     ELSE at = "closed" /\ untold = {} /\ kernel = New

-----------------------------------------------------------------------------
(* Setters                                                                 *)

Between == at \in {"closed", "opened", "threw"}

(* Mutant of SetSize: the member is assigned before the system is asked. *)
SetSizeAtOnce(o, v) ==
  /\ o \in Sizes /\ v \in Legal(o)
  /\ field' = [field EXCEPT ![o] = v]
  /\ kernel' \in (IF at = "opened" THEN {kernel, [kernel EXCEPT ![o] = v]} ELSE {kernel})
  /\ UNCHANGED untold

\* setRecvTimeout(), setSendBufSize(), ...: an illegal value, or a system that
\* refuses, is an exception before the member is assigned.
SetSize(o, v) ==
  /\ o \in Sizes /\ v \in Legal(o)
  /\ field' = [field EXCEPT ![o] = v]
  /\ kernel' = IF at = "opened" THEN [kernel EXCEPT ![o] = v] ELSE kernel
  /\ UNCHANGED untold

\* setKeepAlive(), setLinger(), setBroadcast(), ...: the member is assigned, then
\* the system is asked and may refuse.  To have no device is nothing to ask for.
SetSwitch(o, v) ==
  /\ o \in Options \cap Switches /\ v \in Legal(o)
  /\ field' = [field EXCEPT ![o] = v]
  /\ \/ at = "opened" /\ (o = "device" => v = 1)
        /\ kernel' = [kernel EXCEPT ![o] = v] /\ untold' = untold \ {o}
     \/ at = "opened" /\ kernel' = kernel /\ untold' = untold \cup {o}
     \/ at # "opened" /\ kernel' = kernel /\ untold' = untold

Set(o, v) ==
  /\ Between /\ (SetSize(o, v) \/ SetSwitch(o, v))
  /\ UNCHANGED <<kind, at, todo>>

-----------------------------------------------------------------------------
(* open() and close()                                                      *)

\* What open(addr) or create() has to set: the sizes and switches that are on, and
\* linger and noDelay either way.  The order of the calls matters to nobody.
NewSocket ==
  /\ at' = "making" /\ untold' = {} /\ kernel' = New
  /\ todo' = {o \in Options : field[o] > 0 \/ o \in {"linger", "noDelay"}}

\* The port of an accepted socket is invalid: open() throws.
Open ==
  /\ at \in {"closed", "threw"}
  /\ IF kind = "accepted" THEN at' = "threw" /\ UNCHANGED <<kernel, todo, untold>> ELSE NewSocket
  /\ UNCHANGED <<kind, field>>

GiveOption(o) ==
  /\ at = "making" /\ o \in todo
  /\ todo' = todo \ {o} /\ kernel' = [kernel EXCEPT ![o] = field[o]]
  /\ UNCHANGED <<kind, at, field, untold>>

\* The socket is bound and connected, as it is to be.
Finish == at = "making" /\ todo = {} /\ at' = "opened" /\ UNCHANGED <<kind, field, kernel, todo, untold>>

\* A step of open() fails: close(), and the next address, or out.
Fail ==
  /\ at = "making"
  /\ \/ NewSocket
     \/ at' = "threw" /\ todo' = {} /\ UNCHANGED <<kernel, untold>>
  /\ UNCHANGED <<kind, field>>

Close == Between /\ at' = "closed" /\ UNCHANGED <<kind, field, kernel, todo, untold>>

Next ==
  \/ \E o \in Options : (\E v \in 0..MaxValue : Set(o, v)) \/ GiveOption(o)
  \/ Open \/ Finish \/ Fail \/ Close

Spec == Init /\ [][Next]_vars

-----------------------------------------------------------------------------
(* Properties                                                              *)

TypeOK ==
  /\ kind \in {"tcp", "udp", "accepted"}
  /\ at \in {"closed", "opened", "threw", "making"}
  /\ field \in [Options -> 0..MaxValue]
  /\ kernel \in [Options -> 0..(MaxValue + 1)]
  /\ todo \subseteq Options /\ untold \subseteq Switches

\* What getRecvTimeout(), getSendBufSize(), ... answer.
Told(o) == IF field[o] > 0 \/ at # "opened" THEN field[o] ELSE kernel[o]

(* Whatever was set before open(), between two of them or since, and whichever
   call failed: an open socket has the timeouts and sizes that its getters say,
   every timeout that was set, and every switch as its member says, but for a
   switch that the system refused or was not told of. *)
OptionsHold ==
  at = "opened" =>
    /\ \A o \in Sizes : Told(o) = kernel[o]
    /\ \A o \in Options \ (BufferOptions \cup untold) : field[o] = kernel[o]
=============================================================================
