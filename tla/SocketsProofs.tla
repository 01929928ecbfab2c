---------------------------- MODULE SocketsProofs -----------------------------
(***************************************************************************)
(* What a socket promises, for every number of addresses, retries and      *)
(* opens, and all timeouts, families, ports and options.  None of the      *)
(* promises is inductive: they speak of an open socket, or of a read()     *)
(* that has returned, and are silent about an open() or read() under way.  *)
(* Each section finds the invariant of one of the parts that Sockets       *)
(* composes; SocketsInv is all of them, each where its part is looked at.  *)
(***************************************************************************)
EXTENDS Sockets, TLAPS

-----------------------------------------------------------------------------
(* The options                                                             *)

(* Member and system agree; a buffer nobody asked for has the system's size. *)
Agree(o) == kernel[o] = field[o] \/ (o \in BufferOptions /\ field[o] = 0)

(* The inductive invariant: in open() what is not to do is done. *)
OptionsInv ==
  /\ Opt!TypeOK
  /\ stage = "opened" => \A o \in Opt!Options \ untold : Agree(o)
  /\ stage = "making" => \A o \in Opt!Options \ todo : Agree(o)
  /\ stage = "making" => untold = {}

(* OptionKinds as the options see it. *)
LEMMA Kinds ==
  /\ MaxValue \in Nat \ {0}
  /\ TimeoutOptions \cap BufferOptions = {} /\ Opt!Sizes \cap Opt!Switches = {}
BY OptionsAssumption DEF Sizes, Switches, Opt!Sizes, Opt!Switches

LEMMA NewSocketsType == Opt!New \in [Opt!Options -> 0..(MaxValue + 1)]
BY Kinds DEF Opt!New, Opt!Default

LEMMA OptionsInitially == Opt!Init => OptionsInv
<1> SUFFICES ASSUME Opt!Init PROVE OptionsInv
  OBVIOUS
<1>1. /\ kind \in {"tcp", "udp", "accepted"} /\ todo = {}
      /\ field \in [Opt!Options -> {0, 1}] /\ \A o \in Opt!Options : field[o] \in Opt!Made(o)
  BY DEF Opt!Init
<1>2. field \in [Opt!Options -> 0..MaxValue]
  <2>1. {0, 1} \subseteq 0..MaxValue
    BY Kinds
  <2>. QED
    BY <1>1, <2>1
<1>3. \A o \in Opt!Sizes : field[o] = 0
  <2>1. ASSUME NEW o \in Opt!Sizes PROVE o \in Opt!Options /\ o \notin Opt!Switches
    BY Kinds DEF Opt!Options
  <2>. QED
    BY <1>1, <2>1 DEF Opt!Made, Opt!Switches
<1>4. CASE kind = "accepted"
  <2>1. PICK l \in {0, 1}, d \in {0, 1} : kernel = [Opt!New EXCEPT !["linger"] = l, !["noDelay"] = d]
    BY <1>4 DEF Opt!Init
  <2>2. stage = "opened" /\ untold = {"linger", "noDelay"}
    BY <1>4 DEF Opt!Init
  <2>3. kernel \in [Opt!Options -> 0..(MaxValue + 1)]
    <3>1. l \in 0..(MaxValue + 1) /\ d \in 0..(MaxValue + 1)
      BY Kinds
    <3>. QED
      BY <2>1, <3>1, NewSocketsType
  <2>4. Opt!TypeOK
    BY <1>1, <1>2, <2>2, <2>3 DEF Opt!TypeOK, Opt!Switches
  <2>5. ASSUME NEW o \in Opt!Options \ untold
        PROVE  Agree(o)
    <3>1. kernel[o] = Opt!Default(o)
      BY <2>1, <2>2, <2>5 DEF Opt!New
    <3>2. CASE o \in Opt!Sizes
      BY <1>3, <3>1, <3>2 DEF Agree, Opt!Default, Opt!Sizes
    <3>3. CASE o = "keepAlive"
      BY <1>1, <3>1, <3>3, Kinds DEF Agree, Opt!Default, Opt!Made, Opt!Sizes, Opt!Switches
    <3>. QED
      BY <1>4, <2>2, <3>2, <3>3 DEF Opt!Options
  <2>. QED
    BY <2>2, <2>4, <2>5 DEF OptionsInv
<1>5. CASE kind # "accepted"
  <2>1. stage = "closed" /\ untold = {} /\ kernel = Opt!New
    BY <1>5 DEF Opt!Init
  <2>2. Opt!TypeOK
    BY <1>1, <1>2, <2>1, NewSocketsType DEF Opt!TypeOK
  <2>. QED
    BY <2>1, <2>2 DEF OptionsInv
<1>. QED
  BY <1>4, <1>5

(* The member is assigned after the system took the value, in one step. *)
LEMMA SizeSet ==
  ASSUME OptionsInv, NEW o \in Opt!Options, NEW v \in 0..MaxValue, Opt!Between, Opt!SetSize(o, v), UNCHANGED <<kind, stage, todo>>
  PROVE  OptionsInv'
<1>1. /\ field' = [field EXCEPT ![o] = v]
      /\ kernel' = IF stage = "opened" THEN [kernel EXCEPT ![o] = v] ELSE kernel
      /\ untold' = untold /\ Opt!Options' = Opt!Options
  BY DEF Opt!SetSize, Opt!Options
<1>2. Opt!TypeOK'
  BY <1>1, Kinds DEF OptionsInv, Opt!TypeOK
<1>3. ASSUME stage = "opened", NEW p \in Opt!Options \ untold
      PROVE  Agree(p)'
  BY <1>1, <1>3 DEF OptionsInv, Opt!TypeOK, Agree
<1>. QED
  BY <1>1, <1>2, <1>3 DEF OptionsInv, Opt!Between

(* A switch the system did not take is marked. *)
LEMMA SwitchSet ==
  ASSUME OptionsInv, NEW o \in Opt!Options, NEW v \in 0..MaxValue, Opt!Between, Opt!SetSwitch(o, v), UNCHANGED <<kind, stage, todo>>
  PROVE  OptionsInv'
<1>1. /\ field' = [field EXCEPT ![o] = v] /\ o \in Opt!Switches
      /\ Opt!Options' = Opt!Options
  BY DEF Opt!SetSwitch, Opt!Options
<1>2. CASE kernel' = [kernel EXCEPT ![o] = v] /\ untold' = untold \ {o} /\ stage = "opened"
  <2>1. Opt!TypeOK'
    BY <1>1, <1>2, Kinds DEF OptionsInv, Opt!TypeOK
  <2>2. ASSUME NEW p \in Opt!Options \ untold'
        PROVE  Agree(p)'
    BY <1>1, <1>2, <2>2 DEF OptionsInv, Opt!TypeOK, Agree
  <2>. QED
    BY <1>1, <1>2, <2>1, <2>2 DEF OptionsInv
<1>3. CASE kernel' = kernel /\ untold' = untold \cup {o} /\ stage = "opened"
  <2>1. Opt!TypeOK'
    BY <1>1, <1>3 DEF OptionsInv, Opt!TypeOK
  <2>2. ASSUME NEW p \in Opt!Options \ untold'
        PROVE  Agree(p)'
    BY <1>1, <1>3, <2>2 DEF OptionsInv, Opt!TypeOK, Agree
  <2>. QED
    BY <1>1, <1>3, <2>1, <2>2 DEF OptionsInv
<1>4. CASE kernel' = kernel /\ untold' = untold /\ stage # "opened"
  <2>1. Opt!TypeOK'
    BY <1>1, <1>4 DEF OptionsInv, Opt!TypeOK
  <2>. QED
    BY <1>4, <2>1 DEF OptionsInv, Opt!Between
<1>. QED
  BY <1>2, <1>3, <1>4 DEF Opt!SetSwitch

(* A new socket agrees with every member that open() will not pass on. *)
LEMMA SocketMade ==
  ASSUME OptionsInv, Opt!NewSocket, UNCHANGED <<kind, field>>
  PROVE  OptionsInv'
<1> USE Kinds
<1>1. /\ stage' = "making" /\ untold' = {} /\ kernel' = Opt!New /\ Opt!Options' = Opt!Options
      /\ todo' = {o \in Opt!Options : field[o] > 0 \/ o \in {"linger", "noDelay"}}
  BY DEF Opt!NewSocket, Opt!Options
<1>2. Opt!TypeOK'
  BY <1>1 DEF OptionsInv, Opt!TypeOK, Opt!New, Opt!Default
<1>3. ASSUME NEW o \in Opt!Options \ todo'
      PROVE  Agree(o)'
  <2>1. field[o] = 0
    BY <1>1, <1>3 DEF OptionsInv, Opt!TypeOK
  <2>. QED
    BY <1>1, <2>1 DEF Agree, Opt!New, Opt!Default
<1>. QED
  BY <1>1, <1>2, <1>3 DEF OptionsInv

LEMMA OptionsStep == OptionsInv /\ [Opt!Next]_Opt!vars => OptionsInv'
<1> SUFFICES ASSUME OptionsInv, [Opt!Next]_Opt!vars PROVE OptionsInv'
  OBVIOUS
<1>1. ASSUME NEW o \in Opt!Options, NEW v \in 0..MaxValue, Opt!Set(o, v)
      PROVE  OptionsInv'
  BY <1>1, SizeSet, SwitchSet DEF Opt!Set
<1>2. ASSUME NEW o \in Opt!Options, Opt!GiveOption(o)
      PROVE  OptionsInv'
  <2>1. /\ stage = "making" /\ stage' = stage /\ untold' = untold /\ field' = field
        /\ todo' = todo \ {o} /\ kernel' = [kernel EXCEPT ![o] = field[o]] /\ Opt!Options' = Opt!Options
    BY <1>2 DEF Opt!GiveOption, Opt!Options
  <2>2. Opt!TypeOK'
    BY <1>2, <2>1, Kinds DEF OptionsInv, Opt!TypeOK, Opt!GiveOption
  <2>3. ASSUME NEW p \in Opt!Options \ todo'
        PROVE  Agree(p)'
    BY <2>1, <2>3 DEF OptionsInv, Opt!TypeOK, Agree
  <2>. QED
    BY <2>1, <2>2, <2>3 DEF OptionsInv
<1>3. CASE Opt!Open
  <2>1. CASE kind = "accepted"
    BY <1>3, <2>1 DEF Opt!Open, OptionsInv, Opt!TypeOK, Opt!Options
  <2>2. CASE kind # "accepted"
    BY <1>3, <2>2, SocketMade DEF Opt!Open
  <2>. QED
    BY <2>1, <2>2
<1>4. CASE Opt!Finish
  BY <1>4 DEF Opt!Finish, OptionsInv, Opt!TypeOK, Opt!Options, Agree
<1>5. CASE Opt!Fail
  <2>1. CASE Opt!NewSocket
    BY <1>5, <2>1, SocketMade DEF Opt!Fail
  <2>2. CASE stage' = "threw" /\ todo' = {} /\ UNCHANGED <<kernel, untold>>
    BY <1>5, <2>2 DEF Opt!Fail, OptionsInv, Opt!TypeOK, Opt!Options
  <2>. QED
    BY <1>5, <2>1, <2>2 DEF Opt!Fail
<1>6. CASE Opt!Close
  BY <1>6 DEF Opt!Close, OptionsInv, Opt!TypeOK, Opt!Options
<1>7. CASE UNCHANGED Opt!vars
  BY <1>7 DEF Opt!vars, OptionsInv, Opt!TypeOK, Opt!Options, Agree
<1>. QED
  BY <1>1, <1>2, <1>3, <1>4, <1>5, <1>6, <1>7 DEF Opt!Next

(* An open socket has what its getters and members say. *)
LEMMA OptionsInvHolds == OptionsInv => Opt!TypeOK /\ Opt!OptionsHold
<1>1. OptionsInv => Opt!OptionsHold
  <2>1. SUFFICES ASSUME OptionsInv, stage = "opened"
                 PROVE  /\ \A o \in Opt!Sizes : Opt!Told(o) = kernel[o]
                        /\ \A o \in Opt!Options \ (BufferOptions \cup untold) : field[o] = kernel[o]
    BY DEF Opt!OptionsHold
  <2>2. ASSUME NEW o \in Opt!Sizes
        PROVE  Opt!Told(o) = kernel[o]
    <3>1. o \in Opt!Options \ untold
      BY <2>1, Kinds DEF OptionsInv, Opt!TypeOK, Opt!Options
    <3>2. Agree(o)
      BY <2>1, <3>1 DEF OptionsInv
    <3>. QED
      BY <2>1, <3>1, <3>2 DEF Opt!Told, Agree, OptionsInv, Opt!TypeOK
  <2>3. ASSUME NEW o \in Opt!Options \ (BufferOptions \cup untold)
        PROVE  field[o] = kernel[o]
    BY <2>1, <2>3 DEF OptionsInv, Agree
  <2>. QED
    BY <2>2, <2>3
<1>. QED
  BY <1>1 DEF OptionsInv

-----------------------------------------------------------------------------
(* read()                                                                  *)

(* Each retry took one timeout at most, the attempt under way takes elapsed. *)
Spent ==
  at = "waiting" => retries <= MaxRetries /\ total <= retries * timeout + elapsed

Bounded == total <= (MaxRetries + 1) * timeout

ReadInv == timeout \in Timeouts /\ TypeOK /\ Spent /\ Bounded

(* Natural numbers throughout, as the constants are. *)
LEMMA AllNatural == TypeOK /\ timeout \in Timeouts =>
  timeout \in Nat /\ MaxRetries \in Nat /\ retries \in Nat /\ elapsed \in Nat /\ total \in Nat
BY ReadAssumption DEF TypeOK

(* One more retry is worth one more timeout. *)
LEMMA OneMore == ASSUME NEW t \in Nat, NEW r \in Nat PROVE (r + 1) * t = r * t + t
BY SMT

(* More retries are worth more. *)
LEMMA Monotone == ASSUME NEW t \in Nat, NEW r \in Nat, NEW m \in Nat, r <= m PROVE r * t <= m * t
<1>1. PICK d \in Nat : m = r + d
  BY m - r \in Nat, m = r + (m - r)
<1>2. (r + d) * t = r * t + d * t
  BY <1>1, SMT
<1>3. d * t \in Nat /\ r * t \in Nat
  BY <1>1, SMT
<1> QED
  BY <1>1, <1>2, <1>3

(* Less than a retry's timeout was spent in the attempt under way. *)
LEMMA SpentIsBounded ==
  ASSUME NEW t \in Nat, NEW r \in Nat, NEW m \in Nat, r <= m, NEW e \in 0 .. t, NEW n \in Nat,
         n <= r * t + e
  PROVE  n <= (m + 1) * t
<1>1. r * t <= m * t
  BY Monotone
<1>2. (m + 1) * t = m * t + t
  BY OneMore
<1>3. r * t \in Nat /\ m * t \in Nat
  BY SMT
<1> QED
  BY <1>1, <1>2, <1>3

(* The constants are what read() can be called with. *)
LEMMA ReadInitially == Init => ReadInv
<1> SUFFICES ASSUME Init PROVE ReadInv
  OBVIOUS
<1>1. timeout \in Timeouts /\ timeout \in Nat /\ MaxRetries \in Nat
  BY ReadAssumption DEF Init
<1>2. TypeOK
  BY <1>1 DEF Init, TypeOK
<1>3. 0 * timeout = 0
  BY <1>1
<1>4. Spent
  BY <1>1, <1>3 DEF Init, Spent
<1>5. Bounded
  BY <1>1, <1>4, SpentIsBounded DEF Init, Spent, Bounded
<1> QED
  BY <1>1, <1>2, <1>4, <1>5 DEF ReadInv

(* A retry: the attempt is over and, with retries left, a new one begins. *)
LEMMA Retrying ==
  ASSUME ReadInv, at = "waiting", NEW e \in {"resources", "failed"}, RetryOr(e)
  PROVE  ReadInv'
<1>1. /\ timeout \in Nat /\ MaxRetries \in Nat /\ retries \in Nat /\ total \in Nat
      /\ elapsed \in 0 .. timeout /\ retries <= MaxRetries
      /\ total <= retries * timeout + elapsed
  BY AllNatural DEF ReadInv, TypeOK, Spent
<1>2. timeout' = timeout /\ total' = total /\ retries' = retries + 1
  BY DEF RetryOr
<1>3. (retries + 1) * timeout = retries * timeout + timeout
  BY <1>1, OneMore
<1>4. retries * timeout \in Nat
  BY <1>1, SMT
<1>5. CASE retries + 1 <= MaxRetries
  <2>1. at' = "waiting" /\ elapsed' = 0
    BY <1>5 DEF RetryOr
  <2>2. total' <= retries' * timeout' + elapsed'
    BY <1>1, <1>2, <1>3, <1>4, <2>1
  <2> QED
    BY <1>1, <1>2, <1>5, <2>1, <2>2 DEF ReadInv, TypeOK, Spent, Bounded
<1>6. CASE ~(retries + 1 <= MaxRetries)
  <2>1. at' = e /\ elapsed' = elapsed
    BY <1>6 DEF RetryOr
  <2> QED
    BY <1>1, <1>2, <1>6, <2>1 DEF ReadInv, TypeOK, Spent, Bounded
<1> QED
  BY <1>5, <1>6

(* Every step keeps the invariant. *)
LEMMA ReadStep == ReadInv /\ [Next]_vars => ReadInv'
<1> SUFFICES ASSUME ReadInv, [Next]_vars PROVE ReadInv'
  OBVIOUS
<1>1. /\ timeout \in Nat /\ MaxRetries \in Nat /\ retries \in Nat /\ total \in Nat
      /\ elapsed \in 0 .. timeout
  BY AllNatural DEF ReadInv, TypeOK
<1>2. CASE Tick
  <2>1. /\ timeout' = timeout /\ retries' = retries /\ at' = at /\ at = "waiting"
        /\ total' = total + 1 /\ elapsed' = elapsed + 1 /\ elapsed' \in 0 .. timeout'
    BY <1>1, <1>2 DEF Tick
  <2>2. retries <= MaxRetries /\ total <= retries * timeout + elapsed
    BY <2>1 DEF ReadInv, Spent
  <2>3. retries * timeout \in Nat
    BY <1>1, SMT
  <2>4. total' <= retries * timeout + elapsed'
    BY <1>1, <2>1, <2>2, <2>3
  <2>5. total' \in Nat /\ elapsed' \in 0 .. timeout
    BY <1>1, <2>1
  <2>6. total' <= (MaxRetries + 1) * timeout
    BY <1>1, <2>2, <2>4, <2>5, SpentIsBounded
  <2> QED
    BY <1>1, <2>1, <2>2, <2>4, <2>5, <2>6 DEF ReadInv, TypeOK, Spent, Bounded
<1>3. CASE Return \/ TimesOut \/ Fails
  BY <1>3 DEF Return, TimesOut, Fails, ReadInv, TypeOK, Spent, Bounded
<1>4. CASE Exhausted
  <2>1. CASE timeout # 0 /\ elapsed < Threshold
    BY <1>4, <2>1, Retrying DEF Exhausted
  <2>2. CASE ~(timeout # 0 /\ elapsed < Threshold)
    BY <1>4, <2>2 DEF Exhausted, ReadInv, TypeOK, Spent, Bounded
  <2> QED
    BY <2>1, <2>2
<1>5. CASE Interrupted
  BY <1>5, Retrying DEF Interrupted
<1>6. CASE UNCHANGED vars
  BY <1>6 DEF vars, ReadInv, TypeOK, Spent, Bounded
<1> QED
  BY <1>2, <1>3, <1>4, <1>5, <1>6 DEF Next


-----------------------------------------------------------------------------
(* open() of a TcpSocket                                                   *)

\* Where open() is at work on the address i, and where it has a socket for it.
Trying == {"socket", "local", "bind", "mode", "connect", "poll", "done", "failed"}
Making == {"local", "bind", "mode", "connect", "poll", "done"}

TcpTypes ==
  /\ addrs \in Tcp!Lists(MaxAddrs) /\ locals \in Tcp!Lists(MaxLocals)
  /\ asks \in BOOLEAN /\ timed \in BOOLEAN
  /\ Tcp!TypeOK
  /\ os \in [family: Families, bound: BOOLEAN, connected: BOOLEAN, blocking: BOOLEAN, refused: BOOLEAN]

(* The socket of an open() under way is _sock, of the family of the address
   that is tried, and bound by the time it is connected. *)
TcpOpening ==
  /\ where \in Trying => i \in 1..Len(addrs)
  /\ where = "bind" => j \in 1..Len(locals)
  /\ where = "local" => j \in 1..(Len(locals) + 1)
  /\ where \in Making => sock # 0 /\ os.family = addrs[i]
  /\ where \in {"mode", "connect", "poll", "done"} /\ asks => os.bound
  /\ where = "done" => os.connected

TcpInv ==
  /\ TcpTypes /\ TcpOpening
  /\ Tcp!NothingLeaks /\ Tcp!ReturnMeansConnected /\ Tcp!ThrowMeansAllTried
  /\ where \in {"closed", "socket"} => sock = 0
  /\ where = "opened" => cached \in 1..Len(addrs)
  /\ where # "opened" => cached = 0

(* A host has an address or more. *)
LEMMA ListsOf ==
  ASSUME NEW n \in Nat, NEW s \in Tcp!Lists(n)
  PROVE  s \in Seq(Families) /\ Len(s) \in 1..n /\ DOMAIN s = 1..Len(s)
BY DEF Tcp!Lists

LEMMA TcpInitially == Tcp!Init => TcpInv
<1> SUFFICES ASSUME Tcp!Init PROVE TcpInv
  OBVIOUS
<1>1. /\ addrs \in Seq(Families) /\ Len(addrs) \in 1..MaxAddrs
      /\ locals \in Seq(Families) /\ Len(locals) \in 1..MaxLocals
  BY ListsOf, SocketsAssumption DEF Tcp!Init
<1>2. Tcp!Fresh \in [family: Families, bound: BOOLEAN, connected: BOOLEAN, blocking: BOOLEAN, refused: BOOLEAN]
  BY <1>1 DEF Tcp!Fresh
<1>. QED
  BY <1>1, <1>2, ReadAssumption
     DEF Tcp!Init, TcpInv, TcpTypes, TcpOpening, Tcp!TypeOK, Tcp!NothingLeaks, Tcp!ReturnMeansConnected,
         Tcp!ThrowMeansAllTried, Trying, Making

LEMMA TcpStep == TcpInv /\ [Tcp!Next]_Tcp!vars => TcpInv'
<1> SUFFICES ASSUME TcpInv, [Tcp!Next]_Tcp!vars PROVE TcpInv'
  OBVIOUS
<1> USE ReadAssumption, SocketsAssumption
        DEF TcpInv, TcpTypes, TcpOpening, Tcp!TypeOK, Tcp!NothingLeaks, Tcp!ReturnMeansConnected,
            Tcp!ThrowMeansAllTried, Trying, Making, Tcp!config
<1>1. /\ addrs \in Seq(Families) /\ Len(addrs) \in Nat /\ Len(addrs) >= 1
      /\ locals \in Seq(Families) /\ Len(locals) \in Nat /\ Len(locals) >= 1
      /\ MaxRetries \in Nat
  BY ListsOf
<1>2. Tcp!Fresh \in [family: Families, bound: BOOLEAN, connected: BOOLEAN, blocking: BOOLEAN, refused: BOOLEAN]
  BY <1>1 DEF Tcp!Fresh
<1>3. CASE Tcp!Open
  BY <1>1, <1>3 DEF Tcp!Open, Tcp!Between
<1>4. CASE Tcp!OpenAgain
  BY <1>1, <1>4 DEF Tcp!OpenAgain, Tcp!Between
<1>5. CASE Tcp!MakeSocket
  <2>1. made = {} /\ sock = 0
    BY <1>5 DEF Tcp!MakeSocket
  <2>2. MaxAddrs * MaxOpens + 1 \in Nat /\ 1 \in 1..(MaxAddrs * MaxOpens + 1)
    BY SMT
  <2>3. sock' # 0 /\ made' = {sock'}
    <3>1. sock' \in 1..(MaxAddrs * MaxOpens + 1) /\ made' = made \cup {sock'}
      BY <1>5, <2>1, <2>2 DEF Tcp!MakeSocket
    <3>. QED
      BY <2>1, <3>1
  <2>4. os' \in [family: Families, bound: BOOLEAN, connected: BOOLEAN, blocking: BOOLEAN, refused: BOOLEAN] /\ os'.family = addrs[i]
    <3>1. os' = [Tcp!Fresh EXCEPT !.family = addrs[i]] /\ addrs[i] \in Families
      BY <1>1, <1>5 DEF Tcp!MakeSocket
    <3>. QED
      BY <1>2, <3>1
  <2>. QED
    BY <1>1, <1>5, <2>1, <2>3, <2>4 DEF Tcp!MakeSocket
<1>6. CASE Tcp!NextLocal
  BY <1>1, <1>6 DEF Tcp!NextLocal
<1>7. CASE Tcp!Bind
  <2>1. /\ where = "bind" /\ where' \in {"bind", "mode", "failed", "local"}
        /\ UNCHANGED <<addrs, locals, asks, timed, i, made, sock, cached>>
    BY <1>7 DEF Tcp!Bind
  <2>2. j' \in 1..(Len(locals) + 1) /\ (where' = "bind" => j' = j) /\ tries' \in 0..MaxRetries
    BY <1>1, <1>7 DEF Tcp!Bind
  <2>3. /\ os' \in [family: Families, bound: BOOLEAN, connected: BOOLEAN, blocking: BOOLEAN, refused: BOOLEAN]
        /\ os'.family = os.family /\ (where' = "mode" => os'.bound)
    BY <1>7 DEF Tcp!Bind
  <2>. QED
    BY <1>1, <2>1, <2>2, <2>3
<1>8. CASE Tcp!SetMode \/ Tcp!Connect \/ Tcp!Connected \/ Tcp!Finish \/ Tcp!Fail
  <2>1. CASE Tcp!SetMode
    BY <1>1, <2>1 DEF Tcp!SetMode
  <2>2. CASE Tcp!Connect
    BY <1>1, <2>2 DEF Tcp!Connect
  <2>3. CASE Tcp!Connected
    BY <1>1, <2>3 DEF Tcp!Connected
  <2>4. CASE Tcp!Finish
    BY <1>1, <2>4 DEF Tcp!Finish
  <2>5. CASE Tcp!Fail
    BY <1>1, <2>5 DEF Tcp!Fail
  <2>. QED
    BY <1>8, <2>1, <2>2, <2>3, <2>4, <2>5
<1>9. CASE Tcp!Catch
  BY <1>1, <1>2, <1>9 DEF Tcp!Catch, Tcp!Closed
<1>10. CASE Tcp!Close
  BY <1>1, <1>2, <1>10 DEF Tcp!Close, Tcp!Closed, Tcp!Between
<1>11. CASE UNCHANGED Tcp!vars
  BY <1>11 DEF Tcp!vars
<1>. QED
  BY <1>3, <1>4, <1>5, <1>6, <1>7, <1>8, <1>9, <1>10, <1>11 DEF Tcp!Next, Tcp!Work

-----------------------------------------------------------------------------
(* open(), read() and write() of a UdpSocket                               *)

UdpTypes ==
  /\ remotes \in Udp!Lists \cup {<<>>} /\ locals \in Udp!Lists \cup {<<>>} /\ filter \in BOOLEAN
  /\ Udp!TypeOK
  /\ os \in [family: Families \cup {Udp!None}, bound: BOOLEAN]
  /\ cached \in [peer: Peers \cup {Udp!None}, family: Families \cup {Udp!None}]
  /\ sentTo \in [peer: Peers \cup {Udp!None}, family: Families \cup {Udp!None}]

(* The remote's address comes first, and its family is the socket's. *)
UdpOpening ==
  /\ where = "remote" => remotes # <<>> /\ sock = 0 /\ (locals # <<>> => j \in 1..Len(locals))
  /\ where = "local" => (remotes # <<>> <=> sock # 0) /\ (remotes = <<>> => ~filter)
  /\ where = "bind" => remotes = <<>> /\ locals # <<>> /\ ~filter /\ sock # 0 /\ cached = Udp!NoAddress
  /\ where \in {"closed", "threw"} => sock = 0
  /\ sock = 0 => cached = Udp!NoAddress
  /\ sock # 0 => os.family \in Families
  /\ cached # Udp!NoAddress => cached.peer \in Peers /\ cached.family = os.family
  /\ where = "local" /\ remotes # <<>> => cached # Udp!NoAddress

(* Whom the socket will write to: the remote, or whoever was read last. *)
Talks ==
  /\ where # "opened" => got = Udp!None /\ sentTo = Udp!NoAddress
  /\ where \in {"local", "opened"} /\ remotes # <<>> /\ filter => cached.peer = Remote
  /\ where = "opened" /\ filter => remotes # <<>>
  /\ where = "opened" /\ ~filter /\ got # Udp!None => cached.peer = got

UdpInv ==
  UdpTypes /\ UdpOpening /\ Talks /\ Udp!NothingLeaks /\ Udp!OpenMeansUsable /\ Udp!FilterHolds

LEMMA RemotesOf ==
  ASSUME NEW s \in Udp!Lists \cup {<<>>}
  PROVE  s \in Seq(Families) /\ Len(s) \in Nat /\ (s # <<>> => Len(s) >= 1) /\ DOMAIN s = 1..Len(s)
<1>1. ASSUME s # <<>> PROVE s \in Seq(Families) /\ Len(s) \in Nat /\ Len(s) >= 1 /\ DOMAIN s = 1..Len(s)
  BY <1>1, SocketsAssumption DEF Udp!Lists
<1>2. CASE s = <<>>
  BY <1>2
<1>. QED
  BY <1>1, <1>2

LEMMA UdpInitially == Udp!Init => UdpInv
BY SocketsAssumption
   DEF Udp!Init, UdpInv, UdpTypes, UdpOpening, Talks, Udp!TypeOK, Udp!NothingLeaks, Udp!OpenMeansUsable,
       Udp!FilterHolds, Udp!None, Udp!NoAddress

(* A new socket of a family, unless there is one. *)
LEMMA Creates ==
  ASSUME made = {sock} \ {0}, os \in [family: Families \cup {Udp!None}, bound: BOOLEAN], NEW f \in Families, Udp!Create(f)
  PROVE  /\ made' = {sock'} \ {0} /\ sock' # 0
         /\ os' \in [family: Families \cup {Udp!None}, bound: BOOLEAN]
         /\ sock = 0 => os'.family = f
         /\ sock # 0 => os' = os
<1>1. CASE sock # 0
  BY <1>1 DEF Udp!Create
<1>2. CASE sock = 0
  <2>1. 2 * MaxAddrs * MaxOpens + 1 \in Nat /\ 1 \in 1..(2 * MaxAddrs * MaxOpens + 1)
    <3>1. MaxAddrs \in Nat /\ MaxOpens \in Nat
      BY SocketsAssumption
    <3>2. 2 * MaxAddrs \in Nat
      BY <3>1
    <3>3. \A k \in Nat : k * MaxOpens \in Nat
      BY <3>1
    <3>. QED
      BY <3>2, <3>3
  <2>2. sock' \in 1..(2 * MaxAddrs * MaxOpens + 1) /\ made' = made \cup {sock'}
    BY <1>2, <2>1 DEF Udp!Create
  <2>3. os' = [family |-> f, bound |-> FALSE]
    BY <1>2 DEF Udp!Create
  <2>. QED
    BY <1>2, <2>2, <2>3
<1>. QED
  BY <1>1, <1>2

(* close() leaves nothing of a socket. *)
LEMMA Closes ==
  ASSUME made = {sock} \ {0}, Udp!Closed
  PROVE  /\ made' = {} /\ sock' = 0 /\ cached' = Udp!NoAddress
         /\ os' = [family |-> Udp!None, bound |-> FALSE]
BY DEF Udp!Closed

(* After close() open() has thrown, or tries another address. *)
LEMMA ShutKeeps ==
  ASSUME UdpInv, Udp!Closed, UNCHANGED <<remotes, locals, filter>>,
         got' = Udp!None, sentTo' = Udp!NoAddress,
         \/ where' \in {"closed", "threw"}
         \/ /\ where' = "remote" /\ i' \in 1..Len(remotes) /\ remotes # <<>>
            /\ locals # <<>> => j' \in 1..Len(locals)
         \/ where' = "local" /\ remotes = <<>> /\ ~filter /\ (locals # <<>> => j' \in 1..Len(locals))
  PROVE  UdpInv'
<1>1. /\ made' = {} /\ sock' = 0 /\ cached' = Udp!NoAddress
      /\ os' = [family |-> Udp!None, bound |-> FALSE]
  BY Closes DEF UdpInv, Udp!NothingLeaks
<1>2. UdpTypes'
  BY <1>1 DEF UdpInv, UdpTypes, Udp!TypeOK, Udp!None, Udp!NoAddress
<1>3. UdpOpening' /\ Talks'
  BY <1>1 DEF UdpOpening, Talks
<1>4. Udp!NothingLeaks' /\ Udp!OpenMeansUsable' /\ Udp!FilterHolds'
  BY <1>1 DEF Udp!NothingLeaks, Udp!OpenMeansUsable, Udp!FilterHolds
<1>. QED
  BY <1>2, <1>3, <1>4 DEF UdpInv

LEMMA UdpStep == UdpInv /\ [Udp!Next]_Udp!vars => UdpInv'
<1> SUFFICES ASSUME UdpInv, [Udp!Next]_Udp!vars PROVE UdpInv'
  OBVIOUS
<1> USE SocketsAssumption
        DEF UdpInv, UdpTypes, UdpOpening, Talks, Udp!TypeOK, Udp!NothingLeaks, Udp!OpenMeansUsable,
            Udp!FilterHolds, Udp!None, Udp!NoAddress, Udp!config, Udp!traffic
<1>1. /\ remotes \in Seq(Families) /\ Len(remotes) \in Nat /\ (remotes # <<>> => Len(remotes) >= 1)
      /\ locals \in Seq(Families) /\ Len(locals) \in Nat /\ (locals # <<>> => Len(locals) >= 1)
  BY RemotesOf
<1>2. CASE Udp!SetRemoteAddr
  BY <1>2 DEF Udp!SetRemoteAddr, Udp!Between
<1>3. CASE Udp!Open
  BY <1>1, <1>3 DEF Udp!Open, Udp!Between
<1>4. CASE Udp!TryRemote
  <2>1. /\ where = "remote" /\ sock = 0 /\ UNCHANGED <<remotes, locals, filter, j, got, sentTo>>
        /\ remotes[i] \in Families /\ Len(remotes) >= 1 /\ i \in 1..Len(remotes)
        /\ got = Udp!None /\ sentTo = Udp!NoAddress
    BY <1>1, <1>4 DEF Udp!TryRemote
  <2>2. CASE /\ Udp!Create(remotes[i])
             /\ cached' = [peer |-> Remote, family |-> remotes[i]]
             /\ where' = "local" /\ UNCHANGED i
    <3>1. /\ made' = {sock'} \ {0} /\ sock' # 0 /\ os'.family = remotes[i]
          /\ os' \in [family: Families \cup {Udp!None}, bound: BOOLEAN]
      BY <2>1, <2>2, Creates
    <3>2. /\ cached' \in [peer: Peers \cup {Udp!None}, family: Families \cup {Udp!None}]
          /\ cached'.peer = Remote /\ cached'.family = remotes[i] /\ cached' # Udp!NoAddress
      BY <2>1, <2>2
    <3>. QED
      BY <1>1, <2>1, <2>2, <3>1, <3>2
  <2>3. CASE /\ Udp!Closed
             /\ IF i = Len(remotes) THEN where' = "threw" /\ UNCHANGED i ELSE i' = i + 1 /\ UNCHANGED where
    BY <1>1, <2>1, <2>3, ShutKeeps
  <2>. QED
    BY <1>4, <2>2, <2>3 DEF Udp!TryRemote
<1>5. CASE Udp!NoLocal
  <2>1. CASE sock # 0
    BY <1>1, <1>5, <2>1 DEF Udp!NoLocal
  <2>2. CASE sock = 0
    BY <1>1, <1>5, <2>2, ShutKeeps DEF Udp!NoLocal
  <2>. QED
    BY <2>1, <2>2
<1>6. CASE Udp!BindLocal
  <2>1. /\ where = "local" /\ sock # 0 /\ locals # <<>> /\ j \in 1..Len(locals)
        /\ UNCHANGED <<remotes, locals, filter, i, got, sentTo>>
        /\ got = Udp!None /\ sentTo = Udp!NoAddress
    BY <1>6 DEF Udp!BindLocal
  <2>2. CASE os' = [os EXCEPT !.bound = TRUE] /\ where' = "opened" /\ UNCHANGED <<j, made, sock, cached>>
    <3>1. /\ os' \in [family: Families \cup {Udp!None}, bound: BOOLEAN]
          /\ os'.bound /\ os'.family = os.family
      BY <2>2
    <3>. QED
      BY <1>1, <2>1, <2>2, <3>1
  <2>3. CASE j = Len(locals) /\ where' = "threw" /\ Udp!Closed
    BY <1>1, <2>1, <2>3, ShutKeeps
  <2>4. CASE j # Len(locals) /\ j' = j + 1 /\ UNCHANGED <<where, made, sock, os, cached>>
    BY <1>1, <2>1, <2>4
  <2>. QED
    BY <1>6, <2>2, <2>3, <2>4 DEF Udp!BindLocal
<1>7. CASE Udp!CreateLocal
  <2>1. /\ where = "local" /\ sock = 0 /\ locals # <<>> /\ locals[j] \in Families
        /\ j \in 1..Len(locals) /\ remotes = <<>> /\ ~filter
        /\ UNCHANGED <<remotes, locals, filter, i, got, sentTo>>
        /\ got = Udp!None /\ sentTo = Udp!NoAddress
    BY <1>1, <1>7 DEF Udp!CreateLocal
  <2>2. CASE Udp!Create(locals[j]) /\ where' = "bind" /\ UNCHANGED <<j, cached>>
    BY <1>1, <2>1, <2>2, Creates
  <2>3. CASE /\ Udp!Closed
             /\ IF j = Len(locals) THEN where' = "threw" /\ UNCHANGED j ELSE j' = j + 1 /\ UNCHANGED where
    BY <1>1, <2>1, <2>3, ShutKeeps
  <2>. QED
    BY <1>7, <2>2, <2>3 DEF Udp!CreateLocal
<1>8. CASE Udp!BindCreated
  <2>1. /\ where = "bind" /\ sock # 0 /\ locals # <<>> /\ j \in 1..Len(locals) /\ remotes = <<>> /\ ~filter
        /\ UNCHANGED <<remotes, locals, filter, i, got, sentTo>>
        /\ got = Udp!None /\ sentTo = Udp!NoAddress
    BY <1>8 DEF Udp!BindCreated
  <2>2. CASE os' = [os EXCEPT !.bound = TRUE] /\ where' = "opened" /\ UNCHANGED <<j, made, sock, cached>>
    BY <1>1, <2>1, <2>2
  <2>3. CASE /\ Udp!Closed
             /\ IF j = Len(locals) THEN where' = "threw" /\ UNCHANGED j ELSE j' = j + 1 /\ where' = "local"
    BY <1>1, <2>1, <2>3, ShutKeeps
  <2>. QED
    BY <1>8, <2>2, <2>3 DEF Udp!BindCreated
<1>9. CASE Udp!Unknown
  BY <1>9, ShutKeeps DEF Udp!Unknown
<1>10. CASE Udp!Close
  BY <1>10, ShutKeeps DEF Udp!Close
<1>11. CASE Udp!Write
  BY <1>11 DEF Udp!Write
<1>12. ASSUME NEW p \in Peers, Udp!Read(p)
       PROVE  UdpInv'
  <2>1. where = "opened" /\ UNCHANGED <<remotes, locals, filter, where, i, j, made, sock, os, sentTo>>
    BY <1>12 DEF Udp!Read
  <2>2. CASE filter
    BY <1>12, <2>1, <2>2 DEF Udp!Read
  <2>3. CASE ~filter
    BY <1>12, <2>1, <2>3 DEF Udp!Read
  <2>. QED
    BY <2>2, <2>3
<1>13. CASE UNCHANGED Udp!vars
  BY <1>13 DEF Udp!vars
<1>. QED
  BY <1>2, <1>3, <1>4, <1>5, <1>6, <1>7, <1>8, <1>9, <1>10, <1>11, <1>12, <1>13 DEF Udp!Next, Udp!NextButRead, Udp!Work

-----------------------------------------------------------------------------
(* The names of the two ends                                               *)

NamesInv ==
  /\ accepted \in BOOLEAN /\ step \in {"closed", "opened", "threw", "made", "bound"}
  /\ Names!NamesAreCurrent
  /\ step = "bound" /\ asked # "none" => bindPort = port

LEMMA NamesInitially == Names!Init => NamesInv
BY DEF Names!Init, NamesInv, Names!NamesAreCurrent

LEMMA NamesStep == NamesInv /\ [Names!Next]_Names!vars => NamesInv'
<1> SUFFICES ASSUME NamesInv, [Names!Next]_Names!vars PROVE NamesInv'
  OBVIOUS
<1> USE DEF NamesInv, Names!NamesAreCurrent, Names!local, Names!remote
<1>1. CASE Names!SetLocalAddr \/ Names!Open
  BY <1>1 DEF Names!SetLocalAddr, Names!Open
<1>2. CASE Names!Bind
  BY <1>2 DEF Names!Bind
<1>3. CASE Names!Connect
  BY <1>3 DEF Names!Connect, Names!setCachedPeerAddress
<1>4. CASE Names!Fail \/ Names!Close
  BY <1>4 DEF Names!Fail, Names!Close, Names!Closed, Names!Between
<1>5. CASE Names!PeerAddress
  BY <1>5 DEF Names!PeerAddress
<1>6. CASE Names!PeerHost
  BY <1>6 DEF Names!PeerHost
<1>7. CASE UNCHANGED Names!vars
  BY <1>7 DEF Names!vars
<1>. QED
  BY <1>1, <1>2, <1>3, <1>4, <1>5, <1>6, <1>7 DEF Names!Next

-----------------------------------------------------------------------------
(* The sockets                                                             *)

SocketsInv ==
  /\ ReadInv
  /\ proto \in {"tcp", "udp", "options", "names"}
  /\ proto = "tcp" => TcpInv
  /\ proto = "udp" => UdpInv
  /\ proto = "options" => OptionsInv
  /\ proto = "names" => NamesInv

(* A call that is not under way has used up nothing. *)
LEMMA IdleIsRead ==
  ASSUME timeout \in Timeouts, at = "returned", retries = 0, elapsed = 0, total = 0
  PROVE  ReadInv
<1>1. timeout \in Nat /\ MaxRetries \in Nat
  BY ReadAssumption
<1>2. (MaxRetries + 1) * timeout \in Nat
  BY <1>1, SMT
<1>. QED
  BY <1>1, <1>2 DEF ReadInv, TypeOK, Spent, Bounded

(* ... and neither has one that begins. *)
LEMMA CallKeeps ==
  ASSUME ReadInv, timeout' = timeout, at' \in {"returned", "waiting"}, retries' = 0, elapsed' = 0, total' = 0
  PROVE  ReadInv'
<1>1. timeout \in Nat /\ MaxRetries \in Nat /\ timeout \in Timeouts
  BY ReadAssumption DEF ReadInv
<1>2. (MaxRetries + 1) * timeout \in Nat /\ 0 * timeout = 0
  BY <1>1, SMT
<1>. QED
  BY <1>1, <1>2 DEF ReadInv, TypeOK, Spent, Bounded

LEMMA SocketsInitially == SocketsInit => SocketsInv
<1> SUFFICES ASSUME SocketsInit PROVE SocketsInv
  OBVIOUS
<1>1. ReadInv
  BY IdleIsRead DEF SocketsInit, Idle
<1>. QED
  BY <1>1, TcpInitially, UdpInitially, OptionsInitially, NamesInitially DEF SocketsInit, SocketsInv

LEMMA SocketsStep == SocketsInv /\ [SocketsNext]_allVars => SocketsInv'
<1> SUFFICES ASSUME SocketsInv, [SocketsNext]_allVars PROVE SocketsInv'
  OBVIOUS
<1>1. ReadInv'
  <2>1. CASE Use \/ CallRead
    BY <2>1, CallKeeps DEF Use, CallRead, SocketsInv
  <2>2. CASE GoOn \/ Return \/ UNCHANGED <<timeout, readVars>>
    <3>1. [Next]_vars
      BY <2>2 DEF GoOn, Next, vars, readVars
    <3>. QED
      BY <3>1, ReadStep DEF SocketsInv
  <2>. QED
    BY <2>1, <2>2 DEF SocketsNext, UseTcp, UseUdp, ReadReturns, SetOptions, AskNames, allVars
<1>2. proto' = proto
  BY DEF SocketsNext, allVars
<1>3. CASE proto = "tcp"
  <2>1. [Tcp!Next]_Tcp!vars
    BY <1>3 DEF SocketsNext, UseTcp, UseUdp, CallRead, GoOn, ReadReturns, SetOptions, AskNames, allVars,
                socketVars, tcpVars, Tcp!vars
  <2>. QED
    BY <1>1, <1>2, <1>3, <2>1, TcpStep DEF SocketsInv
<1>4. CASE proto = "udp"
  <2>1. [Udp!Next]_Udp!vars
    BY <1>4 DEF SocketsNext, UseTcp, UseUdp, CallRead, GoOn, ReadReturns, SetOptions, AskNames, allVars,
                socketVars, udpVars, Udp!vars, Udp!Next
  <2>. QED
    BY <1>1, <1>2, <1>4, <2>1, UdpStep DEF SocketsInv
<1>5. CASE proto = "options"
  <2>1. [Opt!Next]_Opt!vars
    BY <1>5 DEF SocketsNext, UseTcp, UseUdp, CallRead, GoOn, ReadReturns, SetOptions, AskNames, allVars,
                optionVars, Opt!vars
  <2>. QED
    BY <1>1, <1>2, <1>5, <2>1, OptionsStep DEF SocketsInv
<1>6. CASE proto = "names"
  <2>1. [Names!Next]_Names!vars
    BY <1>6 DEF SocketsNext, UseTcp, UseUdp, CallRead, GoOn, ReadReturns, SetOptions, AskNames, allVars,
                nameVars, Names!vars, Names!local, Names!remote
  <2>. QED
    BY <1>1, <1>2, <1>6, <2>1, NamesStep DEF SocketsInv
<1>. QED
  BY <1>3, <1>4, <1>5, <1>6 DEF SocketsInv

(* The invariant holds in every reachable state. *)
THEOREM Invariance == SocketsSpec => []SocketsInv
BY SocketsInitially, SocketsStep, PTL DEF SocketsSpec

(* A read() of any timeout lasts at most that timeout for each of its retries
   and one more, whatever signals and shortages come. *)
THEOREM ReadIsBounded == SocketsSpec => []TotalIsBounded
<1>1. SocketsInv => TotalIsBounded
  BY DEF SocketsInv, ReadInv, Bounded, TotalIsBounded
<1>. QED
  BY <1>1, Invariance, PTL

(* Whichever address fails at whichever step of open(), no descriptor is left
   behind and no former peer remembered, for TCP and UDP. *)
THEOREM OpenLeavesNothing == SocketsSpec => []NothingLeaks
<1>1. SocketsInv => NothingLeaks
  <2>1. TcpInv => Tcp!TypeOK /\ Tcp!NothingLeaks
    BY DEF TcpInv, TcpTypes
  <2>2. UdpInv => Udp!TypeOK /\ Udp!NothingLeaks /\ Udp!ClosedForgets
    BY DEF UdpInv, UdpTypes, UdpOpening, Udp!ClosedForgets
  <2>. QED
    BY <2>1, <2>2 DEF SocketsInv, NothingLeaks
<1>. QED
  BY <1>1, Invariance, PTL

(* A socket that open() returns with can be used: connected, bound and
   blocking as it is to be, with the names of its present ends; and open()
   throws only when every address has been tried. *)
THEOREM OpenGivesSocket == SocketsSpec => []OpenIsUsable
<1>1. SocketsInv => OpenIsUsable
  <2>1. TcpInv => Tcp!ReturnMeansConnected /\ Tcp!ThrowMeansAllTried
    BY DEF TcpInv
  <2>2. UdpInv => Udp!OpenMeansUsable
    BY DEF UdpInv
  <2>3. NamesInv => Names!NamesAreCurrent
    BY DEF NamesInv
  <2>. QED
    BY <2>1, <2>2, <2>3 DEF SocketsInv, OpenIsUsable
<1>. QED
  BY <1>1, Invariance, PTL

(* Whatever is set before, between and after the opens of a socket, and
   whichever of its addresses or options fails: setRecvTimeout() and its kind
   leave the system with what the getters tell. *)
THEOREM OptionsAreTold == SocketsSpec => []OptionsHold
<1>1. SocketsInv => OptionsHold
  <2>1. OptionsInv => Opt!TypeOK
    BY DEF OptionsInv
  <2>. QED
    BY <2>1, OptionsInvHolds DEF SocketsInv, OptionsHold
<1>. QED
  BY <1>1, Invariance, PTL

(* Datagrams go to, and come from, the remote alone with a filter, and answers
   go to whoever was read last without one. *)
THEOREM AnswersReachAskers == SocketsSpec => AnswerReachesAsker
<1>1. SocketsInv' => (proto = "udp" => Udp!FilterHolds)'
  BY DEF SocketsInv, UdpInv
<1>2. SocketsInv /\ proto = "udp" => Udp!AnswerGoesBack
  <2>1. SUFFICES ASSUME UdpInv, Udp!Write, ~filter, got # Udp!None
                 PROVE  sentTo'.peer = got
    BY DEF SocketsInv, Udp!AnswerGoesBack
  <2>. QED
    BY <2>1 DEF UdpInv, Talks, Udp!Write
<1>3. /\ SocketsInv /\ SocketsInv' /\ [SocketsNext]_allVars
      => [proto = "udp" => Udp!FilterHolds' /\ Udp!AnswerGoesBack]_allVars
  <2>1. [SocketsNext]_allVars => proto' = proto
    BY DEF SocketsNext, allVars
  <2>. QED
    BY <1>1, <1>2, <2>1
<1>. QED
  BY <1>3, Invariance, PTL DEF SocketsSpec, AnswerReachesAsker
=============================================================================
