----------------------------- MODULE OptionKinds ------------------------------
(***************************************************************************)
(* The options of a socket and what each can be set to (src/net).          *)
(***************************************************************************)
EXTENDS Integers

CONSTANTS
  TimeoutOptions,   \* SO_SNDTIMEO, SO_RCVTIMEO
  BufferOptions,    \* SO_SNDBUF, SO_RCVBUF
  MaxValue          \* bound: the largest timeout or size that is asked for

\* SO_LINGER and TCP_NODELAY, which every TCP socket is given; SO_KEEPALIVE,
\* SO_BROADCAST and SO_BINDTODEVICE, which are given to a socket that is to have them.
Switches == {"linger", "noDelay", "keepAlive", "broadcast", "device"}
Sizes == TimeoutOptions \cup BufferOptions

ASSUME OptionsAssumption ==
  /\ MaxValue \in Nat \ {0}
  /\ TimeoutOptions \cap BufferOptions = {} /\ Sizes \cap Switches = {}

\* What an option can be set to: 0 is no timeout, and not the size of a buffer.
Legal(o) == IF o \in TimeoutOptions THEN 0..MaxValue ELSE IF o \in BufferOptions THEN 1..MaxValue ELSE {0, 1}

\* A new socket: no timeout, nothing switched on, buffers of the system's size.
Default(o) == IF o \in BufferOptions THEN MaxValue + 1 ELSE 0
=============================================================================
