----------------------------- MODULE SocketRead ------------------------------
(***************************************************************************)
(* One call of TcpSocket::read() or UdpSocket::read() (src/net): recv() is *)
(* tried again when a signal interrupts it or the system is out of         *)
(* resources, _maxRetries times, and a receive timeout bounds each attempt.*)
(* Time is counted in ticks; without a timeout its length does not matter. *)
(***************************************************************************)
EXTENDS Integers

CONSTANTS
  Timeouts,     \* values of _recvTimeout, 0 for none
  MaxRetries    \* _maxRetries, _retryLimit

ASSUME ReadAssumption == Timeouts \cup {MaxRetries} \subseteq Nat

VARIABLES
  timeout,  \* _recvTimeout
  at,       \* "waiting", "returned", or what read() threw
  retries,
  elapsed,  \* ticks since the attempt began (et)
  total     \* ticks since read() was called

vars == <<timeout, at, retries, elapsed, total>>

Init == timeout \in Timeouts /\ at = "waiting" /\ retries = 0 /\ elapsed = 0 /\ total = 0

(* eagainThresholdMicros: an HD_EAGAIN before it means that resources ran out. *)
Threshold == IF timeout = 0 THEN 0 ELSE timeout \div (IF MaxRetries > 0 THEN MaxRetries ELSE 2)

Tick ==
  /\ at = "waiting" /\ elapsed < timeout
  /\ elapsed' = elapsed + 1 /\ total' = total + 1
  /\ UNCHANGED <<timeout, at, retries>>

Return ==
  /\ at = "waiting" /\ at' = "returned"
  /\ UNCHANGED <<timeout, retries, elapsed, total>>

(* Mutant of RetryOr: one retry too many. *)
RetryOnceMore(e) ==
  /\ retries' = retries + 1
  /\ IF retries <= MaxRetries THEN elapsed' = 0 /\ UNCHANGED at ELSE at' = e /\ UNCHANGED elapsed
  /\ UNCHANGED <<timeout, total>>

(* `goto again', while there are retries left; else read() throws e. *)
RetryOr(e) ==
  /\ retries' = retries + 1
  /\ IF retries + 1 <= MaxRetries THEN elapsed' = 0 /\ UNCHANGED at ELSE at' = e /\ UNCHANGED elapsed
  /\ UNCHANGED <<timeout, total>>

(* HD_EAGAIN for want of resources, at any time. *)
Exhausted ==
  /\ at = "waiting" /\ (timeout # 0 => elapsed < timeout)
  /\ IF timeout # 0 /\ elapsed < Threshold THEN RetryOr("resources")
     ELSE at' = (IF timeout = 0 THEN "resources" ELSE "timeout") /\ UNCHANGED <<timeout, retries, elapsed, total>>

(* The timeout is over: poll() finds nothing, or recv() says HD_EAGAIN. *)
TimesOut ==
  /\ at = "waiting" /\ timeout # 0 /\ elapsed = timeout
  /\ at' = "timeout" /\ UNCHANGED <<timeout, retries, elapsed, total>>

(* HD_EINTR *)
Interrupted == at = "waiting" /\ RetryOr("failed")

(* Any other error, or the connection has been closed. *)
Fails ==
  /\ at = "waiting" /\ at' = "failed"
  /\ UNCHANGED <<timeout, retries, elapsed, total>>

Next == Tick \/ Return \/ Exhausted \/ TimesOut \/ Interrupted \/ Fails

Spec == Init /\ [][Next]_vars

-----------------------------------------------------------------------------
(* Properties                                                              *)

TypeOK ==
  /\ at \in {"waiting", "returned", "timeout", "resources", "failed"}
  /\ retries \in 0..(MaxRetries + 1) /\ elapsed \in 0..timeout /\ total \in Nat

(* However signals and shortages come, read() lasts at most one timeout for
   each retry and one more. *)
TotalIsBounded == timeout # 0 => total <= (MaxRetries + 1) * timeout

(* read() throws "timeout" only if it waited for at least a retry's share of
   the timeout in its last attempt. *)
NoEarlyTimeout == at = "timeout" => elapsed >= Threshold
=============================================================================
