-------------------------- MODULE ThreadLifecycle --------------------------
(***************************************************************************)
(* The life of one Thread object (src/thread/thread.cpp) as a device uses  *)
(* it: start() and the pair quit(), join() called by the thread that owns  *)
(* the object (DeviceBase::Start, DeviceBase::Stop), postEvent() called by *)
(* anybody, and the new thread in innerRun() and DeviceBase::run().        *)
(*                                                                         *)
(* m_state is a plain enum that both threads write without a lock: every   *)
(* read and every write of it is a step of its own.  m_eq is the channel   *)
(* that EventQueue implements (EventChannel).                              *)
(***************************************************************************)
EXTENDS Naturals, Sequences

CONSTANTS
  MaxPosts  \* bound: events posted by others than quit()

ASSUME LifecycleAssumption == MaxPosts \in Nat

VARIABLES
  m_state,     \* ThreadState: uninit, running, quit, stopped
  m_thread,    \* does m_thread hold a thread?
  m_eq,        \* the event queue: work and quit events
  worker,      \* where the new thread is
  owner,       \* where the owning thread is
  posts,       \* calls of postEvent() so far
  quitPosted   \* history: quit() posted its event

vars == <<m_state, m_thread, m_eq, worker, owner, posts, quitPosted>>

EventKinds == {"work", "quit"}
ThreadStates == {"uninit", "running", "quit", "stopped"}
InLoop == {"testing", "popping", "handling"}
WorkerPoints == {"none", "entering", "leaving", "done"} \cup InLoop
OwnerPoints == {"idle", "quitting", "posting", "marking", "joining"}

Init ==
  /\ m_state = "uninit"
  /\ m_thread = FALSE
  /\ m_eq = <<>>
  /\ worker = "none"
  /\ owner = "idle"
  /\ posts = 0
  /\ quitPosted = FALSE

-----------------------------------------------------------------------------
(* The owning thread                                                       *)

(* start(): only a thread that never ran gets started. *)
Start ==
  /\ owner = "idle"
  /\ ~m_thread
  /\ m_state = "uninit"
  /\ m_thread' = TRUE
  /\ worker' = "entering"
  /\ UNCHANGED <<m_state, m_eq, owner, posts, quitPosted>>

(* DeviceBase::Stop goes on to quit() and join() unless there is neither a
   running state nor a thread. *)
Stop ==
  /\ owner = "idle"
  /\ m_state = "running" \/ m_thread
  /\ owner' = "quitting"
  /\ UNCHANGED <<m_state, m_thread, m_eq, worker, posts, quitPosted>>

(* quit() does nothing unless the new thread has come as far as RUNNING. *)
QuitTest ==
  /\ owner = "quitting"
  /\ owner' = IF m_thread /\ m_state = "running" THEN "posting" ELSE "joining"
  /\ UNCHANGED <<m_state, m_thread, m_eq, worker, posts, quitPosted>>

(* Mutant of QuitPost: the Quit event is never posted. *)
QuitPostNothing ==
  /\ owner = "posting"
  /\ quitPosted' = TRUE
  /\ owner' = "marking"
  /\ UNCHANGED <<m_state, m_thread, m_eq, worker, posts>>

QuitPost ==
  /\ owner = "posting"
  /\ m_eq' = Append(m_eq, "quit")
  /\ quitPosted' = TRUE
  /\ owner' = "marking"
  /\ UNCHANGED <<m_state, m_thread, worker, posts>>

(* quit() sets TS_QUIT whatever the new thread has done meanwhile: it may
   overwrite TS_STOPPED. *)
QuitMark ==
  /\ owner = "marking"
  /\ m_state' = "quit"
  /\ owner' = "joining"
  /\ UNCHANGED <<m_thread, m_eq, worker, posts, quitPosted>>

(* join() waits for the thread and drops it. *)
Join ==
  /\ owner = "joining"
  /\ m_thread => worker = "done"
  /\ m_thread' = FALSE
  /\ owner' = "idle"
  /\ UNCHANGED <<m_state, m_eq, worker, posts, quitPosted>>

-----------------------------------------------------------------------------
(* postEvent() by any thread                                               *)

PostEvent ==
  /\ posts < MaxPosts
  /\ posts' = posts + 1
  /\ m_eq' = Append(m_eq, "work")
  /\ UNCHANGED <<m_state, m_thread, worker, owner, quitPosted>>

-----------------------------------------------------------------------------
(* The new thread: innerRun() and DeviceBase::run()                        *)

Enter ==
  /\ worker = "entering"
  /\ m_state' = "running"
  /\ worker' = "testing"
  /\ UNCHANGED <<m_thread, m_eq, owner, posts, quitPosted>>

LoopTest ==
  /\ worker = "testing"
  /\ worker' = IF m_state = "running" THEN "popping" ELSE "leaving"
  /\ UNCHANGED <<m_state, m_thread, m_eq, owner, posts, quitPosted>>

(* pop() blocks while the queue is empty; a Quit event ends the loop. *)
LoopPop ==
  /\ worker = "popping"
  /\ m_eq # <<>>
  /\ worker' = IF Head(m_eq) = "quit" THEN "leaving" ELSE "handling"
  /\ m_eq' = Tail(m_eq)
  /\ UNCHANGED <<m_state, m_thread, owner, posts, quitPosted>>

LoopHandle ==
  /\ worker = "handling"
  /\ worker' = "testing"
  /\ UNCHANGED <<m_state, m_thread, m_eq, owner, posts, quitPosted>>

(* Mutant of Leave: TS_STOPPED is forgotten. *)
LeaveSilently ==
  /\ worker = "leaving"
  /\ worker' = "done"
  /\ UNCHANGED <<m_state, m_thread, m_eq, owner, posts, quitPosted>>

Leave ==
  /\ worker = "leaving"
  /\ m_state' = "stopped"
  /\ worker' = "done"
  /\ UNCHANGED <<m_thread, m_eq, owner, posts, quitPosted>>

-----------------------------------------------------------------------------
OwnerStep == QuitTest \/ QuitPost \/ QuitMark \/ Join

WorkerStep == Enter \/ LoopTest \/ LoopPop \/ LoopHandle \/ Leave

Next == Start \/ Stop \/ PostEvent \/ OwnerStep \/ WorkerStep

Safety == Init /\ [][Next]_vars

(* Both threads are scheduled; nobody has to call start(), Stop() or
   postEvent(). *)
Spec == Safety /\ WF_vars(OwnerStep) /\ WF_vars(WorkerStep)

-----------------------------------------------------------------------------
(* Properties                                                              *)

(* Every variable stays in its type, and the queue holds no more than what was
   posted. *)
TypeOK ==
  /\ m_state \in ThreadStates
  /\ m_thread \in BOOLEAN
  /\ m_eq \in Seq(EventKinds)
  /\ worker \in WorkerPoints
  /\ owner \in OwnerPoints
  /\ posts \in 0..MaxPosts
  /\ quitPosted \in BOOLEAN

(* The unlocked m_state never misleads start() and Stop(), whose tests it is:
   it is UNINIT exactly until the new thread is in innerRun(), RUNNING only
   while that thread is in its loop, and a thread that ended left STOPPED, or
   QUIT when quit() overwrote it. *)
StateTellsWorker ==
  /\ m_state = "uninit" <=> worker \in {"none", "entering"}
  /\ m_state = "running" => worker \in InLoop \cup {"leaving"}
  /\ m_state = "stopped" => worker = "done"
  /\ worker = "done" => m_state \in {"stopped", "quit"}

(* The handle tells Stop() the truth: without it the new thread does not exist
   any more (or not yet), so nothing runs in an object that was stopped. *)
NoHandleNoThread == ~m_thread => worker \in {"none", "done"}

(* The new thread leaves its loop only after quit() was called: no work event
   makes a device deaf. *)
LeavesOnlyWhenTold == worker \in {"leaving", "done"} => quitPosted

(* A Thread object runs once: after join(), start() does nothing. *)
NeverRestarted == [][worker # "none" => worker' # "entering" \/ UNCHANGED worker]_vars

(* quit() that was not a no-op ends the thread, whatever else is queued, and
   the join() after it returns. *)
QuitStops == quitPosted ~> (worker = "done" /\ ~m_thread)

(* Stop() returns: what ECCS_Release promises ("stop all threads", EchoControl-
   SDK.h:64).  Fails: Stop() called between start() and the new thread's
   m_state = TS_RUNNING finds quit() a no-op and join() waits for a thread
   that waits for an event. *)
StopReturns == (owner # "idle") ~> (owner = "idle")
=============================================================================
