------------------------ MODULE ThreadLifecycleProofs ------------------------
(***************************************************************************)
(* Proofs about ThreadLifecycle, for any number of posted events: what the *)
(* unlocked m_state and m_thread say about the new thread is right, it     *)
(* leaves its loop only when told, and it runs only once.                  *)
(***************************************************************************)
EXTENDS ThreadLifecycle, TLAPS

(* Stop() has a thread to stop all the way through. *)
StopHasThread == owner # "idle" => m_thread

(* quit() went past its test: the new thread had been in its loop. *)
QuitAfterEntry == owner \in {"posting", "marking"} => m_state # "uninit"

(* Where a call of quit() has left its traces. *)
QuitTraces ==
  /\ owner = "marking" => quitPosted
  /\ m_state = "quit" => quitPosted
  /\ \A i \in 1..Len(m_eq) : m_eq[i] = "quit" => quitPosted

(* The inductive invariant. *)
IInv ==
  /\ TypeOK
  /\ StateTellsWorker
  /\ NoHandleNoThread
  /\ LeavesOnlyWhenTold
  /\ StopHasThread
  /\ QuitAfterEntry
  /\ QuitTraces

USE DEF EventKinds, ThreadStates, InLoop, WorkerPoints, OwnerPoints

-----------------------------------------------------------------------------
LEMMA InitInvariant == Init => IInv
<1>1. Init => TypeOK
  <2>1. <<>> \in Seq(EventKinds)
    OBVIOUS
  <2>2. 0 \in 0..MaxPosts
    BY LifecycleAssumption
  <2>. QED
    BY <2>1, <2>2 DEF Init, TypeOK
<1>2. Init => StateTellsWorker /\ NoHandleNoThread /\ LeavesOnlyWhenTold
  BY DEF Init, StateTellsWorker, NoHandleNoThread, LeavesOnlyWhenTold
<1>3. Init => StopHasThread /\ QuitAfterEntry /\ QuitTraces
  BY DEF Init, StopHasThread, QuitAfterEntry, QuitTraces
<1>. QED
  BY <1>1, <1>2, <1>3 DEF IInv

(* The steps of the owner that leave the queue alone. *)
LEMMA OwnerInvariant ==
  ASSUME IInv, Start \/ Stop \/ QuitTest \/ QuitMark \/ Join
  PROVE  IInv'
<1>1. m_eq' = m_eq
  BY DEF Start, Stop, QuitTest, QuitMark, Join
<1>2. TypeOK'
  BY <1>1 DEF IInv, TypeOK, Start, Stop, QuitTest, QuitMark, Join
<1>3. StateTellsWorker' /\ NoHandleNoThread' /\ LeavesOnlyWhenTold'
  BY DEF IInv, TypeOK, StateTellsWorker, NoHandleNoThread, LeavesOnlyWhenTold,
         StopHasThread, QuitAfterEntry,
         Start, Stop, QuitTest, QuitMark, Join
<1>4. StopHasThread' /\ QuitAfterEntry'
  BY DEF IInv, TypeOK, StateTellsWorker, NoHandleNoThread, StopHasThread,
         QuitAfterEntry, Start, Stop, QuitTest, QuitMark, Join
<1>5. QuitTraces'
  BY <1>1 DEF IInv, TypeOK, QuitTraces, Start, Stop, QuitTest, QuitMark, Join
<1>. QED
  BY <1>2, <1>3, <1>4, <1>5 DEF IInv

(* Appending an event, a Quit event only when it is recorded. *)
LEMMA AppendInvariant ==
  ASSUME IInv, QuitPost \/ PostEvent
  PROVE  IInv'
<1>1. \E e \in EventKinds : m_eq' = Append(m_eq, e) /\ (e = "quit" => quitPosted')
  BY DEF QuitPost, PostEvent
<1>2. TypeOK'
  <2>1. m_eq' \in Seq(EventKinds)
    BY <1>1 DEF IInv, TypeOK
  <2>2. posts' \in 0..MaxPosts
    BY LifecycleAssumption DEF IInv, TypeOK, QuitPost, PostEvent
  <2>. QED
    BY <2>1, <2>2 DEF IInv, TypeOK, QuitPost, PostEvent
<1>3. StateTellsWorker' /\ NoHandleNoThread' /\ LeavesOnlyWhenTold'
  BY DEF IInv, StateTellsWorker, NoHandleNoThread, LeavesOnlyWhenTold,
         QuitPost, PostEvent
<1>4. StopHasThread' /\ QuitAfterEntry'
  BY DEF IInv, StopHasThread, QuitAfterEntry, QuitPost, PostEvent
<1>5. QuitTraces'
  <2>1. quitPosted => quitPosted'
    BY DEF QuitPost, PostEvent
  <2>2. \A i \in 1..Len(m_eq') : m_eq'[i] = "quit" => quitPosted'
    BY <1>1, <2>1 DEF IInv, TypeOK, QuitTraces
  <2>. QED
    BY <2>1, <2>2 DEF IInv, QuitTraces, QuitPost, PostEvent
<1>. QED
  BY <1>2, <1>3, <1>4, <1>5 DEF IInv

(* The steps of the new thread. *)
LEMMA WorkerInvariant ==
  ASSUME IInv, WorkerStep
  PROVE  IInv'
<1>1. CASE LoopPop
  <2>1. /\ m_eq # <<>> /\ m_eq' = Tail(m_eq) /\ m_eq \in Seq(EventKinds)
        /\ UNCHANGED <<m_state, m_thread, owner, posts, quitPosted>>
    BY <1>1 DEF LoopPop, IInv, TypeOK
  <2>2. Head(m_eq) = "quit" => quitPosted
    BY <2>1 DEF IInv, QuitTraces
  <2>3. TypeOK' /\ StateTellsWorker' /\ NoHandleNoThread' /\ LeavesOnlyWhenTold'
    BY <1>1, <2>1, <2>2 DEF IInv, TypeOK, StateTellsWorker, NoHandleNoThread,
                            LeavesOnlyWhenTold, LoopPop
  <2>4. StopHasThread' /\ QuitAfterEntry' /\ QuitTraces'
    BY <2>1 DEF IInv, StopHasThread, QuitAfterEntry, QuitTraces
  <2>. QED
    BY <2>3, <2>4 DEF IInv
<1>2. CASE Enter \/ LoopTest \/ LoopHandle \/ Leave
  <2>1. UNCHANGED <<m_thread, m_eq, owner, posts, quitPosted>>
    BY <1>2 DEF Enter, LoopTest, LoopHandle, Leave
  <2>2. TypeOK' /\ StateTellsWorker' /\ NoHandleNoThread' /\ LeavesOnlyWhenTold'
    BY <1>2, <2>1 DEF IInv, TypeOK, StateTellsWorker, NoHandleNoThread,
                      LeavesOnlyWhenTold, QuitTraces,
                      Enter, LoopTest, LoopHandle, Leave
  <2>3. StopHasThread' /\ QuitAfterEntry' /\ QuitTraces'
    BY <1>2, <2>1 DEF IInv, StopHasThread, QuitAfterEntry, QuitTraces,
                      Enter, LoopTest, LoopHandle, Leave
  <2>. QED
    BY <2>2, <2>3 DEF IInv
<1>. QED
  BY <1>1, <1>2 DEF WorkerStep

LEMMA StepInvariant == IInv /\ [Next]_vars => IInv'
<1>1. CASE UNCHANGED vars
  BY <1>1 DEF vars, IInv, TypeOK, StateTellsWorker, NoHandleNoThread,
              LeavesOnlyWhenTold, StopHasThread, QuitAfterEntry, QuitTraces
<1>2. CASE Next
  BY <1>2, OwnerInvariant, AppendInvariant, WorkerInvariant DEF Next, OwnerStep
<1>. QED
  BY <1>1, <1>2

-----------------------------------------------------------------------------
(* The theorems                                                            *)

(* The inductive invariant: what the traces of start() and quit() in the
   unlocked fields say about both threads. *)
THEOREM Invariance == Safety => []IInv
BY InitInvariant, StepInvariant, PTL DEF Safety

(* The types are invariant. *)
THEOREM TypeCorrect == Safety => []TypeOK
<1>1. IInv => TypeOK
  BY DEF IInv
<1>. QED
  BY <1>1, Invariance, PTL

(* m_state, written by two threads without a lock, never misleads the tests of
   start() and Stop(). *)
THEOREM StateIsRight == Safety => []StateTellsWorker
<1>1. IInv => StateTellsWorker
  BY DEF IInv
<1>. QED
  BY <1>1, Invariance, PTL

(* Once join() dropped the handle nothing runs in the object any more. *)
THEOREM HandleIsRight == Safety => []NoHandleNoThread
<1>1. IInv => NoHandleNoThread
  BY DEF IInv
<1>. QED
  BY <1>1, Invariance, PTL

(* Only quit() ends the event loop of a device. *)
THEOREM OnlyQuitLeaves == Safety => []LeavesOnlyWhenTold
<1>1. IInv => LeavesOnlyWhenTold
  BY DEF IInv
<1>. QED
  BY <1>1, Invariance, PTL

(* A Thread object never starts a second thread. *)
THEOREM RunsOnce == Safety => NeverRestarted
<1>1. IInv /\ [Next]_vars
        => [worker # "none" => worker' # "entering" \/ UNCHANGED worker]_vars
  BY DEF IInv, StateTellsWorker, NoHandleNoThread, Next, OwnerStep, WorkerStep,
         Start, Stop, QuitTest, QuitPost, QuitMark, Join, PostEvent,
         Enter, LoopTest, LoopPop, LoopHandle, Leave, vars
<1>. QED
  BY <1>1, Invariance, PTL DEF Safety, NeverRestarted
=============================================================================
