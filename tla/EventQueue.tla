----------------------------- MODULE EventQueue -----------------------------
(***************************************************************************)
(* EventQueue and Semaphore (src/thread/event_queue.cpp, semaphore.cpp):   *)
(* a deque guarded by m_queueLcok and counted by a semaphore that is built *)
(* from a mutex, a counter and a condition variable.                       *)
(*                                                                         *)
(* Producers call post(); consumers call pop(), or peek() followed by      *)
(* pop() as Thread::processEvent does.  A step is one critical section (of *)
(* the semaphore's mutex or of m_queueLcok) or one unlocked read.          *)
(***************************************************************************)
EXTENDS Naturals, Sequences, FiniteSets

CONSTANTS
  Producers,  \* threads that call post()
  Consumers,  \* threads that call pop()
  Peekers,    \* the consumers that may go through Thread::processEvent
  MaxSize,    \* m_maxSize, the deque's max_size()
  MaxPosts,   \* bound: calls of post() per producer
  NoThread,   \* nobody holds m_queueLcok
  NoEvent     \* the NULL Event_Ptr

Threads == Producers \cup Consumers

(* The n-th event a producer posts. *)
Events == [src : Producers, n : 1..MaxPosts]

ASSUME QueueAssumption ==
  /\ IsFiniteSet(Producers)
  /\ IsFiniteSet(Consumers)
  /\ Producers \cap Consumers = {}
  /\ Peekers \subseteq Consumers
  /\ MaxSize \in Nat \ {0}
  /\ MaxPosts \in Nat
  /\ NoThread \notin Threads
  /\ NoEvent \notin Events

VARIABLES
  m_qEvents,  \* the deque
  count,      \* m_sem._count
  lock,       \* the holder of m_queueLcok
  pc,         \* where each thread is
  peeked,     \* what processEvent's peek() returned to each consumer
  posted,     \* calls of post() each producer has made
  dropped,    \* history: the events post() refused
  handled     \* history: the events each consumer passed to onEvent

vars == <<m_qEvents, count, lock, pc, peeked, posted, dropped, handled>>

ProducerPoints == {"idle", "tested", "pushed"}
ConsumerPoints == {"idle", "waiting", "asleep", "granted"}

At(where) == {t \in Threads : pc[t] = where}

Init ==
  /\ m_qEvents = <<>>
  /\ count = 0
  /\ lock = NoThread
  /\ pc = [t \in Threads |-> "idle"]
  /\ peeked = [c \in Consumers |-> NoEvent]
  /\ posted = [p \in Producers |-> 0]
  /\ dropped = {}
  /\ handled = [c \in Consumers |-> <<>>]

-----------------------------------------------------------------------------
(* post()                                                                  *)

Latest(p) == [src |-> p, n |-> posted[p]]

(* The size is read, and a full queue refuses the event, before m_queueLcok
   is taken. *)
PostTest(p) ==
  /\ pc[p] = "idle"
  /\ posted[p] < MaxPosts
  /\ posted' = [posted EXCEPT ![p] = @ + 1]
  /\ \/ /\ Len(m_qEvents) < MaxSize
        /\ pc' = [pc EXCEPT ![p] = "tested"]
        /\ UNCHANGED dropped
     \/ /\ Len(m_qEvents) >= MaxSize
        /\ dropped' = dropped \cup {[src |-> p, n |-> posted[p] + 1]}
        /\ UNCHANGED pc
  /\ UNCHANGED <<m_qEvents, count, lock, peeked, handled>>

(* Mutant of PostPush: the event jumps the queue. *)
PostPushFront(p) ==
  /\ pc[p] = "tested"
  /\ lock = NoThread
  /\ lock' = p
  /\ m_qEvents' = <<Latest(p)>> \o m_qEvents
  /\ pc' = [pc EXCEPT ![p] = "pushed"]
  /\ UNCHANGED <<count, peeked, posted, dropped, handled>>

PostPush(p) ==
  /\ pc[p] = "tested"
  /\ lock = NoThread
  /\ lock' = p
  /\ m_qEvents' = Append(m_qEvents, Latest(p))
  /\ pc' = [pc EXCEPT ![p] = "pushed"]
  /\ UNCHANGED <<count, peeked, posted, dropped, handled>>

(* Mutant of PostNotify: the counter moves but nobody is woken. *)
PostNotifyWakesNobody(p) ==
  /\ pc[p] = "pushed"
  /\ count' = count + 1
  /\ pc' = [pc EXCEPT ![p] = "idle"]
  /\ lock' = NoThread
  /\ UNCHANGED <<m_qEvents, peeked, posted, dropped, handled>>

(* Semaphore::notify, still under m_queueLcok: count, then notify_one, which
   wakes some sleeper if there is one.  Releasing m_queueLcok afterwards only
   delays the others, so it is part of this step. *)
PostNotify(p) ==
  /\ pc[p] = "pushed"
  /\ count' = count + 1
  /\ \/ /\ At("asleep") = {}
        /\ pc' = [pc EXCEPT ![p] = "idle"]
     \/ \E c \in At("asleep") :
          pc' = [pc EXCEPT ![c] = "waiting", ![p] = "idle"]
  /\ lock' = NoThread
  /\ UNCHANGED <<m_qEvents, peeked, posted, dropped, handled>>

-----------------------------------------------------------------------------
(* pop() and Thread::processEvent                                          *)

(* A consumer calls pop() directly, as DeviceBase::run does. *)
PopCall(c) ==
  /\ pc[c] = "idle"
  /\ pc' = [pc EXCEPT ![c] = "waiting"]
  /\ UNCHANGED <<m_qEvents, count, lock, peeked, posted, dropped, handled>>

(* processEvent: peek() under m_queueLcok; with an event at hand, or when it
   may block, it goes on to pop(); otherwise it returns. *)
ProcessPeek(c) ==
  /\ c \in Peekers
  /\ pc[c] = "idle"
  /\ lock = NoThread
  /\ \/ /\ m_qEvents # <<>>
        /\ peeked' = [peeked EXCEPT ![c] = Head(m_qEvents)]
        /\ pc' = [pc EXCEPT ![c] = "waiting"]
     \/ /\ m_qEvents = <<>>
        /\ pc' = [pc EXCEPT ![c] = "waiting"]   \* processEvent(true)
        /\ UNCHANGED peeked
     \/ /\ m_qEvents = <<>>                     \* processEvent(false)
        /\ UNCHANGED <<peeked, pc>>
  /\ UNCHANGED <<m_qEvents, count, lock, posted, dropped, handled>>

(* Semaphore::wait: with the counter at zero the thread releases the mutex
   and sleeps in one step; otherwise it takes one unit. *)
SemSleep(c) ==
  /\ pc[c] = "waiting"
  /\ count = 0
  /\ pc' = [pc EXCEPT ![c] = "asleep"]
  /\ UNCHANGED <<m_qEvents, count, lock, peeked, posted, dropped, handled>>

(* Mutant of SemTake: the unit is not taken. *)
SemTakeNothing(c) ==
  /\ pc[c] = "waiting"
  /\ count # 0
  /\ pc' = [pc EXCEPT ![c] = "granted"]
  /\ UNCHANGED <<m_qEvents, count, lock, peeked, posted, dropped, handled>>

SemTake(c) ==
  /\ pc[c] = "waiting"
  /\ count # 0
  /\ count' = count - 1
  /\ pc' = [pc EXCEPT ![c] = "granted"]
  /\ UNCHANGED <<m_qEvents, lock, peeked, posted, dropped, handled>>

(* _condition.wait may return without a notify; the predicate is tested
   again. *)
SpuriousWake(c) ==
  /\ pc[c] = "asleep"
  /\ pc' = [pc EXCEPT ![c] = "waiting"]
  /\ UNCHANGED <<m_qEvents, count, lock, peeked, posted, dropped, handled>>

(* The locked half of pop(): front() and pop_front(), with no test for an
   empty deque (Head(<<>>) is as undefined as front() there).  processEvent
   handles the event it peeked at when it had one. *)
PopFront(c) ==
  /\ pc[c] = "granted"
  /\ lock = NoThread
  /\ m_qEvents' = Tail(m_qEvents)
  /\ handled' = [handled EXCEPT ![c] =
       Append(@, IF peeked[c] = NoEvent THEN Head(m_qEvents) ELSE peeked[c])]
  /\ peeked' = [peeked EXCEPT ![c] = NoEvent]
  /\ pc' = [pc EXCEPT ![c] = "idle"]
  /\ UNCHANGED <<count, lock, posted, dropped>>

-----------------------------------------------------------------------------
Post(p) == PostTest(p) \/ PostPush(p) \/ PostNotify(p)

Pop(c) == PopCall(c) \/ ProcessPeek(c) \/ SemSleep(c) \/ SemTake(c) \/ PopFront(c)

Next ==
  \/ \E p \in Producers : Post(p)
  \/ \E c \in Consumers : Pop(c) \/ SpuriousWake(c)

Safety == Init /\ [][Next]_vars

(* A thread that can run is eventually scheduled.  Weak fairness is enough
   although m_queueLcok is contended: the posts are bounded, so in the end the
   lock stays free.  SpuriousWake and the start of a post() owe nothing. *)
Fairness ==
  /\ \A p \in Producers : WF_vars(PostPush(p)) /\ WF_vars(PostNotify(p))
  /\ \A c \in Consumers : WF_vars(Pop(c))

Spec == Safety /\ Fairness

-----------------------------------------------------------------------------
(* Properties                                                              *)

(* Every variable stays in its type (the semaphore's counter never goes below
   zero), and a thread is only at a point of the operation it performs. *)
TypeOK ==
  /\ m_qEvents \in Seq(Events)
  /\ count \in Nat
  /\ lock \in Producers \cup {NoThread}
  /\ pc \in [Threads -> ProducerPoints \cup ConsumerPoints]
  /\ \A p \in Producers : pc[p] \in ProducerPoints
  /\ \A c \in Consumers : pc[c] \in ConsumerPoints
  /\ peeked \in [Consumers -> Events \cup {NoEvent}]
  /\ posted \in [Producers -> 0..MaxPosts]
  /\ dropped \subseteq Events
  /\ handled \in [Consumers -> Seq(Events)]

(* m_queueLcok is held by exactly one producer, the one between push_back and
   the end of notify: no second push_back overlaps it. *)
LockHolder == At("pushed") = IF lock = NoThread THEN {} ELSE {lock}

(* The semaphore, which pop() trusts instead of testing the deque, agrees
   with it: every event is either announced in _count, granted to a consumer
   that has not popped yet, or pushed but not announced. *)
SemaphoreMatchesQueue ==
  Len(m_qEvents) =
    count + Cardinality(At("granted")) + Cardinality(At("pushed"))

(* pop() never calls front() or pop_front() on an empty deque, which it does
   not test for. *)
FrontDefined == At("granted") # {} => m_qEvents # <<>>

(* notify_one is enough: while somebody sleeps, there is a woken consumer for
   every unit of the semaphore, so no unit is left with all consumers asleep. *)
NoLostWakeup == At("asleep") # {} => count <= Cardinality(At("waiting"))

(* The unlocked size test of post() lets the producers overshoot m_maxSize,
   but by less than one event each. *)
BoundedOvershoot ==
  Len(m_qEvents) + Cardinality(At("tested"))
    <= MaxSize - 1 + Cardinality(Producers)

InPost == {Latest(p) : p \in At("tested")}
InQueue == {m_qEvents[i] : i \in 1..Len(m_qEvents)}
HandledBy(c) == {handled[c][i] : i \in 1..Len(handled[c])}

(* Every event that post() accepted is eventually handled by the device's
   thread. *)
EventuallyHandled ==
  \A e \in Events :
    (e \in InPost \cup InQueue)
      ~> (e \in UNION {HandledBy(c) : c \in Consumers})

(* The queue implements the first-in first-out channel, with the locked
   push_back and pop_front as its Send and Receive: what a consumer handles is
   what left the deque, though processEvent handles what it peeked at and drops
   what it pops. *)
Channel == INSTANCE EventChannel WITH chan <- m_qEvents, got <- handled, Receivers <- Consumers
ImplementsChannel == Channel!Spec
=============================================================================
