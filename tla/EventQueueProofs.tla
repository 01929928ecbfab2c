-------------------------- MODULE EventQueueProofs --------------------------
(***************************************************************************)
(* Proofs about EventQueue, for any finite sets of producers and           *)
(* consumers, any m_maxSize and any number of posts: the semaphore agrees  *)
(* with the deque, so front() is always defined, no wakeup is lost, the    *)
(* overshoot of m_maxSize is bounded, and the queue implements             *)
(* EventChannel's safety.                                                  *)
(***************************************************************************)
EXTENDS EventQueue, FiniteSetTheorems, TLAPS

(* The event a producer is about to push has been counted in posted. *)
PostCounted == \A p \in Producers : pc[p] # "idle" => posted[p] \in 1..MaxPosts

(* The inductive invariant. *)
IInv ==
  /\ TypeOK
  /\ PostCounted
  /\ LockHolder
  /\ SemaphoreMatchesQueue
  /\ NoLostWakeup
  /\ BoundedOvershoot

-----------------------------------------------------------------------------
(* How many threads are at a point                                         *)

(* The threads at w under an assignment f of points to threads, and how many
   they are: pc before a step, pc' after it. *)
Where(f, w) == {t \in Threads : f[t] = w}
Num(f, w) == Cardinality(Where(f, w))

LEMMA NumNat ==
  ASSUME NEW f, NEW w
  PROVE  IsFiniteSet(Where(f, w)) /\ Num(f, w) \in Nat
<1>1. IsFiniteSet(Threads)
  BY QueueAssumption, FS_Union DEF Threads
<1>2. IsFiniteSet(Where(f, w))
  BY <1>1, FS_Subset DEF Where
<1>. QED
  BY <1>2, FS_CardinalityType DEF Num

(* From f to g no thread but t moves. *)
OnlyMoves(f, g, t) == \A x \in Threads \ {t} : g[x] = f[x]

(* When one thread moves to v, one is fewer where it was, one is more at v,
   and every other point keeps its threads. *)
LEMMA OneMoves ==
  ASSUME NEW f, NEW g, NEW t \in Threads, f[t] # g[t], OnlyMoves(f, g, t)
  PROVE  \A w : Num(g, w) = IF w = g[t] THEN Num(f, w) + 1
                            ELSE IF w = f[t] THEN Num(f, w) - 1
                            ELSE Num(f, w)
<1>1. Where(g, f[t]) = Where(f, f[t]) \ {t} /\ t \in Where(f, f[t])
  BY DEF Where, OnlyMoves
<1>2. Where(g, g[t]) = Where(f, g[t]) \cup {t} /\ t \notin Where(f, g[t])
  BY DEF Where, OnlyMoves
<1>3. ASSUME NEW w, w # g[t], w # f[t]
      PROVE  Num(g, w) = Num(f, w)
  <2>1. Where(g, w) = Where(f, w)
    BY <1>3 DEF Where, OnlyMoves
  <2>. QED
    BY <2>1, Zenon DEF Num
<1>4. Num(g, f[t]) = Num(f, f[t]) - 1
  BY <1>1, NumNat, FS_RemoveElement DEF Num
<1>5. Num(g, g[t]) = Num(f, g[t]) + 1
  BY <1>2, NumNat, FS_AddElement DEF Num
<1>. QED
  BY <1>3, <1>4, <1>5

(* At, as the invariants use it, in terms of Where and Num. *)
LEMMA AtNum ==
  /\ Cardinality(At("tested")) = Num(pc, "tested")
  /\ Cardinality(At("pushed")) = Num(pc, "pushed")
  /\ Cardinality(At("waiting")) = Num(pc, "waiting")
  /\ Cardinality(At("granted")) = Num(pc, "granted")
BY DEF At, Where, Num

LEMMA AtNumNext ==
  /\ Cardinality(At("tested")') = Num(pc', "tested")
  /\ Cardinality(At("pushed")') = Num(pc', "pushed")
  /\ Cardinality(At("waiting")') = Num(pc', "waiting")
  /\ Cardinality(At("granted")') = Num(pc', "granted")
BY DEF At, Where, Num

(* The agreement of semaphore and deque is what makes front() defined. *)
LEMMA FrontIsDefined ==
  ASSUME TypeOK, SemaphoreMatchesQueue
  PROVE  FrontDefined
<1>1. SUFFICES ASSUME At("granted") # {}
               PROVE  m_qEvents # <<>>
  BY DEF FrontDefined
<1>2. Where(pc, "granted") # {} 
  BY <1>1 DEF At, Where
<1>3. Num(pc, "granted") > 0
  BY <1>2, NumNat, FS_EmptySet DEF Num
<1>4. Len(m_qEvents) > 0
  BY <1>3, AtNum, NumNat DEF SemaphoreMatchesQueue, TypeOK
<1>. QED
  BY <1>4 DEF TypeOK

USE DEF ProducerPoints, ConsumerPoints

-----------------------------------------------------------------------------
(* The inductive invariant, one lemma per action                           *)

LEMMA InitInvariant == Init => IInv
<1>. SUFFICES ASSUME Init PROVE IInv
  OBVIOUS
<1>1. TypeOK /\ PostCounted
  BY QueueAssumption DEF Init, TypeOK, PostCounted, Threads
<1>2. /\ Where(pc, "tested") = {} /\ Where(pc, "pushed") = {}
      /\ Where(pc, "granted") = {}
  BY DEF Init, Where
<1>3. Num(pc, "tested") = 0 /\ Num(pc, "pushed") = 0 /\ Num(pc, "granted") = 0
  BY <1>2, NumNat, FS_EmptySet DEF Num
<1>4. LockHolder
  BY <1>2 DEF Init, LockHolder, At, Where
<1>5. SemaphoreMatchesQueue
  BY <1>3, AtNum DEF Init, SemaphoreMatchesQueue
<1>6. NoLostWakeup
  BY DEF Init, NoLostWakeup, At
<1>7. Cardinality(Producers) \in Nat
  BY QueueAssumption, FS_CardinalityType
<1>8. BoundedOvershoot
  BY <1>3, <1>7, AtNum, QueueAssumption DEF Init, BoundedOvershoot
<1>. QED
  BY <1>1, <1>4, <1>5, <1>6, <1>8 DEF IInv

LEMMA PostTestInvariant ==
  ASSUME IInv, NEW p \in Producers, PostTest(p)
  PROVE  IInv'
<1>. USE DEF IInv
<1>1. /\ p \in Threads /\ pc[p] = "idle" /\ posted[p] + 1 \in 1..MaxPosts
      /\ posted' = [posted EXCEPT ![p] = posted[p] + 1]
      /\ [src |-> p, n |-> posted[p] + 1] \in Events
      /\ UNCHANGED <<m_qEvents, count, lock, peeked, handled>>
  BY QueueAssumption DEF PostTest, TypeOK, Threads, Events
<1>2. /\ pc' = pc \/ pc' = [pc EXCEPT ![p] = "tested"]
      /\ dropped' \subseteq Events
  BY <1>1 DEF PostTest, TypeOK
<1>3. TypeOK' /\ PostCounted'
  <2>1. /\ posted' \in [Producers -> 0..MaxPosts]
        /\ pc' \in [Threads -> ProducerPoints \cup ConsumerPoints]
    BY <1>1, <1>2, QueueAssumption DEF TypeOK
  <2>2. /\ \A q \in Producers : pc'[q] \in ProducerPoints
        /\ \A c \in Consumers : pc'[c] \in ConsumerPoints
    BY <1>1, <1>2, QueueAssumption DEF TypeOK, Threads
  <2>3. PostCounted'
    BY <1>1, <1>2 DEF PostCounted, TypeOK, Threads
  <2>. QED
    BY <1>1, <1>2, <2>1, <2>2, <2>3 DEF TypeOK
<1>4. LockHolder'
  BY <1>1, <1>2 DEF LockHolder, At, TypeOK
<1>5. CASE pc' = [pc EXCEPT ![p] = "tested"] /\ Len(m_qEvents) < MaxSize
  <2>1. /\ Num(pc', "tested") = Num(pc, "tested") + 1
        /\ Num(pc', "pushed") = Num(pc, "pushed")
        /\ Num(pc', "waiting") = Num(pc, "waiting")
        /\ Num(pc', "granted") = Num(pc, "granted")
    <3>1. pc \in [Threads -> ProducerPoints \cup ConsumerPoints]
      BY DEF TypeOK
    <3>2. pc'[p] = "tested" /\ OnlyMoves(pc, pc', p)
      BY <1>1, <1>5, <3>1 DEF OnlyMoves
    <3>3. \A w : Num(pc', w) = IF w = "tested" THEN Num(pc, w) + 1
                              ELSE IF w = "idle" THEN Num(pc, w) - 1
                              ELSE Num(pc, w)
      BY ONLY <1>1, <3>2, OneMoves
    <3>. QED
      BY <3>3
  <2>2. SemaphoreMatchesQueue'
    BY <1>1, <2>1, AtNum, AtNumNext DEF SemaphoreMatchesQueue
  <2>3. NoLostWakeup'
    <3>1. At("asleep")' \subseteq At("asleep")
      BY <1>1, <1>5 DEF At, TypeOK
    <3>. QED
      BY <1>1, <2>1, <3>1, AtNum, AtNumNext DEF NoLostWakeup
  <2>4. BoundedOvershoot'
    <3>1. Where(pc', "tested") \subseteq Producers
      BY <1>3 DEF Where, TypeOK, Threads
    <3>2. /\ Num(pc', "tested") <= Cardinality(Producers)
          /\ Cardinality(Producers) \in Nat
      BY <3>1, QueueAssumption, FS_Subset, FS_CardinalityType DEF Num
    <3>3. Len(m_qEvents) <= MaxSize - 1 /\ Len(m_qEvents) \in Nat
      BY <1>5, QueueAssumption DEF TypeOK
    <3>. QED
      BY <1>1, <3>2, <3>3, AtNumNext, NumNat, QueueAssumption DEF BoundedOvershoot
  <2>. QED
    BY <1>3, <1>4, <2>2, <2>3, <2>4
<1>6. CASE UNCHANGED pc
  BY <1>1, <1>3, <1>4, <1>6
  DEF At, SemaphoreMatchesQueue, NoLostWakeup, BoundedOvershoot
<1>. QED
  BY <1>5, <1>6 DEF PostTest

LEMMA PostPushInvariant ==
  ASSUME IInv, NEW p \in Producers, PostPush(p)
  PROVE  IInv' /\ Latest(p) \in Events
<1>. USE DEF IInv
<1>1. /\ p \in Threads /\ pc[p] = "tested" /\ lock = NoThread
      /\ pc' = [pc EXCEPT ![p] = "pushed"] /\ lock' = p
      /\ m_qEvents' = Append(m_qEvents, Latest(p))
      /\ UNCHANGED <<count, peeked, posted, dropped, handled>>
  BY DEF PostPush, Threads
<1>2. Latest(p) \in Events
  BY <1>1 DEF PostCounted, Latest, Events
<1>3. /\ Len(m_qEvents') = Len(m_qEvents) + 1 /\ Len(m_qEvents) \in Nat
      /\ m_qEvents' \in Seq(Events)
  BY <1>1, <1>2 DEF TypeOK
<1>4. TypeOK' /\ PostCounted'
  BY <1>1, <1>3, QueueAssumption DEF TypeOK, PostCounted, Threads
<1>5. /\ Num(pc', "tested") = Num(pc, "tested") - 1
      /\ Num(pc', "pushed") = Num(pc, "pushed") + 1
      /\ Num(pc', "waiting") = Num(pc, "waiting")
      /\ Num(pc', "granted") = Num(pc, "granted")
  <2>1. pc \in [Threads -> ProducerPoints \cup ConsumerPoints]
    BY DEF TypeOK
  <2>2. pc'[p] = "pushed" /\ OnlyMoves(pc, pc', p)
    BY <1>1, <2>1 DEF OnlyMoves
  <2>3. \A w : Num(pc', w) = IF w = "pushed" THEN Num(pc, w) + 1
                            ELSE IF w = "tested" THEN Num(pc, w) - 1
                            ELSE Num(pc, w)
    <3>1. p \in Threads /\ pc[p] = "tested"
      BY <1>1
    <3>. QED
      BY ONLY <2>2, <3>1, OneMoves
  <2>. QED
    BY <2>3
<1>6. LockHolder'
  BY <1>1, QueueAssumption DEF LockHolder, At, Threads, TypeOK
<1>7. SemaphoreMatchesQueue'
  BY <1>1, <1>3, <1>5, AtNum, AtNumNext, NumNat DEF SemaphoreMatchesQueue, TypeOK
<1>8. NoLostWakeup'
  <2>1. At("asleep")' \subseteq At("asleep")
    BY <1>1 DEF At, TypeOK
  <2>. QED
    BY <1>1, <1>5, <2>1, AtNum, AtNumNext DEF NoLostWakeup
<1>9. BoundedOvershoot'
  <2>1. Cardinality(Producers) \in Nat
    BY QueueAssumption, FS_CardinalityType
  <2>. QED
    BY <1>3, <1>5, <2>1, AtNum, AtNumNext, NumNat, QueueAssumption
    DEF BoundedOvershoot
<1>. QED
  BY <1>2, <1>4, <1>6, <1>7, <1>8, <1>9

LEMMA PostNotifyInvariant ==
  ASSUME IInv, NEW p \in Producers, PostNotify(p)
  PROVE  IInv'
<1>. USE DEF IInv
<1>1. /\ p \in Threads /\ pc[p] = "pushed"
      /\ count' = count + 1 /\ lock' = NoThread
      /\ UNCHANGED <<m_qEvents, peeked, posted, dropped, handled>>
  BY DEF PostNotify, Threads
<1>2. At("pushed") = {p}
  BY <1>1 DEF LockHolder, At
<1>3. ASSUME NEW g, NEW c \in Threads,
             \/ At("asleep") = {} /\ g = pc
             \/ pc[c] = "asleep" /\ g = [pc EXCEPT ![c] = "waiting"],
             pc' = [g EXCEPT ![p] = "idle"]
      PROVE  IInv'
  <2>1. /\ g \in [Threads -> ProducerPoints \cup ConsumerPoints]
        /\ g[p] = "pushed"
        /\ \A q \in Producers : g[q] = pc[q]
        /\ \A d \in Consumers : g[d] = pc[d] \/ g[d] = "waiting"
    BY <1>1, <1>3, QueueAssumption DEF TypeOK, Threads
  <2>2. TypeOK' /\ PostCounted'
    BY <1>1, <1>3, <2>1, QueueAssumption DEF TypeOK, PostCounted, Threads
  <2>3. /\ Num(g, "tested") = Num(pc, "tested")
        /\ Num(g, "pushed") = Num(pc, "pushed")
        /\ Num(g, "granted") = Num(pc, "granted")
        /\ At("asleep") = {} \/ Num(g, "waiting") = Num(pc, "waiting") + 1
    <3>1. CASE At("asleep") = {} /\ g = pc
      BY <3>1, Zenon
    <3>2. CASE pc[c] = "asleep" /\ g = [pc EXCEPT ![c] = "waiting"]
      <4>1. c \in Threads /\ pc[c] = "asleep" /\ g[c] = "waiting"
        BY <1>3, <3>2 DEF TypeOK
      <4>2. OnlyMoves(pc, g, c)
        BY <1>3, <3>2 DEF TypeOK, OnlyMoves
      <4>3. \A w : Num(g, w) = IF w = "waiting" THEN Num(pc, w) + 1
                               ELSE IF w = "asleep" THEN Num(pc, w) - 1
                               ELSE Num(pc, w)
        BY ONLY <4>1, <4>2, OneMoves
      <4>. QED
        BY <4>3
    <3>. QED
      BY <1>3, <3>1, <3>2
  <2>4. /\ Num(pc', "tested") = Num(g, "tested")
        /\ Num(pc', "pushed") = Num(g, "pushed") - 1
        /\ Num(pc', "waiting") = Num(g, "waiting")
        /\ Num(pc', "granted") = Num(g, "granted")
    <3>1. pc'[p] = "idle" /\ OnlyMoves(g, pc', p)
      BY <1>1, <1>3, <2>1 DEF OnlyMoves
    <3>2. \A w : Num(pc', w) = IF w = "idle" THEN Num(g, w) + 1
                              ELSE IF w = "pushed" THEN Num(g, w) - 1
                              ELSE Num(g, w)
      BY ONLY <1>1, <2>1, <3>1, OneMoves
    <3>. QED
      BY <3>2
  <2>5. LockHolder'
    BY <1>1, <1>2, <1>3, <2>1 DEF LockHolder, At, TypeOK
  <2>6. SemaphoreMatchesQueue'
    BY <1>1, <2>3, <2>4, AtNum, AtNumNext, NumNat DEF SemaphoreMatchesQueue, TypeOK
  <2>7. NoLostWakeup'
    <3>1. At("asleep")' \subseteq At("asleep")
      BY <1>1, <1>3, <2>1 DEF At, TypeOK
    <3>. QED
      BY <1>1, <2>3, <2>4, <3>1, AtNum, AtNumNext, NumNat DEF NoLostWakeup, TypeOK
  <2>8. BoundedOvershoot'
    BY <1>1, <2>3, <2>4, AtNum, AtNumNext DEF BoundedOvershoot
  <2>. QED
    BY <2>2, <2>5, <2>6, <2>7, <2>8
<1>4. CASE At("asleep") = {} /\ pc' = [pc EXCEPT ![p] = "idle"]
  BY <1>1, <1>3, <1>4
<1>5. ASSUME NEW c \in At("asleep"),
             pc' = [pc EXCEPT ![c] = "waiting", ![p] = "idle"]
      PROVE  IInv'
  <2>1. c \in Threads /\ pc[c] = "asleep"
    BY DEF At
  <2>. DEFINE g == [pc EXCEPT ![c] = "waiting"]
  <2>2. pc' = [g EXCEPT ![p] = "idle"]
    BY <1>5
  <2>. QED
    BY <1>3, <2>1, <2>2
<1>. QED
  BY <1>4, <1>5 DEF PostNotify

(* The steps of pop() move one consumer c from u to v, and take at most one
   unit and one event. *)
Moves(c, u, v) == pc[c] = u /\ pc' = [pc EXCEPT ![c] = v]

LEMMA PopStep ==
  ASSUME TypeOK, NEW c \in Consumers, NEW u, NEW v \in ConsumerPoints,
         u # v, Moves(c, u, v)
  PROVE  /\ pc' \in [Threads -> ProducerPoints \cup ConsumerPoints]
         /\ \A q \in Producers : pc'[q] = pc[q]
         /\ \A d \in Consumers : pc'[d] = IF d = c THEN v ELSE pc[d]
         /\ At("pushed")' = At("pushed")
         /\ Num(pc', "tested") = Num(pc, "tested")
         /\ Num(pc', "pushed") = Num(pc, "pushed")
         /\ \A w : Num(pc', w) = IF w = v THEN Num(pc, w) + 1
                                 ELSE IF w = u THEN Num(pc, w) - 1
                                 ELSE Num(pc, w)
<1>0. pc[c] = u /\ pc' = [pc EXCEPT ![c] = v]
  BY DEF Moves
<1>1. /\ c \in Threads /\ c \notin Producers
      /\ pc \in [Threads -> ProducerPoints \cup ConsumerPoints]
      /\ u \in ConsumerPoints
  BY <1>0, QueueAssumption DEF TypeOK, Threads
<1>2. /\ pc' \in [Threads -> ProducerPoints \cup ConsumerPoints]
      /\ \A x \in Threads : pc'[x] = IF x = c THEN v ELSE pc[x]
  BY <1>0, <1>1
<1>3. /\ \A q \in Producers : pc'[q] = pc[q]
      /\ \A d \in Consumers : pc'[d] = IF d = c THEN v ELSE pc[d]
  BY <1>1, <1>2 DEF Threads
<1>4. c \in Threads /\ pc[c] = u /\ pc'[c] = v /\ OnlyMoves(pc, pc', c)
  BY <1>0, <1>1, <1>2 DEF OnlyMoves
<1>5. \A w : Num(pc', w) = IF w = v THEN Num(pc, w) + 1
                          ELSE IF w = u THEN Num(pc, w) - 1
                          ELSE Num(pc, w)
  BY ONLY u # v, <1>4, OneMoves
<1>6. \A x \in Threads : pc'[x] = "pushed" <=> pc[x] = "pushed"
  BY <1>0, <1>1, <1>2
<1>7. At("pushed")' = At("pushed")
  BY <1>6 DEF At
<1>8. u \notin {"tested", "pushed"} /\ v \notin {"tested", "pushed"}
  BY <1>1
<1>9. Num(pc', "tested") = Num(pc, "tested") /\ Num(pc', "pushed") = Num(pc, "pushed")
  BY <1>5, <1>8
<1>. QED
  BY <1>2, <1>3, <1>5, <1>7, <1>9

LEMMA PopCallInvariant ==
  ASSUME IInv, NEW c \in Consumers, PopCall(c) \/ ProcessPeek(c)
  PROVE  IInv'
<1>. USE DEF IInv
<1>1. /\ UNCHANGED <<m_qEvents, count, lock, posted, dropped, handled>>
      /\ peeked' \in [Consumers -> Events \cup {NoEvent}]
      /\ UNCHANGED pc \/ (pc[c] = "idle" /\ pc' = [pc EXCEPT ![c] = "waiting"])
  <2>1. CASE PopCall(c)
    BY <2>1 DEF PopCall, TypeOK
  <2>2. CASE ProcessPeek(c)
    <3>1. m_qEvents # <<>> => Head(m_qEvents) \in Events
      BY DEF TypeOK
    <3>. QED
      BY <2>2, <3>1 DEF ProcessPeek, TypeOK
  <2>. QED
    BY <2>1, <2>2
<1>2. CASE UNCHANGED pc
  BY <1>1, <1>2 DEF TypeOK, PostCounted, LockHolder, SemaphoreMatchesQueue,
                    NoLostWakeup, BoundedOvershoot, At
<1>3. CASE pc[c] = "idle" /\ pc' = [pc EXCEPT ![c] = "waiting"]
  <2>1. /\ pc' \in [Threads -> ProducerPoints \cup ConsumerPoints]
        /\ \A q \in Producers : pc'[q] = pc[q]
        /\ \A d \in Consumers : pc'[d] = IF d = c THEN "waiting" ELSE pc[d]
        /\ At("pushed")' = At("pushed")
        /\ Num(pc', "tested") = Num(pc, "tested")
        /\ Num(pc', "pushed") = Num(pc, "pushed")
        /\ Num(pc', "granted") = Num(pc, "granted")
        /\ Num(pc', "waiting") = Num(pc, "waiting") + 1
    <3>1. Moves(c, "idle", "waiting")
      BY <1>3 DEF Moves
    <3>2. TypeOK
      OBVIOUS
    <3>. QED
      BY <3>1, <3>2, PopStep
  <2>2. TypeOK' /\ PostCounted' /\ LockHolder'
    BY <1>1, <2>1 DEF TypeOK, PostCounted, LockHolder
  <2>3. At("asleep")' \subseteq At("asleep")
    BY <1>3, <2>1 DEF At, TypeOK, Threads
  <2>. QED
    BY <1>1, <2>1, <2>2, <2>3, AtNum, AtNumNext, NumNat
    DEF SemaphoreMatchesQueue, NoLostWakeup, BoundedOvershoot, TypeOK
<1>. QED
  BY <1>1, <1>2, <1>3

LEMMA SemWaitInvariant ==
  ASSUME IInv, NEW c \in Consumers, SemSleep(c) \/ SpuriousWake(c) \/ SemTake(c)
  PROVE  IInv'
<1>. USE DEF IInv
<1>1. UNCHANGED <<m_qEvents, lock, peeked, posted, dropped, handled>>
  BY DEF SemSleep, SpuriousWake, SemTake
<1>2. CASE SemSleep(c)
  <2>1. /\ pc[c] = "waiting" /\ pc' = [pc EXCEPT ![c] = "asleep"]
        /\ count = 0 /\ count' = 0
    BY <1>2 DEF SemSleep
  <2>2. /\ pc' \in [Threads -> ProducerPoints \cup ConsumerPoints]
        /\ \A q \in Producers : pc'[q] = pc[q]
        /\ \A d \in Consumers : pc'[d] = IF d = c THEN "asleep" ELSE pc[d]
        /\ At("pushed")' = At("pushed")
        /\ Num(pc', "tested") = Num(pc, "tested")
        /\ Num(pc', "pushed") = Num(pc, "pushed")
        /\ Num(pc', "granted") = Num(pc, "granted")
    <3>1. Moves(c, "waiting", "asleep")
      BY <2>1 DEF Moves
    <3>2. TypeOK
      OBVIOUS
    <3>. QED
      BY <3>1, <3>2, PopStep
  <2>3. TypeOK' /\ PostCounted' /\ LockHolder'
    BY <1>1, <2>1, <2>2 DEF TypeOK, PostCounted, LockHolder
  <2>. QED
    BY <1>1, <2>1, <2>2, <2>3, AtNum, AtNumNext, NumNat
    DEF SemaphoreMatchesQueue, NoLostWakeup, BoundedOvershoot
<1>3. CASE SpuriousWake(c)
  <2>1. /\ pc[c] = "asleep" /\ pc' = [pc EXCEPT ![c] = "waiting"]
        /\ UNCHANGED count
    BY <1>3 DEF SpuriousWake
  <2>2. /\ pc' \in [Threads -> ProducerPoints \cup ConsumerPoints]
        /\ \A q \in Producers : pc'[q] = pc[q]
        /\ \A d \in Consumers : pc'[d] = IF d = c THEN "waiting" ELSE pc[d]
        /\ At("pushed")' = At("pushed")
        /\ Num(pc', "tested") = Num(pc, "tested")
        /\ Num(pc', "pushed") = Num(pc, "pushed")
        /\ Num(pc', "granted") = Num(pc, "granted")
        /\ Num(pc', "waiting") = Num(pc, "waiting") + 1
    <3>1. Moves(c, "asleep", "waiting")
      BY <2>1 DEF Moves
    <3>2. TypeOK
      OBVIOUS
    <3>. QED
      BY <3>1, <3>2, PopStep
  <2>3. TypeOK' /\ PostCounted' /\ LockHolder'
    BY <1>1, <2>1, <2>2 DEF TypeOK, PostCounted, LockHolder
  <2>4. At("asleep")' \subseteq At("asleep")
    BY <2>1, <2>2 DEF At, TypeOK, Threads
  <2>. QED
    BY <1>1, <2>1, <2>2, <2>3, <2>4, AtNum, AtNumNext, NumNat
    DEF SemaphoreMatchesQueue, NoLostWakeup, BoundedOvershoot, TypeOK
<1>4. CASE SemTake(c)
  <2>1. /\ pc[c] = "waiting" /\ pc' = [pc EXCEPT ![c] = "granted"]
        /\ count # 0 /\ count' = count - 1 /\ count' \in Nat /\ count \in Nat
    BY <1>4 DEF SemTake, TypeOK
  <2>2. /\ pc' \in [Threads -> ProducerPoints \cup ConsumerPoints]
        /\ \A q \in Producers : pc'[q] = pc[q]
        /\ \A d \in Consumers : pc'[d] = IF d = c THEN "granted" ELSE pc[d]
        /\ At("pushed")' = At("pushed")
        /\ Num(pc', "tested") = Num(pc, "tested")
        /\ Num(pc', "pushed") = Num(pc, "pushed")
        /\ Num(pc', "granted") = Num(pc, "granted") + 1
        /\ Num(pc', "waiting") = Num(pc, "waiting") - 1
    <3>1. Moves(c, "waiting", "granted")
      BY <2>1 DEF Moves
    <3>2. TypeOK
      OBVIOUS
    <3>. QED
      BY <3>1, <3>2, PopStep
  <2>3. TypeOK' /\ PostCounted' /\ LockHolder'
    BY <1>1, <2>1, <2>2 DEF TypeOK, PostCounted, LockHolder
  <2>4. At("asleep")' \subseteq At("asleep")
    BY <2>1, <2>2 DEF At, TypeOK, Threads
  <2>5. SemaphoreMatchesQueue'
    BY <1>1, <2>1, <2>2, AtNum, AtNumNext, NumNat DEF SemaphoreMatchesQueue
  <2>6. NoLostWakeup' /\ BoundedOvershoot'
    BY <1>1, <2>1, <2>2, <2>4, AtNum, AtNumNext, NumNat
    DEF NoLostWakeup, BoundedOvershoot
  <2>. QED
    BY <2>3, <2>5, <2>6
<1>. QED
  BY <1>2, <1>3, <1>4

LEMMA PopFrontInvariant ==
  ASSUME IInv, NEW c \in Consumers, PopFront(c)
  PROVE  IInv' /\ m_qEvents # <<>>
<1>. USE DEF IInv
<1>1. /\ pc[c] = "granted" /\ pc' = [pc EXCEPT ![c] = "idle"]
      /\ m_qEvents' = Tail(m_qEvents)
      /\ UNCHANGED <<count, lock, posted, dropped>>
  BY DEF PopFront
<1>2. m_qEvents # <<>>
  <2>1. At("granted") # {}
    BY <1>1 DEF At, Threads
  <2>. QED
    BY <2>1, FrontIsDefined DEF FrontDefined
<1>3. /\ m_qEvents' \in Seq(Events) /\ Head(m_qEvents) \in Events
      /\ Len(m_qEvents') = Len(m_qEvents) - 1 /\ Len(m_qEvents) \in Nat
  BY <1>1, <1>2 DEF TypeOK
<1>4. /\ handled' \in [Consumers -> Seq(Events)]
      /\ peeked' \in [Consumers -> Events \cup {NoEvent}]
  <2>. DEFINE e == IF peeked[c] = NoEvent THEN Head(m_qEvents) ELSE peeked[c]
  <2>1. e \in Events
    BY <1>3 DEF TypeOK
  <2>2. handled' = [handled EXCEPT ![c] = Append(handled[c], e)]
    BY DEF PopFront
  <2>3. Append(handled[c], e) \in Seq(Events)
    BY <2>1 DEF TypeOK
  <2>. HIDE DEF e
  <2>. QED
    BY <2>2, <2>3 DEF PopFront, TypeOK
<1>5. /\ pc' \in [Threads -> ProducerPoints \cup ConsumerPoints]
      /\ \A q \in Producers : pc'[q] = pc[q]
      /\ \A d \in Consumers : pc'[d] = IF d = c THEN "idle" ELSE pc[d]
      /\ At("pushed")' = At("pushed")
      /\ Num(pc', "tested") = Num(pc, "tested")
      /\ Num(pc', "pushed") = Num(pc, "pushed")
      /\ Num(pc', "waiting") = Num(pc, "waiting")
      /\ Num(pc', "granted") = Num(pc, "granted") - 1
  <2>1. Moves(c, "granted", "idle")
    BY <1>1 DEF Moves
  <2>2. TypeOK
    OBVIOUS
  <2>. QED
    BY <2>1, <2>2, PopStep
<1>6. TypeOK' /\ PostCounted' /\ LockHolder'
  BY <1>1, <1>3, <1>4, <1>5 DEF TypeOK, PostCounted, LockHolder
<1>7. At("asleep")' \subseteq At("asleep")
  BY <1>1, <1>5 DEF At, TypeOK, Threads
<1>8. SemaphoreMatchesQueue'
  BY <1>1, <1>3, <1>5, AtNum, AtNumNext, NumNat DEF SemaphoreMatchesQueue, TypeOK
<1>9. NoLostWakeup'
  BY <1>1, <1>5, <1>7, AtNum, AtNumNext DEF NoLostWakeup
<1>10. BoundedOvershoot'
  <2>1. Cardinality(Producers) \in Nat
    BY QueueAssumption, FS_CardinalityType
  <2>. QED
    BY <1>3, <1>5, <2>1, AtNum, AtNumNext, NumNat, QueueAssumption
    DEF BoundedOvershoot
<1>. QED
  BY <1>2, <1>6, <1>8, <1>9, <1>10

-----------------------------------------------------------------------------
(* The theorems                                                            *)

LEMMA StutterInvariant == IInv /\ UNCHANGED vars => IInv'
BY DEF IInv, vars, TypeOK, PostCounted, LockHolder, SemaphoreMatchesQueue,
       NoLostWakeup, BoundedOvershoot, At

LEMMA NextInvariant ==
  ASSUME IInv, Next
  PROVE  IInv'
<1>1. ASSUME NEW p \in Producers, Post(p)
      PROVE  IInv'
  BY <1>1, PostTestInvariant, PostPushInvariant, PostNotifyInvariant DEF Post
<1>2. ASSUME NEW c \in Consumers, Pop(c) \/ SpuriousWake(c)
      PROVE  IInv'
  BY <1>2, PopCallInvariant, SemWaitInvariant, PopFrontInvariant DEF Pop
<1>. QED
  BY <1>1, <1>2 DEF Next

(* The inductive invariant holds throughout: the counting argument that ties
   the semaphore, the deque and the points of the threads together. *)
THEOREM Invariance == Safety => []IInv
<1>1. Init => IInv
  BY InitInvariant
<1>2. IInv /\ [Next]_vars => IInv'
  BY NextInvariant, StutterInvariant
<1>. QED
  BY <1>1, <1>2, PTL DEF Safety

(* The types are invariant: in particular the semaphore's counter, a plain int
   that wait() decrements, never goes below zero. *)
THEOREM TypeCorrect == Safety => []TypeOK
<1>1. IInv => TypeOK
  BY DEF IInv
<1>. QED
  BY <1>1, Invariance, PTL

(* Only one producer at a time is between push_back and the end of notify, and
   it holds m_queueLcok. *)
THEOREM PushIsExclusive == Safety => []LockHolder
<1>1. IInv => LockHolder
  BY DEF IInv
<1>. QED
  BY <1>1, Invariance, PTL

(* The semaphore counts the deque, whatever the number of threads. *)
THEOREM CountsTheQueue == Safety => []SemaphoreMatchesQueue
<1>1. IInv => SemaphoreMatchesQueue
  BY DEF IInv
<1>. QED
  BY <1>1, Invariance, PTL

(* pop() may call front() and pop_front() without testing for an empty deque. *)
THEOREM PopIsDefined == Safety => []FrontDefined
<1>1. IInv => FrontDefined
  BY FrontIsDefined DEF IInv
<1>. QED
  BY <1>1, Invariance, PTL

(* notify_one, once per event, is enough for any number of consumers. *)
THEOREM WakeupsSuffice == Safety => []NoLostWakeup
<1>1. IInv => NoLostWakeup
  BY DEF IInv
<1>. QED
  BY <1>1, Invariance, PTL

(* The deque outgrows m_maxSize by less than one event per producer. *)
THEOREM OvershootIsBounded == Safety => []BoundedOvershoot
<1>1. IInv => BoundedOvershoot
  BY DEF IInv
<1>. QED
  BY <1>1, Invariance, PTL

-----------------------------------------------------------------------------
(* Refinement                                                              *)

(* Only a consumer that has the queue for itself may peek and then pop. *)
OnePeeker == \A c \in Peekers : Consumers = {c}

(* What processEvent has peeked at is what its pop() will take. *)
PeekedIsHead ==
  \A c \in Consumers :
    peeked[c] # NoEvent =>
      /\ c \in Peekers
      /\ m_qEvents # <<>>
      /\ peeked[c] = Head(m_qEvents)

(* A producer leaves the head of the deque where it is. *)
LEMMA PostKeepsPeeked ==
  ASSUME IInv, PeekedIsHead, NEW p \in Producers, Post(p)
  PROVE  PeekedIsHead'
<1>1. CASE PostTest(p) \/ PostNotify(p)
  BY <1>1 DEF PostTest, PostNotify, PeekedIsHead
<1>2. CASE PostPush(p)
  <2>1. Latest(p) \in Events /\ m_qEvents \in Seq(Events)
    BY <1>2, PostPushInvariant DEF IInv, TypeOK
  <2>2. /\ m_qEvents' = Append(m_qEvents, Latest(p))
        /\ peeked' = peeked
    BY <1>2 DEF PostPush
  <2>3. m_qEvents # <<>> => m_qEvents' # <<>> /\ Head(m_qEvents') = Head(m_qEvents)
    BY <2>1, <2>2
  <2>. QED
    BY <2>2, <2>3 DEF PeekedIsHead
<1>. QED
  BY <1>1, <1>2 DEF Post

(* A pop takes from under a peek only if somebody else pops. *)
LEMMA PopKeepsPeeked ==
  ASSUME OnePeeker, IInv, PeekedIsHead, NEW c \in Consumers, Pop(c) \/ SpuriousWake(c)
  PROVE  PeekedIsHead'
<1>0. peeked \in [Consumers -> Events \cup {NoEvent}]
  BY DEF IInv, TypeOK
<1>1. CASE PopCall(c) \/ SemSleep(c) \/ SemTake(c) \/ SpuriousWake(c)
  BY <1>1 DEF PopCall, SemSleep, SemTake, SpuriousWake, PeekedIsHead
<1>2. CASE ProcessPeek(c)
  BY <1>0, <1>2 DEF ProcessPeek, PeekedIsHead
<1>3. CASE PopFront(c)
  <2>1. peeked' = [peeked EXCEPT ![c] = NoEvent]
    BY <1>3 DEF PopFront
  <2>2. ASSUME NEW d \in Consumers, peeked'[d] # NoEvent
        PROVE  FALSE
    <3>1. d # c /\ peeked[d] # NoEvent
      BY <1>0, <2>1, <2>2
    <3>. QED
      BY <3>1 DEF PeekedIsHead, OnePeeker
  <2>. QED
    BY <2>2 DEF PeekedIsHead
<1>. QED
  BY <1>1, <1>2, <1>3 DEF Pop

(* What consumers handle is what they took from the deque. *)
THEOREM HandlesWhatItPops ==
  ASSUME OnePeeker
  PROVE  Safety => []PeekedIsHead
<1>1. Init => PeekedIsHead
  BY DEF Init, PeekedIsHead
<1>2. IInv /\ PeekedIsHead /\ [Next]_vars => PeekedIsHead'
  <2>1. SUFFICES ASSUME IInv, PeekedIsHead, [Next]_vars
                 PROVE  PeekedIsHead'
    OBVIOUS
  <2>2. CASE UNCHANGED vars
    BY <2>1, <2>2 DEF vars, PeekedIsHead
  <2>3. CASE Next
    BY <2>1, <2>3, OnePeeker, PostKeepsPeeked, PopKeepsPeeked DEF Next
  <2>. QED
    BY <2>1, <2>2, <2>3
<1>. QED
  BY <1>1, <1>2, Invariance, PTL DEF Safety

(* The deque and its consumers behave as the first-in first-out channel:
   push_back under m_queueLcok is its Send, pop_front with the handling of the
   event its Receive, everything else stutters.  With a second consumer next to
   one that peeks it would not.  (Its fairness is checked by TLC.) *)
THEOREM RefinesChannel ==
  ASSUME OnePeeker
  PROVE  Safety => Channel!Safety
<1>1. Init => Channel!Init
  BY DEF Init, Channel!Init
<1>2. IInv /\ PeekedIsHead /\ [Next]_vars => [Channel!Next]_<<m_qEvents, handled>>
  <2>1. SUFFICES ASSUME IInv, PeekedIsHead, [Next]_vars, <<m_qEvents, handled>>' # <<m_qEvents, handled>>
                 PROVE  Channel!Next
    OBVIOUS
  <2>2. ASSUME NEW p \in Producers, Post(p)
        PROVE  Channel!Next
    <3>1. PostPush(p)
      BY <2>1, <2>2 DEF Post, PostTest, PostNotify
    <3>2. Latest(p) \in Events /\ m_qEvents' = Append(m_qEvents, Latest(p)) /\ handled' = handled
      BY <2>1, <3>1, PostPushInvariant DEF PostPush
    <3>. QED
      BY <3>2 DEF Channel!Next, Channel!Send
  <2>3. ASSUME NEW c \in Consumers, Pop(c) \/ SpuriousWake(c)
        PROVE  Channel!Next
    <3>1. PopFront(c)
      BY <2>1, <2>3 DEF Pop, SpuriousWake, PopCall, ProcessPeek, SemSleep, SemTake
    <3>2. m_qEvents # <<>> /\ m_qEvents' = Tail(m_qEvents)
      BY <2>1, <3>1, PopFrontInvariant DEF PopFront
    <3>3. (IF peeked[c] = NoEvent THEN Head(m_qEvents) ELSE peeked[c]) = Head(m_qEvents)
      BY <2>1 DEF PeekedIsHead
    <3>4. handled' = [handled EXCEPT ![c] = Append(@, Head(m_qEvents))]
      BY <3>1, <3>3 DEF PopFront
    <3>. QED
      BY <3>2, <3>4 DEF Channel!Next, Channel!Receive
  <2>. QED
    BY <2>1, <2>2, <2>3 DEF Next, vars
<1>. QED
  BY <1>1, <1>2, Invariance, HandlesWhatItPops, PTL DEF Safety, Channel!Safety
=============================================================================
