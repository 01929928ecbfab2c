---------------------------- MODULE TcpServerProofs ----------------------------
(***************************************************************************)
(* OpenIsOwned for every number of connections and of calls of listen(),   *)
(* whether the owner waits for the accepting thread before close() or not: *)
(* TcpServer and the sockets it accepted leak no descriptor and close none *)
(* that is still in use.                                                   *)
(***************************************************************************)
EXTENDS TcpServer, FiniteSetTheorems, FunctionTheorems, TLAPS

-----------------------------------------------------------------------------
(* The lowest free descriptors                                             *)

LEMMA Least ==
  ASSUME NEW S, S \subseteq Nat, S # {}
  PROVE  Min(S) \in S /\ \A t \in S : Min(S) <= t
<1>. DEFINE Less == {ss \in Nat \X Nat : ss[1] < ss[2]}
<1>1. IsWellFoundedOn(Less, Nat)
  BY NatLessThanWellFounded DEF OpToRel
<1>2. PICK s \in S : \A t \in S : ~(<<t, s>> \in Less)
  BY <1>1, WFMin
<1>3. ASSUME NEW t \in S PROVE s <= t
  <2>1. s \in Nat /\ t \in Nat /\ (t < s => <<t, s>> \in Less)
    OBVIOUS
  <2>. QED
    BY <1>2, <2>1
<1>4. \E x \in S : \A y \in S : x =< y
  BY <1>3
<1>. QED
  BY <1>4 DEF Min

(* How many elements of S are smaller. *)
Below(S, d) == {e \in S : e < d}
Rank(S, d) == Cardinality(Below(S, d))

LEMMA RankGrows ==
  ASSUME NEW S, S \subseteq Nat, IsFiniteSet(S)
  PROVE  /\ \A d \in S : Rank(S, d) \in Nat
         /\ \A d, e \in S : d < e => Rank(S, d) < Rank(S, e)
<1>1. ASSUME NEW d \in S PROVE IsFiniteSet(Below(S, d)) /\ Rank(S, d) \in Nat
  <2>1. Below(S, d) \in SUBSET S BY DEF Below
  <2>. QED
    BY <2>1, FS_Subset, FS_CardinalityType DEF Rank
<1>2. ASSUME NEW d \in S, NEW e \in S, d < e PROVE Rank(S, d) < Rank(S, e)
  <2>1. d \in Nat /\ e \in Nat OBVIOUS
  <2>2. Below(S, d) \in SUBSET Below(S, e)
    <3>1. \A x \in S : x < d => x < e BY <1>2, <2>1
    <3>. QED
      BY <3>1 DEF Below
  <2>3. d \in Below(S, e) /\ d \notin Below(S, d)
    BY <1>2, <2>1 DEF Below
  <2>4. /\ Cardinality(Below(S, d)) <= Cardinality(Below(S, e))
        /\ Cardinality(Below(S, e)) = Cardinality(Below(S, d)) => Below(S, e) = Below(S, d)
    BY <1>1, <2>2, FS_Subset
  <2>5. Rank(S, d) \in Nat /\ Rank(S, e) \in Nat BY <1>1
  <2>. QED
    BY <2>3, <2>4, <2>5 DEF Rank
<1>. QED
  BY <1>1, <1>2

LEMMA LowestAreEnough ==
  ASSUME NEW S, S \subseteq Nat, IsFiniteSet(S), NEW n \in Nat, n <= Cardinality(S)
  PROVE  LET L == {d \in S : Rank(S, d) < n}
         IN  IsFiniteSet(L) /\ Cardinality(L) = n
<1>. DEFINE L == {d \in S : Rank(S, d) < n}
<1>1. L \in SUBSET S OBVIOUS
<1>2. IsFiniteSet(L) /\ Cardinality(L) \in Nat
  BY <1>1, FS_Subset, FS_CardinalityType
<1>3. Cardinality(L) <= n
  <2>. DEFINE f == [d \in L |-> Rank(S, d)]
  <2>1. f \in [L -> 0..(n - 1)]
    <3>1. \A d \in L : Rank(S, d) \in Nat /\ Rank(S, d) < n
      BY RankGrows
    <3>2. \A r \in Nat : r < n => r \in 0..(n - 1)
      OBVIOUS
    <3>3. \A d \in L : Rank(S, d) \in 0..(n - 1)
      BY <3>1, <3>2
    <3>. HIDE DEF L
    <3>. QED
      BY <3>3
  <2>2. \A d, e \in L : f[d] = f[e] => d = e
    <3>1. SUFFICES ASSUME NEW d \in L, NEW e \in L, d # e PROVE Rank(S, d) # Rank(S, e)
      OBVIOUS
    <3>2. d \in Nat /\ e \in Nat /\ d \in S /\ e \in S OBVIOUS
    <3>3. d < e \/ e < d BY <3>1, <3>2
    <3>4. Rank(S, d) \in Nat /\ Rank(S, e) \in Nat BY <3>2, RankGrows
    <3>5. Rank(S, d) < Rank(S, e) \/ Rank(S, e) < Rank(S, d) BY <3>2, <3>3, RankGrows
    <3>. QED
      BY <3>4, <3>5
  <2>. HIDE DEF L, f
  <2>3. f \in Injection(L, 0..(n - 1)) BY <2>1, <2>2, Fun_IsInj
  <2>4. IsFiniteSet(0..(n - 1)) /\ Cardinality(0..(n - 1)) = n
    <3>1. IsFiniteSet(0..(n - 1)) /\ Cardinality(0..(n - 1)) = IF 0 > n - 1 THEN 0 ELSE n - 1 - 0 + 1
      BY FS_Interval
    <3>. QED
      BY <3>1
  <2>5. Cardinality(L) <= Cardinality(0..(n - 1)) BY <2>3, <2>4, FS_Injection
  <2>. QED
    BY <2>4, <2>5
<1>4. n <= Cardinality(L)
  <2>1. SUFFICES ASSUME Cardinality(L) < n PROVE FALSE
    BY <1>2
  <2>2. S \ L # {}
    <3>1. Cardinality(S) \in Nat BY FS_CardinalityType
    <3>2. L # S BY <1>2, <2>1, <3>1
    <3>. QED
      BY <1>1, <3>2
  <2>. DEFINE m == Min(S \ L)
  <2>3. m \in S \ L /\ \A t \in S \ L : m <= t
    <3>1. S \ L \subseteq Nat OBVIOUS
    <3>. HIDE DEF L
    <3>. QED
      BY <2>2, <3>1, Least
  <2>. HIDE DEF m
  <2>4. Below(S, m) \in SUBSET L
    <3>1. \A e \in S \ L : ~(e < m)
      <4>1. \A e \in S \ L : e \in Nat /\ m \in Nat /\ m <= e BY <2>3
      <4>. HIDE DEF L
      <4>. QED
        BY <4>1
    <3>. HIDE DEF L
    <3>. QED
      BY <3>1 DEF Below
  <2>5. Rank(S, m) <= Cardinality(L)
    BY <1>2, <2>4, FS_Subset DEF Rank
  <2>6. m \in S /\ Rank(S, m) \in Nat /\ ~(Rank(S, m) < n)
    BY <2>3, RankGrows
  <2>. QED
    BY <1>2, <2>1, <2>5, <2>6
<1>. QED
  BY <1>2, <1>3, <1>4

-----------------------------------------------------------------------------
(* The inductive invariant                                                 *)

Types ==
  /\ owner \in {"down", "listening", "up", "stopping"}
  /\ server \in [Fields -> Fds \cup {None}]
  /\ listening \in BOOLEAN
  /\ listens \in 0..MaxListens
  /\ interrupts \in 0..MaxInterrupts
  /\ open \in SUBSET Fds
  /\ bytes \in 0..interrupts
  /\ reader \in [1..MaxListens -> Fds \cup {None}]
  /\ readable \in [1..MaxListens -> BOOLEAN]
  /\ acceptor \in [at : {"out", "call", "poll", "woke", "take"}, watch : SUBSET Fields, events : SUBSET Fields]
  /\ child \in [Conns -> [at : {"none", "queued", "idle", "reading", "ended", "closed"},
                          fd : Fds \cup {None}, by : 0..MaxListens, shares : BOOLEAN]]

Events ==
  /\ acceptor.events \subseteq acceptor.watch
  /\ acceptor.at # "woke" => acceptor.events = {}

Reads(c) == Live(c) /\ child[c].shares
ReaderOf(c) == reader[child[c].by]

(* A descriptor has one holder: a field of the server, a socket it accepted, or
   those that share the reader of one listen(). *)
OneHolder ==
  /\ \A f, g \in Fields : server[f] # None /\ server[f] = server[g] => f = g
  /\ \A c \in Conns : Live(c) => child[c].fd # None /\ child[c].by \in 1..listens
  /\ \A c, d \in Conns : Live(c) /\ Live(d) /\ child[c].fd = child[d].fd => c = d
  /\ \A c \in Conns, f \in Fields : Live(c) => child[c].fd # server[f]
  /\ \A c, d \in Conns : Live(c) /\ Reads(d) => child[c].fd # ReaderOf(d)
  /\ \A c \in Conns : Reads(c) => ReaderOf(c) # None
  /\ \A c, d \in Conns : Reads(c) /\ Reads(d) /\ ReaderOf(c) = ReaderOf(d) => child[c].by = child[d].by
  /\ \A c \in Conns, f \in Fields :
       Reads(c) /\ ReaderOf(c) = server[f] => f = "cr" /\ child[c].by = listens

OwnerKnows ==
  /\ owner = "down" => \A f \in Fields : server[f] = None
  /\ owner # "down" => listens \in 1..MaxListens
  /\ server["cr"] # None => owner # "down" /\ reader[listens] = server["cr"]

IInv == Types /\ Events /\ OneHolder /\ OwnerKnows /\ open = Owned

(* Owned, without a set of images. *)
Holds(d) ==
  \/ d # None /\ \E f \in Fields : d = server[f]
  \/ \E c \in Conns : Live(c) /\ d = child[c].fd
  \/ d # None /\ \E c \in Conns : Reads(c) /\ d = ReaderOf(c)

OwnedIsHeld == \A d : d \in Owned <=> Holds(d)

LEMMA OwnedIs == Types /\ OneHolder => OwnedIsHeld
<1>. SUFFICES ASSUME Types, OneHolder, NEW d PROVE d \in Owned <=> Holds(d)
  BY DEF OwnedIsHeld
<1>1. \A c \in Conns : Reads(c) => child[c].by \in 1..MaxListens /\ c \in Sharers(child[c].by)
  BY ServerAssumption DEF Types, OneHolder, Reads, Sharers
<1>2. \A h \in 1..MaxListens : Sharers(h) # {} => \E c \in Conns : Reads(c) /\ child[c].by = h
  BY DEF Sharers, Reads
<1>3. d \in {reader[g] : g \in {h \in 1..MaxListens : Sharers(h) # {}}} <=> \E c \in Conns : Reads(c) /\ d = ReaderOf(c)
  <2>1. ASSUME NEW g \in 1..MaxListens, Sharers(g) # {}, d = reader[g]
        PROVE  \E c \in Conns : Reads(c) /\ d = ReaderOf(c)
    BY <1>2, <2>1 DEF ReaderOf
  <2>2. ASSUME NEW c \in Conns, Reads(c), d = ReaderOf(c)
        PROVE  \E g \in 1..MaxListens : Sharers(g) # {} /\ d = reader[g]
    <3>1. child[c].by \in 1..MaxListens /\ Sharers(child[c].by) # {}
      BY <1>1, <2>2
    <3>. QED
      BY <2>2, <3>1 DEF ReaderOf
  <2>. QED
    BY <2>1, <2>2
<1>4. d \in {child[c].fd : c \in {e \in Conns : Live(e)}} <=> \E c \in Conns : Live(c) /\ d = child[c].fd
  OBVIOUS
<1>5. d \in {server[f] : f \in Fields} <=> \E f \in Fields : d = server[f]
  OBVIOUS
<1>. QED
  BY <1>3, <1>4, <1>5 DEF Owned, Holds

LEMMA FieldsAreFive == IsFiniteSet(Fields) /\ Cardinality(Fields) = 5
<1>1. IsFiniteSet({"sock"}) /\ Cardinality({"sock"}) = 1 BY FS_Singleton
<1>2. IsFiniteSet({"sock"} \cup {"iw"}) /\ Cardinality({"sock"} \cup {"iw"}) = 2
  BY <1>1, FS_AddElement
<1>3. IsFiniteSet({"sock"} \cup {"iw"} \cup {"ir"}) /\ Cardinality({"sock"} \cup {"iw"} \cup {"ir"}) = 3
  <2>1. "ir" \notin {"sock"} \cup {"iw"} OBVIOUS
  <2>. QED
    BY <1>2, <2>1, FS_AddElement
<1>4. /\ IsFiniteSet({"sock"} \cup {"iw"} \cup {"ir"} \cup {"cw"})
      /\ Cardinality({"sock"} \cup {"iw"} \cup {"ir"} \cup {"cw"}) = 4
  <2>1. "cw" \notin {"sock"} \cup {"iw"} \cup {"ir"} OBVIOUS
  <2>. QED
    BY <1>3, <2>1, FS_AddElement
<1>5. /\ IsFiniteSet({"sock"} \cup {"iw"} \cup {"ir"} \cup {"cw"} \cup {"cr"})
      /\ Cardinality({"sock"} \cup {"iw"} \cup {"ir"} \cup {"cw"} \cup {"cr"}) = 5
  <2>1. "cr" \notin {"sock"} \cup {"iw"} \cup {"ir"} \cup {"cw"} OBVIOUS
  <2>. QED
    BY <1>4, <2>1, FS_AddElement
<1>6. Fields = {"sock"} \cup {"iw"} \cup {"ir"} \cup {"cw"} \cup {"cr"} BY DEF Fields
<1>. QED
  BY <1>5, <1>6

Living == {c \in Conns : Live(c)}

(* However many descriptors are in use, enough are free. *)
LEMMA InUseIsBounded ==
  ASSUME Types, OneHolder, open = Owned
  PROVE  /\ IsFiniteSet(Fds) /\ IsFiniteSet(open) /\ IsFiniteSet(Living)
         /\ Cardinality(open) <= 5 + Cardinality(Living) + MaxListens
         /\ (\A f \in Fields : server[f] = None) =>
              Cardinality(open) <= Cardinality(Living) + MaxListens
         /\ {Cardinality(open), Cardinality(Living), Cardinality(Conns)} \subseteq Nat
         /\ Cardinality(Fds \ open) = 5 + Cardinality(Conns) + MaxListens - Cardinality(open)
<1>. DEFINE fdOf == [c \in Living |-> child[c].fd]
            A == {server[f] : f \in Fields} \ {None}
<1>1. IsFiniteSet(Conns) /\ Cardinality(Conns) \in Nat /\ MaxListens \in Nat
  BY ServerAssumption, FS_CardinalityType
<1>2. IsFiniteSet(Fds) /\ Cardinality(Fds) = 5 + Cardinality(Conns) + MaxListens
  <2>. DEFINE n == 5 + Cardinality(Conns) + MaxListens
  <2>1. n \in Nat /\ ~(1 > n) /\ n - 1 + 1 = n BY <1>1
  <2>. HIDE DEF n
  <2>2. IsFiniteSet(1..n) /\ Cardinality(1..n) = IF 1 > n THEN 0 ELSE n - 1 + 1
    BY <2>1, FS_Interval
  <2>. QED
    BY <2>1, <2>2 DEF Fds, n
<1>3. open \in SUBSET Fds BY DEF Types
<1>4. IsFiniteSet(open) /\ Cardinality(open) \in Nat
  BY <1>2, <1>3, FS_Subset, FS_CardinalityType
<1>5. Cardinality(Fds \ open) = Cardinality(Fds) - Cardinality(open)
  <2>1. Fds \cap open = open BY <1>3
  <2>2. Cardinality(Fds \ open) = Cardinality(Fds) - Cardinality(Fds \cap open)
    BY <1>2, FS_Difference
  <2>. QED
    BY <2>1, <2>2
<1>6. IsFiniteSet(Living) /\ Cardinality(Living) \in Nat
  <2>1. Living \in SUBSET Conns BY DEF Living
  <2>. QED
    BY <1>1, <2>1, FS_Subset, FS_CardinalityType
<1>7. IsFiniteSet(Range(fdOf)) /\ Cardinality(Range(fdOf)) \in Nat /\ Cardinality(Range(fdOf)) <= Cardinality(Living)
  <2>1. fdOf \in [Living -> Range(fdOf)] BY DEF Range
  <2>. HIDE DEF fdOf
  <2>2. fdOf \in Surjection(Living, Range(fdOf)) BY <2>1, Fun_RangeProperties
  <2>. QED
    BY <1>6, <2>2, FS_Surjection, FS_CardinalityType
<1>8. IsFiniteSet(Range(reader)) /\ Cardinality(Range(reader)) \in Nat /\ Cardinality(Range(reader)) <= MaxListens
  <2>1. IsFiniteSet(1..MaxListens) /\ Cardinality(1..MaxListens) = MaxListens
    <3>1. IsFiniteSet(1..MaxListens) /\ Cardinality(1..MaxListens) = IF 1 > MaxListens THEN 0 ELSE MaxListens - 1 + 1
      BY <1>1, FS_Interval
    <3>. QED
      BY <1>1, <3>1
  <2>2. reader \in Surjection(1..MaxListens, Range(reader)) BY Fun_RangeProperties DEF Types
  <2>. QED
    BY <2>1, <2>2, FS_Surjection, FS_CardinalityType
<1>9. IsFiniteSet(A) /\ Cardinality(A) \in Nat /\ Cardinality(A) <= 5
  <2>1. IsFiniteSet(Fields) /\ Cardinality(Fields) = 5
    BY FieldsAreFive
  <2>2. server \in Surjection(Fields, Range(server)) BY Fun_RangeProperties DEF Types
  <2>3. IsFiniteSet(Range(server)) /\ Cardinality(Range(server)) <= 5 /\ Cardinality(Range(server)) \in Nat
    BY <2>1, <2>2, FS_Surjection, FS_CardinalityType
  <2>4. A \in SUBSET Range(server) BY DEF Range, Types
  <2>. HIDE DEF A
  <2>5. IsFiniteSet(A) /\ Cardinality(A) \in Nat /\ Cardinality(A) <= Cardinality(Range(server))
    BY <2>3, <2>4, FS_Subset, FS_CardinalityType
  <2>. QED
    BY <2>3, <2>5
<1>10. open \in SUBSET (A \cup (Range(fdOf) \cup Range(reader)))
  <2>1. \A d \in {child[c].fd : c \in {e \in Conns : Live(e)}} : d \in Range(fdOf)
    <3>1. \A c \in Living : fdOf[c] \in Range(fdOf) BY DEF Range
    <3>. QED
      BY <3>1 DEF Living
  <2>2. \A d \in {reader[g] : g \in {h \in 1..MaxListens : Sharers(h) # {}}} : d \in Range(reader)
    BY DEF Range, Types
  <2>. QED
    BY <2>1, <2>2 DEF Owned
<1>. DEFINE B == Range(fdOf) \cup Range(reader)
<1>. HIDE DEF fdOf, A
<1>11. IsFiniteSet(B) /\ Cardinality(B) \in Nat /\ Cardinality(B) <= Cardinality(Living) + MaxListens
  <2>1. IsFiniteSet(B) /\ Cardinality(B) = Cardinality(Range(fdOf)) + Cardinality(Range(reader)) - Cardinality(Range(fdOf) \cap Range(reader))
    BY <1>7, <1>8, FS_Union
  <2>2. Cardinality(Range(fdOf) \cap Range(reader)) \in Nat
    BY <1>7, FS_Intersection, FS_CardinalityType
  <2>3. \A k, l, m, n, q \in Nat : k <= n /\ l <= q => k + l - m <= n + q
    OBVIOUS
  <2>4. Cardinality(B) <= Cardinality(Living) + MaxListens
    BY ONLY <1>1, <1>6, <1>7, <1>8, <2>1, <2>2, <2>3
  <2>. QED
    BY <2>1, <2>4, FS_CardinalityType
<1>. HIDE DEF B
<1>12. IsFiniteSet(A \cup B) /\ Cardinality(A \cup B) \in Nat /\ Cardinality(A \cup B) <= 5 + Cardinality(Living) + MaxListens
  <2>1. IsFiniteSet(A \cup B) /\ Cardinality(A \cup B) = Cardinality(A) + Cardinality(B) - Cardinality(A \cap B)
    BY <1>9, <1>11, FS_Union
  <2>2. Cardinality(A \cap B) \in Nat
    BY <1>9, FS_Intersection, FS_CardinalityType
  <2>3. \A k, l, m, n, q \in Nat : k <= 5 /\ l <= n + q => k + l - m <= 5 + n + q
    OBVIOUS
  <2>4. Cardinality(A \cup B) <= 5 + Cardinality(Living) + MaxListens
    BY ONLY <1>1, <1>6, <1>9, <1>11, <2>1, <2>2, <2>3
  <2>. QED
    BY <2>1, <2>4, FS_CardinalityType
<1>13. Cardinality(open) <= 5 + Cardinality(Living) + MaxListens
  <2>1. open \in SUBSET (A \cup B) BY <1>10 DEF B
  <2>2. Cardinality(open) <= Cardinality(A \cup B) BY <1>12, <2>1, FS_Subset
  <2>. QED
    BY <1>1, <1>4, <1>6, <1>12, <2>2
<1>14. ASSUME \A f \in Fields : server[f] = None
       PROVE  Cardinality(open) <= Cardinality(Living) + MaxListens
  <2>1. A = {} BY <1>14 DEF A
  <2>2. open \in SUBSET B BY <1>10, <2>1 DEF B
  <2>3. Cardinality(open) <= Cardinality(B) BY <1>11, <2>2, FS_Subset
  <2>. QED
    BY <1>1, <1>4, <1>6, <1>11, <2>3
<1>. QED
  BY <1>1, <1>2, <1>4, <1>5, <1>6, <1>13, <1>14

(* listen() finds descriptors for all it opens. *)
LEMMA FiveAreFree ==
  ASSUME Types, OneHolder, open = Owned, \A f \in Fields : server[f] = None,
         NEW has \in SUBSET Fields
  PROVE  \E fds : fds \in Bijection(has, Lowest(Cardinality(has)))
<1>1. /\ IsFiniteSet(has) /\ Cardinality(has) \in Nat /\ Cardinality(has) <= 5
  <2>1. IsFiniteSet(Fields) /\ Cardinality(Fields) = 5
    BY FieldsAreFive
  <2>. QED
    BY <2>1, FS_Subset, FS_CardinalityType
<1>2. IsFiniteSet(Fds \ open) /\ Cardinality(has) <= Cardinality(Fds \ open)
  <2>1. Living \in SUBSET Conns /\ Cardinality(Living) <= Cardinality(Conns)
    <3>1. Living \in SUBSET Conns BY DEF Living
    <3>. QED
      BY <3>1, ServerAssumption, FS_Subset
  <2>2. /\ IsFiniteSet(Fds) /\ Cardinality(open) <= Cardinality(Living) + MaxListens
        /\ {Cardinality(open), Cardinality(Living), Cardinality(Conns)} \subseteq Nat
        /\ Cardinality(Fds \ open) = 5 + Cardinality(Conns) + MaxListens - Cardinality(open)
    BY InUseIsBounded
  <2>3. 5 <= Cardinality(Fds \ open)
    BY <2>1, <2>2, ServerAssumption
  <2>4. IsFiniteSet(Fds \ open) /\ Cardinality(Fds \ open) \in Nat
    BY <2>2, FS_Difference, FS_CardinalityType
  <2>. QED
    BY <1>1, <2>3, <2>4
<1>3. Fds \ open \subseteq Nat BY DEF Fds
<1>4. IsFiniteSet(Lowest(Cardinality(has))) /\ Cardinality(Lowest(Cardinality(has))) = Cardinality(has)
  BY <1>1, <1>2, <1>3, LowestAreEnough DEF Lowest, Rank, Below
<1>5. ExistsBijection(has, Lowest(Cardinality(has)))
  BY <1>1, <1>4, FS_SameCardinalityBij
<1>. QED
  BY <1>5, Fun_ExistsBij

(* accept() finds one for the connection. *)
LEMMA OneIsFree ==
  ASSUME Types, OneHolder, open = Owned, NEW c \in Conns, ~Live(c)
  PROVE  LowestFd \in Fds \ open
<1>1. Cardinality(Living) <= Cardinality(Conns) - 1
  <2>1. Living \in SUBSET (Conns \ {c}) BY DEF Living
  <2>2. IsFiniteSet(Conns \ {c}) /\ Cardinality(Conns \ {c}) = Cardinality(Conns) - 1
    BY ServerAssumption, FS_RemoveElement
  <2>. QED
    BY <2>1, <2>2, FS_Subset
<1>2. /\ IsFiniteSet(Fds) /\ Cardinality(open) <= 5 + Cardinality(Living) + MaxListens
      /\ {Cardinality(open), Cardinality(Living), Cardinality(Conns)} \subseteq Nat
      /\ Cardinality(Fds \ open) = 5 + Cardinality(Conns) + MaxListens - Cardinality(open)
  BY InUseIsBounded
<1>3. Cardinality(Fds \ open) # 0
  BY <1>1, <1>2, ServerAssumption
<1>4. Fds \ open # {}
  BY <1>3, FS_EmptySet
<1>5. Fds \ open \subseteq Nat BY DEF Fds
<1>. QED
  BY <1>4, <1>5, Least DEF LowestFd

-----------------------------------------------------------------------------
(* The steps                                                               *)

LEMMA InitInv == Init => IInv
<1>. SUFFICES ASSUME Init PROVE IInv
  OBVIOUS
<1>1. Types
  <2>1. {MaxListens, MaxInterrupts} \subseteq Nat BY ServerAssumption
  <2>2. server \in [Fields -> Fds \cup {None}] /\ reader \in [1..MaxListens -> Fds \cup {None}]
    BY DEF Init
  <2>3. readable \in [1..MaxListens -> BOOLEAN] /\ open \in SUBSET Fds
    BY DEF Init
  <2>4. acceptor \in [at : {"out", "call", "poll", "woke", "take"}, watch : SUBSET Fields, events : SUBSET Fields]
    BY DEF Init
  <2>5. child \in [Conns -> [at : {"none", "queued", "idle", "reading", "ended", "closed"},
                             fd : Fds \cup {None}, by : 0..MaxListens, shares : BOOLEAN]]
    BY <2>1 DEF Init
  <2>6. listens \in 0..MaxListens /\ interrupts \in 0..MaxInterrupts /\ bytes \in 0..interrupts
    BY <2>1 DEF Init
  <2>. QED
    BY <2>2, <2>3, <2>4, <2>5, <2>6 DEF Init, Types
<1>2. Events BY DEF Init, Events
<1>3. \A c \in Conns : ~Live(c) BY DEF Init, Live
<1>4. OneHolder BY <1>3 DEF Init, OneHolder, Reads
<1>5. OwnerKnows BY DEF Init, OwnerKnows, Fields
<1>6. \A d : ~Holds(d) BY <1>3 DEF Init, Holds, Reads, Fields
<1>7. open = Owned
  <2>1. \A d : d \notin Owned BY <1>1, <1>4, <1>6, OwnedIs DEF OwnedIsHeld
  <2>. QED
    BY <2>1 DEF Init
<1>. QED
  BY <1>1, <1>2, <1>4, <1>5, <1>7 DEF IInv

(* A step after which everybody holds what he held. *)
LEMMA SameHolders ==
  ASSUME IInv, Types', Events', UNCHANGED <<server, open, reader, listens>>,
         \A c \in Conns : Live(c)' <=> Live(c),
         \A c \in Conns : Live(c) => /\ child'[c].fd = child[c].fd /\ child'[c].by = child[c].by
                                     /\ child'[c].shares = child[c].shares,
         owner = "down" <=> owner' = "down"
  PROVE  IInv'
<1>1. \A c \in Conns : /\ Reads(c)' <=> Reads(c)
                       /\ Reads(c) => ReaderOf(c)' = ReaderOf(c) /\ Live(c)
  BY DEF Reads, ReaderOf
<1>2. OneHolder'
  <2>1. OneHolder BY DEF IInv
  <2>. QED
    BY <1>1, <2>1 DEF OneHolder
<1>3. OwnerKnows'
  BY DEF IInv, OwnerKnows
<1>4. \A d : Holds(d)' <=> Holds(d)
  BY <1>1 DEF Holds
<1>5. \A d : d \in Owned' <=> Holds(d)'
  <2>1. OwnedIsHeld' BY <1>2, OwnedIs, PTL
  <2>. QED
    BY <2>1 DEF OwnedIsHeld
<1>6. \A d : d \in Owned <=> Holds(d)
  BY OwnedIs DEF IInv, OwnedIsHeld
<1>7. open' = Owned'
  BY <1>4, <1>5, <1>6 DEF IInv
<1>. QED
  BY <1>2, <1>3, <1>7 DEF IInv

(* Everything held is open. *)
LEMMA HeldIsOpen == IInv => \A d : d \in open <=> Holds(d)
BY OwnedIs DEF IInv, OwnedIsHeld

LEMMA HoldersAreOpen ==
  ASSUME IInv
  PROVE  /\ \A f \in Fields : server[f] # None => server[f] \in open
         /\ \A c \in Conns : Live(c) => child[c].fd \in open
         /\ \A c \in Conns : Reads(c) => ReaderOf(c) \in open
<1>1. \A d : Holds(d) => d \in open BY HeldIsOpen
<1>2. \A c \in Conns : Reads(c) => ReaderOf(c) # None BY DEF IInv, OneHolder
<1>3. \A f \in Fields : server[f] # None => Holds(server[f]) BY DEF Holds
<1>4. \A c \in Conns : Live(c) => Holds(child[c].fd) BY DEF Holds
<1>5. \A c \in Conns : Reads(c) => Holds(ReaderOf(c)) BY <1>2 DEF Holds
<1>. QED
  BY <1>1, <1>3, <1>4, <1>5

(* What is to be shown of a step that changes holders. *)
LEMMA Shown ==
  ASSUME Types', Events', OneHolder', OwnerKnows', \A d : d \in open' <=> Holds(d)'
  PROVE  IInv'
<1>1. OwnedIsHeld' BY OwnedIs, PTL
<1>2. \A d : d \in Owned' <=> Holds(d)' BY <1>1 DEF OwnedIsHeld
<1>3. open' = Owned' BY <1>2
<1>. QED
  BY <1>3 DEF IInv

LEMMA ListenInv ==
  ASSUME IInv, Listen
  PROVE  IInv'
<1>1. /\ Types /\ Events /\ OneHolder /\ OwnerKnows /\ open = Owned
      /\ owner = "down" /\ \A f \in Fields : server[f] = None
  BY DEF IInv, Listen, OwnerKnows
<1>2. listens \in Nat /\ listens + 1 \in 1..MaxListens
  BY <1>1, ServerAssumption DEF Listen, Types
<1>3. PICK has \in SUBSET Fields :
        /\ "sock" \in has
        /\ LET fds == CHOOSE fds \in Bijection(has, Lowest(Cardinality(has))) : TRUE
           IN /\ server' = [f \in Fields |-> IF f \in has THEN fds[f] ELSE None]
              /\ open' = open \cup {fds[f] : f \in has}
  BY DEF Listen
<1>. DEFINE fds == CHOOSE fds \in Bijection(has, Lowest(Cardinality(has))) : TRUE
<1>4. fds \in Bijection(has, Lowest(Cardinality(has)))
  <2>1. \E x : x \in Bijection(has, Lowest(Cardinality(has)))
    BY <1>1, FiveAreFree
  <2>. QED
    BY <2>1
<1>5. /\ server' = [f \in Fields |-> IF f \in has THEN fds[f] ELSE None]
      /\ open' = open \cup {fds[f] : f \in has}
  BY <1>3
<1>. HIDE DEF fds
<1>6. /\ \A f \in has : fds[f] \in Fds \ open
      /\ \A f, g \in has : fds[f] = fds[g] => f = g
  <2>. DEFINE L == Lowest(Cardinality(has))
  <2>1. L \subseteq Fds \ open BY DEF Lowest
  <2>2. fds \in Bijection(has, L) BY <1>4
  <2>. HIDE DEF L
  <2>3. fds \in [has -> L] /\ \A f, g \in has : fds[f] = fds[g] => f = g
    BY <2>2, Fun_BijectionProperties
  <2>. QED
    BY <2>1, <2>3
<1>7. /\ owner' = "listening" /\ listening' = TRUE /\ listens' = listens + 1
      /\ interrupts' = 0 /\ bytes' = 0
      /\ reader' = [reader EXCEPT ![listens + 1] = server'["cr"]]
      /\ UNCHANGED <<readable, acceptor, child>>
  BY DEF Listen
<1>8. /\ server' \in [Fields -> Fds \cup {None}]
      /\ \A f \in Fields : server'[f] # None => server'[f] \in Fds \ open /\ f \in has
      /\ \A f, g \in Fields : server'[f] # None /\ server'[f] = server'[g] => f = g
  BY <1>5, <1>6
<1>9. None \notin Fds /\ "cr" \in Fields
  BY DEF Fds, None, Fields
<1>10. Types'
  <2>1. open' \in SUBSET Fds
    BY <1>1, <1>5, <1>6 DEF Types
  <2>2. reader' \in [1..MaxListens -> Fds \cup {None}]
    BY <1>1, <1>2, <1>7, <1>8, <1>9 DEF Types
  <2>3. 0 \in 0..MaxInterrupts /\ 0 \in 0..0 /\ listens' \in 0..MaxListens
    BY <1>2, <1>7, ServerAssumption
  <2>. QED
    BY <1>1, <1>7, <1>8, <2>1, <2>2, <2>3 DEF Types
<1>11. Events'
  BY <1>1, <1>7 DEF Events
<1>12. \A c \in Conns : /\ Live(c)' <=> Live(c)
                        /\ Reads(c)' <=> Reads(c)
                        /\ Reads(c) => Live(c)
                        /\ Live(c) => /\ child[c].by \in 1..listens /\ child'[c].by = child[c].by
                                      /\ child'[c].fd = child[c].fd
                        /\ Reads(c) => ReaderOf(c)' = ReaderOf(c)
  <2>1. \A c \in Conns : /\ Live(c)' <=> Live(c)
                         /\ Reads(c)' <=> Reads(c)
                         /\ Reads(c) => Live(c)
    BY <1>7 DEF Live, Reads
  <2>2. \A c \in Conns : Live(c) => child[c].by \in 1..listens
    BY <1>1 DEF OneHolder
  <2>3. \A g \in 1..listens : reader'[g] = reader[g]
    BY <1>1, <1>2, <1>7 DEF Types
  <2>. QED
    BY <1>7, <2>1, <2>2, <2>3 DEF ReaderOf
<1>13. /\ \A c \in Conns : Live(c) => child[c].fd \in open
       /\ \A c \in Conns : Reads(c) => ReaderOf(c) \in open
  BY HoldersAreOpen
<1>14. OneHolder'
  <2>1. \A f, g \in Fields : server'[f] # None /\ server'[f] = server'[g] => f = g
    BY <1>8
  <2>2. \A c \in Conns : Live(c) => child[c].fd # None /\ child[c].by \in 1..(listens + 1)
    BY <1>1, <1>2, <1>12 DEF OneHolder
  <2>3. \A c, d \in Conns : Live(c) /\ Live(d) /\ child[c].fd = child[d].fd => c = d
    BY <1>1 DEF OneHolder
  <2>4. \A c \in Conns, f \in Fields : Live(c) => child[c].fd # server'[f]
    BY <1>8, <1>13, <2>2
  <2>5. \A c, d \in Conns : Live(c) /\ Reads(d) => child[c].fd # ReaderOf(d)
    BY <1>1 DEF OneHolder
  <2>6. \A c \in Conns : Reads(c) => ReaderOf(c) # None
    BY <1>1 DEF OneHolder
  <2>7. \A c, d \in Conns : Reads(c) /\ Reads(d) /\ ReaderOf(c) = ReaderOf(d) => child[c].by = child[d].by
    BY <1>1 DEF OneHolder
  <2>8. \A c \in Conns, f \in Fields : Reads(c) => ReaderOf(c) # server'[f]
    BY <1>8, <1>13, <2>6
  <2>. QED
    BY <1>7, <1>12, <2>1, <2>2, <2>3, <2>4, <2>5, <2>6, <2>7, <2>8 DEF OneHolder
<1>15. OwnerKnows'
  <2>1. reader'[listens + 1] = server'["cr"]
    BY <1>1, <1>2, <1>7 DEF Types
  <2>. QED
    BY <1>2, <1>7, <2>1 DEF OwnerKnows
<1>16. \A d : d \in open' <=> Holds(d)'
  <2>1. \A d : d \in open <=> Holds(d) BY HeldIsOpen
  <2>2. \A d : Holds(d) <=> \/ \E c \in Conns : Live(c) /\ d = child[c].fd
                            \/ d # None /\ \E c \in Conns : Reads(c) /\ d = ReaderOf(c)
    BY <1>1 DEF Holds
  <2>3. \A d : d \in {fds[f] : f \in has} <=> d # None /\ \E f \in Fields : d = server'[f]
    <3>1. \A f \in has : f \in Fields /\ server'[f] = fds[f] /\ fds[f] # None
      BY <1>5, <1>6, <1>9
    <3>. QED
      BY <1>8, <3>1
  <2>4. \A d : Holds(d)' <=> \/ d # None /\ \E f \in Fields : d = server'[f]
                             \/ \E c \in Conns : Live(c) /\ d = child[c].fd
                             \/ d # None /\ \E c \in Conns : Reads(c) /\ d = ReaderOf(c)
    BY <1>12 DEF Holds
  <2>. QED
    BY <1>5, <2>1, <2>2, <2>3, <2>4
<1>. QED
  BY <1>10, <1>11, <1>14, <1>15, <1>16, Shown

LEMMA CloseAllInv ==
  ASSUME IInv, CloseAll, Types', Events', owner # "down", UNCHANGED <<reader, listens>>,
         \A c \in Conns : Live(c)' <=> Live(c),
         \A c \in Conns : Live(c) => /\ child'[c].fd = child[c].fd /\ child'[c].by = child[c].by
                                     /\ child'[c].shares = child[c].shares
  PROVE  IInv'
<1>1. Types /\ OneHolder /\ OwnerKnows
  BY DEF IInv
<1>2. /\ \A f \in Fields : server'[f] = None
      /\ open' = open \ ({server[f] : f \in Fields \ {"cr"}}
                          \cup IF Sharers(listens) = {} THEN {server["cr"]} ELSE {})
  BY DEF CloseAll
<1>3. \A c \in Conns : /\ Reads(c)' <=> Reads(c)
                       /\ Reads(c) => ReaderOf(c)' = ReaderOf(c) /\ Live(c)
  BY DEF Reads, ReaderOf
<1>4. OneHolder'
  <2>1. \A c \in Conns : Live(c) => child'[c].fd # None /\ child'[c].by \in 1..listens
    BY <1>1 DEF OneHolder
  <2>2. \A c \in Conns : Reads(c) => ReaderOf(c) # None
    BY <1>1 DEF OneHolder
  <2>. QED
    BY <1>1, <1>2, <1>3, <2>1, <2>2 DEF OneHolder
<1>5. OwnerKnows'
  <2>1. listens \in 1..MaxListens BY <1>1 DEF OwnerKnows
  <2>2. "cr" \in Fields BY DEF Fields
  <2>. QED
    BY <1>2, <2>1, <2>2 DEF OwnerKnows
<1>6. \A d : d \in open' <=> Holds(d)'
  <2>1. \A d : d \in open <=> Holds(d) BY HeldIsOpen
  <2>2. \A d : Holds(d)' <=> \/ \E c \in Conns : Live(c) /\ d = child[c].fd
                             \/ d # None /\ \E c \in Conns : Reads(c) /\ d = ReaderOf(c)
    BY <1>2, <1>3 DEF Holds
  <2>3. ASSUME NEW d, d \in open, Holds(d)'
        PROVE  d \in open'
    <3>1. d \notin {server[f] : f \in Fields \ {"cr"}}
      BY <1>1, <2>2, <2>3 DEF OneHolder
    <3>2. ASSUME Sharers(listens) = {} PROVE d # server["cr"]
      <4>1. "cr" \in Fields BY DEF Fields
      <4>2. \A c \in Conns : Reads(c) => child[c].by # listens
        BY <3>2 DEF Sharers, Reads
      <4>. QED
        BY <1>1, <2>2, <2>3, <4>1, <4>2 DEF OneHolder
    <3>. QED
      BY <1>2, <2>3, <3>1, <3>2
  <2>4. ASSUME NEW d, d \in open, ~Holds(d)'
        PROVE  d \notin open'
    <3>1. PICK f \in Fields : d # None /\ d = server[f]
      BY <2>1, <2>2, <2>4 DEF Holds
    <3>2. CASE f # "cr"
      BY <1>2, <3>1, <3>2
    <3>3. CASE f = "cr"
      <4>1. reader[listens] = d BY <1>1, <3>1, <3>3 DEF OwnerKnows
      <4>2. Sharers(listens) = {}
        BY <2>2, <2>4, <3>1, <4>1 DEF Sharers, Reads, ReaderOf
      <4>. QED
        BY <1>2, <3>1, <3>3, <4>2
    <3>. QED
      BY <3>2, <3>3
  <2>5. \A d : Holds(d)' => d \in open
    BY <2>1, <2>2 DEF Holds
  <2>. QED
    BY <1>2, <2>3, <2>4, <2>5
<1>. QED
  BY <1>4, <1>5, <1>6, Shown

LEMMA TakeInv ==
  ASSUME IInv, NEW c \in Conns, Take(c)
  PROVE  IInv'
<1>1. Types /\ Events /\ OneHolder /\ OwnerKnows /\ open = Owned
  BY DEF IInv
<1>. DEFINE fd == LowestFd
<1>2. fd \in Fds \ open
  <2>1. ~Live(c) BY DEF Take, Backlog, Live
  <2>. QED
    BY <1>1, <2>1, OneIsFree
<1>3. None \notin Fds /\ {"sock", "cr"} \subseteq Fields
  BY DEF Fds, None, Fields
<1>4. /\ open' = open \cup {fd}
      /\ child' = [child EXCEPT ![c] = [at |-> "idle", fd |-> fd, by |-> listens,
                      shares |-> Interruptable /\ server["cr"] # None]]
      /\ acceptor' = [acceptor EXCEPT !.at = "call"]
      /\ acceptor.at = "take" /\ server["sock"] # None /\ child[c].at = "queued"
      /\ UNCHANGED <<owner, server, listening, listens, interrupts, bytes, reader, readable>>
  BY DEF Take, Backlog
<1>. HIDE DEF fd
<1>5. listens \in 1..MaxListens /\ MaxListens \in Nat
  BY <1>1, <1>3, <1>4, ServerAssumption DEF OwnerKnows
<1>. DEFINE own == Interruptable /\ server["cr"] # None
<1>6. /\ child'[c].at = "idle" /\ child'[c].fd = fd /\ child'[c].by = listens
      /\ child'[c].shares <=> own
      /\ \A d \in Conns \ {c} : child'[d] = child[d]
  BY <1>1, <1>4 DEF Types
<1>. HIDE DEF own
<1>7. /\ Live(c)' /\ ~Live(c) /\ ~Reads(c) /\ (Reads(c)' <=> own)
      /\ ReaderOf(c)' = reader[listens]
      /\ \A d \in Conns \ {c} : /\ Live(d)' <=> Live(d)
                                /\ Reads(d)' <=> Reads(d)
                                /\ ReaderOf(d)' = ReaderOf(d)
  BY <1>4, <1>6 DEF Live, Reads, ReaderOf
<1>8. own => server["cr"] # None /\ reader[listens] = server["cr"]
  BY <1>1 DEF own, OwnerKnows
<1>9. /\ \A f \in Fields : server[f] # None => server[f] \in open
      /\ \A d \in Conns : Live(d) => child[d].fd \in open
      /\ \A d \in Conns : Reads(d) => ReaderOf(d) \in open /\ Live(d)
  BY HoldersAreOpen DEF Reads
<1>10. Types'
  <2>1. [at |-> "idle", fd |-> fd, by |-> listens, shares |-> Interruptable /\ server["cr"] # None]
          \in [at : {"none", "queued", "idle", "reading", "ended", "closed"},
               fd : Fds \cup {None}, by : 0..MaxListens, shares : BOOLEAN]
    BY <1>2, <1>5
  <2>2. child' \in [Conns -> [at : {"none", "queued", "idle", "reading", "ended", "closed"},
                               fd : Fds \cup {None}, by : 0..MaxListens, shares : BOOLEAN]]
    BY <1>1, <1>4, <2>1 DEF Types
  <2>3. open' \in SUBSET Fds
    BY <1>1, <1>2, <1>4 DEF Types
  <2>. QED
    BY <1>1, <1>4, <2>2, <2>3 DEF Types
<1>11. Events'
  BY <1>1, <1>4 DEF Events, Types
<1>12. OneHolder'
  <2>1. \A d \in Conns : Live(d)' => child'[d].fd # None /\ child'[d].by \in 1..listens
    BY <1>1, <1>2, <1>3, <1>5, <1>6, <1>7 DEF OneHolder
  <2>2. \A d, e \in Conns : Live(d)' /\ Live(e)' /\ child'[d].fd = child'[e].fd => d = e
    <3>1. \A d \in Conns \ {c} : Live(d)' => child'[d].fd # fd
      BY <1>2, <1>6, <1>7, <1>9
    <3>2. \A d, e \in Conns \ {c} : Live(d)' /\ Live(e)' /\ child'[d].fd = child'[e].fd => d = e
      BY <1>1, <1>6, <1>7 DEF OneHolder
    <3>. QED
      BY <1>6, <3>1, <3>2
  <2>3. \A d \in Conns, f \in Fields : Live(d)' => child'[d].fd # server[f]
    BY <1>1, <1>2, <1>3, <1>6, <1>7, <1>9 DEF OneHolder
  <2>4. \A d \in Conns : Reads(d)' => ReaderOf(d)' # fd /\ ReaderOf(d)' # None
    BY <1>1, <1>2, <1>3, <1>7, <1>8, <1>9 DEF OneHolder
  <2>5. \A d, e \in Conns : Live(d)' /\ Reads(e)' => child'[d].fd # ReaderOf(e)'
    <3>1. SUFFICES ASSUME NEW d \in Conns, NEW e \in Conns, d # c, Live(d)', Reads(e)'
                   PROVE  child[d].fd # ReaderOf(e)'
      BY <1>6, <2>4
    <3>2. CASE e = c
      BY <1>1, <1>3, <1>7, <1>8, <3>1, <3>2 DEF OneHolder
    <3>3. CASE e # c
      BY <1>1, <1>7, <3>1, <3>3 DEF OneHolder
    <3>. QED
      BY <3>2, <3>3
  <2>6. \A d \in Conns \ {c} : own /\ Reads(d) /\ ReaderOf(d) = reader[listens] => child[d].by = listens
    BY <1>1, <1>3, <1>8 DEF OneHolder
  <2>7. \A d, e \in Conns : Reads(d)' /\ Reads(e)' /\ ReaderOf(d)' = ReaderOf(e)' => child'[d].by = child'[e].by
    <3>1. \A d, e \in Conns \ {c} : Reads(d) /\ Reads(e) /\ ReaderOf(d) = ReaderOf(e) => child[d].by = child[e].by
      BY <1>1 DEF OneHolder
    <3>. QED
      BY <1>6, <1>7, <2>6, <3>1
  <2>8. \A d \in Conns, f \in Fields : Reads(d)' /\ ReaderOf(d)' = server[f] => f = "cr" /\ child'[d].by = listens
    <3>1. \A f \in Fields : own /\ reader[listens] = server[f] => f = "cr"
      BY <1>1, <1>3, <1>8 DEF OneHolder
    <3>2. \A d \in Conns \ {c}, f \in Fields : Reads(d) /\ ReaderOf(d) = server[f] => f = "cr" /\ child[d].by = listens
      BY <1>1 DEF OneHolder
    <3>. QED
      BY <1>6, <1>7, <3>1, <3>2
  <2>9. \A f, g \in Fields : server[f] # None /\ server[f] = server[g] => f = g
    BY <1>1 DEF OneHolder
  <2>. QED
    BY <1>4, <2>1, <2>2, <2>3, <2>4, <2>5, <2>7, <2>8, <2>9 DEF OneHolder
<1>13. OwnerKnows'
  BY <1>1, <1>4 DEF OwnerKnows
<1>14. \A d : d \in open' <=> Holds(d)'
  <2>1. \A d : d \in open <=> Holds(d) BY HeldIsOpen
  <2>2. \A d : (\E e \in Conns : Live(e)' /\ d = child'[e].fd)
                 <=> d = fd \/ \E e \in Conns : Live(e) /\ d = child[e].fd
    BY <1>6, <1>7
  <2>3. \A d : (\E e \in Conns : Reads(e)' /\ d = ReaderOf(e)')
                 <=> (own /\ d = reader[listens]) \/ \E e \in Conns : Reads(e) /\ d = ReaderOf(e)
    BY <1>7
  <2>4. \A d : Holds(d)' <=> d = fd \/ Holds(d)
    BY <1>2, <1>3, <1>4, <1>8, <2>2, <2>3 DEF Holds
  <2>. QED
    BY <1>4, <2>1, <2>4
<1>. QED
  BY <1>10, <1>11, <1>12, <1>13, <1>14, Shown

LEMMA ChildCloseInv ==
  ASSUME IInv, NEW c \in Conns, ChildClose(c)
  PROVE  IInv'
<1>1. Types /\ Events /\ OneHolder /\ OwnerKnows /\ open = Owned
  BY DEF IInv
<1>. DEFINE g == child[c].by
            last == Sharers(g) = {c} /\ ~ServerShares(g)
<1>2. /\ child[c].at = "ended"
      /\ open' = open \ ({child[c].fd} \cup IF last THEN {reader[g]} ELSE {})
      /\ child' = [child EXCEPT ![c].at = "closed"]
      /\ UNCHANGED <<owner, server, listening, listens, interrupts, bytes, reader, readable, acceptor>>
  BY DEF ChildClose
<1>. HIDE DEF last
<1>3. /\ child'[c].at = "closed"
      /\ \A d \in Conns \ {c} : child'[d] = child[d]
  BY <1>1, <1>2 DEF Types
<1>4. /\ ~Live(c)' /\ ~Reads(c)' /\ Live(c)
      /\ \A d \in Conns \ {c} : /\ Live(d)' <=> Live(d)
                                /\ Reads(d)' <=> Reads(d)
                                /\ ReaderOf(d)' = ReaderOf(d)
  BY <1>2, <1>3 DEF Live, Reads, ReaderOf
<1>5. Types'
  <2>1. child' \in [Conns -> [at : {"none", "queued", "idle", "reading", "ended", "closed"},
                               fd : Fds \cup {None}, by : 0..MaxListens, shares : BOOLEAN]]
    BY <1>1, <1>2 DEF Types
  <2>2. open' \in SUBSET Fds
    BY <1>1, <1>2 DEF Types
  <2>. QED
    BY <1>1, <1>2, <2>1, <2>2 DEF Types
<1>6. Events'
  BY <1>1, <1>2 DEF Events
<1>7. OneHolder'
  BY <1>1, <1>2, <1>3, <1>4 DEF OneHolder
<1>8. OwnerKnows'
  BY <1>1, <1>2 DEF OwnerKnows
<1>9. \A d : d \in open' <=> Holds(d)'
  <2>1. \A d : d \in open <=> Holds(d) BY HeldIsOpen
  <2>2. \A d : Holds(d)' <=> \/ d # None /\ \E f \in Fields : d = server[f]
                             \/ \E e \in Conns \ {c} : Live(e) /\ d = child[e].fd
                             \/ d # None /\ \E e \in Conns \ {c} : Reads(e) /\ d = ReaderOf(e)
    BY <1>2, <1>3, <1>4 DEF Holds
  <2>3. last <=> /\ Reads(c)
                 /\ \A e \in Conns \ {c} : ~(Reads(e) /\ child[e].by = g)
                 /\ ~(g = listens /\ server["cr"] # None)
    BY <1>4 DEF last, Sharers, ServerShares, Reads
  <2>4. last => reader[g] = ReaderOf(c)
    BY DEF ReaderOf
  <2>. HIDE DEF g
  <2>5. "cr" \in Fields BY DEF Fields
  <2>6. ASSUME NEW d, Holds(d)'
        PROVE  d \in open'
    <3>1. d \in open BY <2>1, <2>2, <2>6 DEF Holds
    <3>2. d # child[c].fd
      BY <1>1, <1>4, <2>2, <2>6 DEF OneHolder
    <3>3. ASSUME last PROVE d # ReaderOf(c)
      <4>1. Reads(c) /\ ReaderOf(c) # None BY <1>1, <2>3, <3>3 DEF OneHolder
      <4>2. \A f \in Fields : ReaderOf(c) # server[f]
        BY <1>1, <2>3, <3>3, <4>1 DEF OneHolder, g
      <4>3. \A e \in Conns : Live(e) => child[e].fd # ReaderOf(c)
        BY <1>1, <4>1 DEF OneHolder
      <4>4. \A e \in Conns \ {c} : Reads(e) => ReaderOf(e) # ReaderOf(c)
        BY <1>1, <2>3, <3>3, <4>1 DEF OneHolder, g
      <4>. QED
        BY <2>2, <2>6, <4>2, <4>3, <4>4
    <3>. QED
      BY <1>2, <2>4, <3>1, <3>2, <3>3
  <2>7. ASSUME NEW d, d \in open, ~Holds(d)'
        PROVE  d \notin open'
    <3>1. Holds(d) BY <2>1, <2>7
    <3>2. CASE d = child[c].fd
      BY <1>2, <3>2
    <3>3. CASE d # child[c].fd
      <4>1. d # None /\ Reads(c) /\ d = ReaderOf(c)
        BY <2>2, <2>7, <3>1, <3>3 DEF Holds
      <4>2. \A e \in Conns \ {c} : ~(Reads(e) /\ child[e].by = g)
        BY <2>2, <2>7, <4>1 DEF ReaderOf, g
      <4>3. ~(g = listens /\ server["cr"] # None)
        BY <1>1, <2>2, <2>5, <2>7, <4>1 DEF OwnerKnows, ReaderOf, g
      <4>4. last BY <2>3, <4>1, <4>2, <4>3
      <4>. QED
        BY <1>2, <2>4, <4>1, <4>4
    <3>. QED
      BY <3>2, <3>3
  <2>. QED
    BY <1>2, <2>6, <2>7
<1>. QED
  BY <1>5, <1>6, <1>7, <1>8, <1>9, Shown

(* The steps that move a thread and leave every descriptor with its holder. *)
LEMMA QuietInv ==
  ASSUME IInv,
         \/ ListenReturns \/ Interrupt \/ InterruptChildren
         \/ AcceptCall \/ PollReturns \/ PollEnds \/ Woke
  PROVE  IInv'
<1>1. Types /\ Events /\ MaxInterrupts \in Nat /\ MaxListens \in Nat
  BY ServerAssumption DEF IInv
<1>2. /\ UNCHANGED <<server, open, reader, listens, child>>
      /\ owner = "down" <=> owner' = "down"
  BY DEF ListenReturns, Interrupt, InterruptChildren, AcceptCall, PollReturns, PollEnds, Woke
<1>3. owner' \in {"down", "listening", "up", "stopping"} /\ listening' = listening
  BY <1>1 DEF ListenReturns, Interrupt, InterruptChildren, AcceptCall, PollReturns, PollEnds, Woke, Types
<1>4. interrupts' \in 0..MaxInterrupts /\ bytes' \in 0..interrupts'
  <2>1. interrupts \in 0..MaxInterrupts /\ bytes \in 0..interrupts
    BY <1>1 DEF Types
  <2>2. \/ interrupts' = interrupts /\ bytes' \in {bytes, IF bytes > 0 THEN bytes - 1 ELSE bytes}
        \/ /\ interrupts < MaxInterrupts /\ interrupts' = interrupts + 1
           /\ bytes' \in {bytes, bytes + 1}
    BY DEF ListenReturns, Interrupt, InterruptChildren, AcceptCall, PollReturns, PollEnds, Woke
  <2>. QED
    BY <1>1, <2>1, <2>2
<1>5. readable' \in [1..MaxListens -> BOOLEAN]
  BY <1>1 DEF ListenReturns, Interrupt, InterruptChildren, AcceptCall, PollReturns, PollEnds, Woke, Types
<1>6. /\ acceptor' \in [at : {"out", "call", "poll", "woke", "take"}, watch : SUBSET Fields, events : SUBSET Fields]
      /\ Events'
  <2>1. acceptor \in [at : {"out", "call", "poll", "woke", "take"}, watch : SUBSET Fields, events : SUBSET Fields]
    BY <1>1 DEF Types
  <2>2. Watched \subseteq Fields /\ Ready \subseteq acceptor.watch
    BY DEF Watched, Ready, Fields
  <2>3. CASE UNCHANGED acceptor
    BY <1>1, <2>1, <2>3 DEF Events
  <2>4. CASE acceptor' = [at |-> "call", watch |-> {}, events |-> {}]
    BY <2>4 DEF Events
  <2>5. CASE AcceptCall
    BY <1>1, <2>1, <2>2, <2>5 DEF Events, AcceptCall
  <2>6. CASE PollReturns
    BY <1>1, <2>1, <2>2, <2>6 DEF Events, PollReturns
  <2>7. CASE PollEnds
    BY <1>1, <2>1, <2>7 DEF Events, PollEnds
  <2>8. CASE Woke
    BY <1>1, <2>1, <2>2, <2>8 DEF Events, Woke
  <2>. QED
    BY <2>3, <2>4, <2>5, <2>6, <2>7, <2>8 DEF ListenReturns, Interrupt, InterruptChildren
<1>7. Types'
  BY <1>1, <1>2, <1>3, <1>4, <1>5, <1>6 DEF Types
<1>8. \A c \in Conns : Live(c)' <=> Live(c)
  BY <1>2 DEF Live
<1>. QED
  BY <1>2, <1>6, <1>7, <1>8, SameHolders

(* A connection moves on, and the accepting thread with it or not. *)
LEMMA ConnInv ==
  ASSUME IInv, NEW c \in Conns, NEW at \in {"none", "queued", "idle", "reading", "ended", "closed"},
         child[c].at \in {"none", "queued"} => at \in {"queued", "closed"},
         child[c].at \in {"idle", "reading", "ended"} => at \in {"idle", "reading", "ended"},
         child[c].at # "closed",
         child' = [child EXCEPT ![c].at = at],
         UNCHANGED acceptor \/ (acceptor.at # "woke" /\ acceptor' = [acceptor EXCEPT !.at = "call"]),
         UNCHANGED <<owner, server, listening, listens, interrupts, open, bytes, reader, readable>>
  PROVE  IInv'
<1>1. Types /\ Events
  BY DEF IInv
<1>2. child' \in [Conns -> [at : {"none", "queued", "idle", "reading", "ended", "closed"},
                             fd : Fds \cup {None}, by : 0..MaxListens, shares : BOOLEAN]]
  BY <1>1 DEF Types
<1>3. acceptor' \in [at : {"out", "call", "poll", "woke", "take"}, watch : SUBSET Fields, events : SUBSET Fields]
  BY <1>1 DEF Types
<1>4. Types'
  BY <1>1, <1>2, <1>3 DEF Types
<1>5. Events'
  BY <1>1 DEF Events, Types
<1>6. \A d \in Conns : /\ child'[d].fd = child[d].fd /\ child'[d].by = child[d].by
                       /\ child'[d].shares = child[d].shares
                       /\ child'[d].at = IF d = c THEN at ELSE child[d].at
  BY <1>1 DEF Types
<1>7. \A d \in Conns : Live(d)' <=> Live(d)
  <2>1. child[c].at \in {"none", "queued", "idle", "reading", "ended", "closed"}
    BY <1>1 DEF Types
  <2>. QED
    BY <1>6, <2>1 DEF Live
<1>. QED
  BY <1>4, <1>5, <1>6, <1>7, SameHolders

LEMMA NextInv == IInv /\ [Next]_vars => IInv'
<1>. SUFFICES ASSUME IInv, [Next]_vars PROVE IInv'
  OBVIOUS
<1>1. CASE Listen
  BY <1>1, ListenInv
<1>2. CASE ListenReturns \/ Interrupt \/ InterruptChildren \/ AcceptCall \/ PollReturns \/ PollEnds \/ Woke
  BY <1>2, QuietInv
<1>3. Types /\ Events
  BY DEF IInv
<1>4. ASSUME CloseAll, listens \in 1..MaxListens
      PROVE  /\ server' \in [Fields -> Fds \cup {None}] /\ open' \in SUBSET Fds
             /\ listening' \in BOOLEAN /\ readable' \in [1..MaxListens -> BOOLEAN]
  BY <1>3, <1>4 DEF CloseAll, Types
<1>5. owner # "down" => listens \in 1..MaxListens
  BY DEF IInv, OwnerKnows
<1>6. CASE ListenFails
  <2>1. /\ CloseAll /\ owner # "down" /\ owner' = "down"
        /\ UNCHANGED <<listens, interrupts, bytes, reader, acceptor, child>>
    BY <1>6 DEF ListenFails
  <2>2. Types' /\ Events'
    BY <1>3, <1>4, <1>5, <2>1 DEF Types, Events
  <2>3. \A c \in Conns : Live(c)' <=> Live(c)
    BY <2>1 DEF Live
  <2>. QED
    BY <2>1, <2>2, <2>3, CloseAllInv
<1>7. CASE Close
  <2>1. /\ CloseAll /\ owner # "down" /\ owner' = "down"
        /\ child' = [c \in Conns |-> IF child[c].at = "queued" THEN [child[c] EXCEPT !.at = "closed"]
                                      ELSE child[c]]
        /\ UNCHANGED <<listens, interrupts, bytes, reader, acceptor>>
    BY <1>7 DEF Close
  <2>2. child' \in [Conns -> [at : {"none", "queued", "idle", "reading", "ended", "closed"},
                               fd : Fds \cup {None}, by : 0..MaxListens, shares : BOOLEAN]]
    BY <1>3, <2>1 DEF Types
  <2>3. Types' /\ Events'
    BY <1>3, <1>4, <1>5, <2>1, <2>2 DEF Types, Events
  <2>4. \A c \in Conns : /\ Live(c)' <=> Live(c)
                         /\ Live(c) => child'[c] = child[c]
    <3>1. \A c \in Conns : child[c].at = "queued" => child'[c].at = "closed"
      BY <1>3, <2>1 DEF Types
    <3>2. \A c \in Conns : child[c].at # "queued" => child'[c] = child[c]
      BY <2>1
    <3>. QED
      BY <3>1, <3>2 DEF Live
  <2>. QED
    BY <2>1, <2>3, <2>4, CloseAllInv
<1>8. ASSUME NEW c \in Conns, Connect(c) \/ Reset(c) \/ ChildRead(c) \/ ChildData(c) \/ ChildEnds(c)
      PROVE  IInv'
  <2>1. UNCHANGED <<owner, server, listening, listens, interrupts, open, bytes, reader, readable, acceptor>>
    BY <1>8 DEF Connect, Reset, ChildRead, ChildData, ChildEnds
  <2>2. CASE child[c].at \in {"none", "queued"}
    <3>1. child' = [child EXCEPT ![c].at = "queued"] \/ child' = [child EXCEPT ![c].at = "closed"]
      BY <1>8, <2>2 DEF Connect, Reset, ChildRead, ChildData, ChildEnds
    <3>. QED
      BY <2>1, <2>2, <3>1, ConnInv
  <2>3. CASE child[c].at \in {"idle", "reading", "ended"}
    <3>1. \/ child' = [child EXCEPT ![c].at = "reading"] \/ child' = [child EXCEPT ![c].at = "idle"]
          \/ child' = [child EXCEPT ![c].at = "ended"]
      BY <1>8, <2>3 DEF Connect, Reset, ChildRead, ChildData, ChildEnds
    <3>. QED
      BY <2>1, <2>3, <3>1, ConnInv
  <2>. QED
    BY <1>8, <2>2, <2>3 DEF Connect, Reset, ChildRead, ChildData, ChildEnds
<1>9. ASSUME NEW c \in Conns, Take(c) PROVE IInv'
  BY <1>9, TakeInv
<1>10. ASSUME NEW c \in Conns, ChildClose(c) PROVE IInv'
  BY <1>10, ChildCloseInv
<1>11. CASE TakeFails
  <2>1. /\ acceptor.at # "woke" /\ acceptor' = [acceptor EXCEPT !.at = "call"]
        /\ UNCHANGED <<owner, server, listening, listens, interrupts, open, bytes, reader, readable>>
    BY <1>11 DEF TakeFails
  <2>2. CASE UNCHANGED child
    <3>1. Types'
      BY <1>3, <2>1, <2>2 DEF Types
    <3>2. Events'
      BY <1>3, <2>1 DEF Types, Events
    <3>3. \A c \in Conns : Live(c)' <=> Live(c)
      BY <2>2 DEF Live
    <3>. QED
      BY <2>1, <2>2, <3>1, <3>2, <3>3, SameHolders
  <2>3. ASSUME NEW c \in Backlog, child' = [child EXCEPT ![c].at = "closed"] PROVE IInv'
    <3>1. c \in Conns /\ child[c].at = "queued" BY DEF Backlog
    <3>. QED
      BY <2>1, <2>3, <3>1, ConnInv
  <2>. QED
    BY <1>11, <2>2, <2>3 DEF TakeFails
<1>12. CASE UNCHANGED vars
  <2>1. Types' /\ Events'
    BY <1>3, <1>12 DEF vars, Types, Events
  <2>2. \A c \in Conns : Live(c)' <=> Live(c)
    BY <1>12 DEF vars, Live
  <2>. QED
    BY <1>12, <2>1, <2>2, SameHolders DEF vars
<1>. QED
  BY <1>1, <1>2, <1>6, <1>7, <1>8, <1>9, <1>10, <1>11, <1>12 DEF Next, AcceptorSteps

-----------------------------------------------------------------------------
(* The result                                                              *)

(* What the process has open is what the server and the sockets it accepted
   hold, in whatever order the owner, the accepting thread, the reading threads
   and the clients move: listen() that fails half-way, close() and the deletion
   of a TcpSocket leak nothing, and none of them closes the interrupting reader
   under a socket that shares it, or a number that has a new holder by then. *)
THEOREM NoDescriptorLeaks == Spec => []OpenIsOwned
<1>1. IInv => OpenIsOwned
  <2>1. Types /\ Events => TypeOK
    <3>. SUFFICES ASSUME Types, Events PROVE TypeOK
      OBVIOUS
    <3>1. bytes \in 0..MaxInterrupts
      BY ServerAssumption DEF Types
    <3>. QED
      BY <3>1 DEF Types, Events, TypeOK
  <2>. QED
    BY <2>1 DEF IInv, OpenIsOwned
<1>. QED
  BY <1>1, InitInv, NextInv, PTL DEF Spec
=============================================================================
