------------------------ MODULE ConnectionPoolProofs ------------------------
(***************************************************************************)
(* Proofs about the connection pool, for any number of keys, transports    *)
(* and owners and any limits.                                              *)
(***************************************************************************)
EXTENDS ConnectionPool, FiniteSetTheorems, WellFoundedInduction, TLAPS

(***************************************************************************)
(* Queues.                                                                 *)
(***************************************************************************)
\* Every non-empty set of naturals has a least element.
LEMMA LeastNatural ==
  ASSUME NEW T, T \subseteq Nat, T # {}
  PROVE  \E x \in T : \A y \in T : x <= y
<1>1. PICK x \in T : \A y \in T : ~(<<y, x>> \in OpToRel(<, Nat))
  BY NatLessThanWellFounded, WFMin, Zenon
<1>2. ASSUME NEW y \in T, y < x PROVE FALSE
  <2>1. <<y, x>> \in OpToRel(<, Nat)
    BY <1>2 DEF OpToRel
  <2> QED BY <2>1, <1>1
<1>3. \A y \in T : x <= y
  BY <1>2
<1> QED BY <1>3

\* A set of queue positions can be listed in increasing order, so the
\* subsequence the scans of checkout_matching and prune_expired leave exists.
LEMMA EnumerationExists ==
  ASSUME NEW n \in Nat, NEW I \in SUBSET (1..n)
  PROVE  IsFiniteSet(I) /\ Enumerations(I) # {}
<1> DEFINE Bad == {m \in Nat : \E J \in SUBSET (1..m) : Enumerations(J) = {}}
<1> HIDE DEF Bad
<1>1. ASSUME NEW m \in Nat, NEW J \in SUBSET (1..m)
      PROVE  IsFiniteSet(J) /\ Cardinality(J) \in Nat
  <2>1. 1 \in Int /\ m \in Int
    OBVIOUS
  <2>2. IsFiniteSet(1..m)
    BY <2>1, FS_Interval
  <2>3. IsFiniteSet(J)
    BY <2>2, FS_Subset
  <2> QED BY <2>3, FS_CardinalityType
<1>2. Bad = {}
  <2> SUFFICES ASSUME Bad # {} PROVE FALSE
    OBVIOUS
  <2>1. PICK m \in Bad : \A y \in Bad : m <= y
    BY LeastNatural DEF Bad
  <2>2. PICK J \in SUBSET (1..m) : Enumerations(J) = {}
    BY DEF Bad
  <2>3. m \in Nat /\ IsFiniteSet(J) /\ Cardinality(J) \in Nat
    BY <1>1 DEF Bad
  <2>4. CASE m \in J
    <3> DEFINE K == J \ {m}
               c == Cardinality(J)
    <3>1. m \in 1..m /\ m - 1 \in Nat /\ K \in SUBSET (1..(m - 1))
      BY <2>3, <2>4
    <3>2. Cardinality(K) = c - 1 /\ c \in Nat /\ c - 1 \in Nat
      <4>1. Cardinality(K) = c - 1
        BY <2>3, <2>4, FS_RemoveElement
      <4>2. Cardinality(K) \in Nat
        BY <1>1, <3>1
      <4> QED BY <4>1, <4>2, <2>3
    <3>3. m - 1 \notin Bad
      BY <2>1, <2>3
    <3>4. PICK g : g \in Enumerations(K)
      BY <3>1, <3>3 DEF Bad
    <3> HIDE DEF K, c
    <3>5. /\ g \in [1..(c - 1) -> K]
          /\ \A i, j \in 1..(c - 1) : i < j => g[i] < g[j]
      BY <3>4, <3>2 DEF Enumerations
    <3>6. K \subseteq J /\ \A x \in K : x \in Nat /\ x < m
      BY <3>1, <2>3 DEF K
    <3> DEFINE f == [i \in 1..c |-> IF i = c THEN m ELSE g[i]]
    <3>7. \A i \in 1..c : i # c => i \in 1..(c - 1)
      BY <3>2
    <3>8. f \in [1..c -> J]
      BY <3>5, <3>6, <3>7, <2>4
    <3>9. ASSUME NEW i \in 1..c, NEW j \in 1..c, i < j PROVE f[i] < f[j]
      <4>1. i \in 1..(c - 1)
        BY <3>9, <3>2
      <4>2. CASE j = c
        <5>1. g[i] \in K /\ f[i] = g[i] /\ f[j] = m
          BY <4>1, <4>2, <3>5, <3>2
        <5> QED BY <5>1, <3>6
      <4>3. CASE j # c
        <5>1. j \in 1..(c - 1)
          BY <4>3, <3>7
        <5> QED BY <5>1, <4>1, <3>5, <3>9, <3>2
      <4> QED BY <4>2, <4>3
    <3>10. f \in Enumerations(J)
      BY <3>8, <3>9 DEF Enumerations, c
    <3> QED BY <3>10, <2>2
  <2>5. CASE m \notin J /\ m = 0
    <3>1. J = {}
      BY <2>5
    <3>2. [i \in 1..0 |-> 0] \in Enumerations(J)
      BY <3>1, FS_EmptySet DEF Enumerations
    <3> QED BY <3>2, <2>2
  <2>6. CASE m \notin J /\ m # 0
    <3>1. m - 1 \in Nat /\ J \in SUBSET (1..(m - 1))
      BY <2>3, <2>6
    <3>2. m - 1 \in Bad
      BY <3>1, <2>2 DEF Bad
    <3> QED BY <3>2, <2>1, <2>3
  <2> QED BY <2>4, <2>5, <2>6
<1> QED BY <1>1, <1>2 DEF Bad

\* Keep leaves entries of the queue, in their order.
LEMMA KeepSubsequence ==
  ASSUME NEW S, NEW q \in Seq(S), NEW I \in SUBSET (1..Len(q))
  PROVE  /\ Keep(q, I) \in Seq(S)
         /\ \E f \in [1..Len(Keep(q, I)) -> I] :
              /\ \A i \in 1..Len(Keep(q, I)) : Keep(q, I)[i] = q[f[i]]
              /\ \A i, j \in 1..Len(Keep(q, I)) : i < j => f[i] < f[j]
<1> DEFINE c == Cardinality(I)
           f == CHOOSE g \in Enumerations(I) : TRUE
<1>1. Len(q) \in Nat /\ Enumerations(I) # {} /\ IsFiniteSet(I)
  <2>1. Len(q) \in Nat
    OBVIOUS
  <2> QED BY <2>1, EnumerationExists
<1>2. f \in Enumerations(I)
  BY <1>1
<1>3. c \in Nat
  BY <1>1, FS_CardinalityType
<1> HIDE DEF f, c
<1>4. f \in [1..c -> I] /\ \A i, j \in 1..c : i < j => f[i] < f[j]
  BY <1>2 DEF Enumerations, c
<1>5. Keep(q, I) = [i \in 1..c |-> q[f[i]]]
  BY DEF Keep, f, c
<1>6. \A i \in 1..c : q[f[i]] \in S
  <2> TAKE i \in 1..c
  <2>1. f[i] \in 1..Len(q)
    BY <1>4
  <2> QED BY <2>1
<1>7. Keep(q, I) \in Seq(S) /\ Len(Keep(q, I)) = c
  BY <1>3, <1>5, <1>6
<1> QED BY <1>4, <1>5, <1>7

(***************************************************************************)
(* Counting owners.  A step changes the handle of one slot at most.        *)
(***************************************************************************)
OnlySlot(s) == \A t \in Slots : t # s => handle'[t] = handle[t]
CountsFor(r, k) == r.kind \in HolderKinds /\ r.key = k
PermitFor(r, c) == r.kind \in {"clone", "permit"} /\ r.conn = c
Unit(b) == IF b THEN 1 ELSE 0

\* Changing one member of a finite set's universe changes its size by at most one.
LEMMA CountChange ==
  ASSUME NEW A, NEW B, NEW s, A \subseteq Slots, B \subseteq Slots, s \in Slots,
         \A t \in Slots : t # s => (t \in A <=> t \in B)
  PROVE  /\ Cardinality(A) \in Nat /\ Cardinality(B) \in Nat
         /\ s \in A => Cardinality(A) >= 1
         /\ Cardinality(B) = Cardinality(A) + Unit(s \in B) - Unit(s \in A)
<1>1. IsFiniteSet(A) /\ IsFiniteSet(B)
  BY FiniteAssumption, FS_Subset
<1>2. Cardinality(A) \in Nat /\ Cardinality(B) \in Nat
  BY <1>1, FS_CardinalityType
<1>3. s \in A => Cardinality(A) >= 1
  BY <1>1, <1>2, FS_EmptySet
<1>4. CASE s \in A /\ s \in B
  <2>1. A = B
    BY <1>4
  <2> QED BY <1>2, <1>3, <1>4, <2>1 DEF Unit
<1>5. CASE s \notin A /\ s \notin B
  <2>1. A = B
    BY <1>5
  <2> QED BY <1>2, <1>3, <1>5, <2>1 DEF Unit
<1>6. CASE s \in A /\ s \notin B
  <2>1. B = A \ {s}
    BY <1>6
  <2>2. Cardinality(B) = Cardinality(A) - 1
    BY <1>1, <1>6, <2>1, FS_RemoveElement
  <2> QED BY <1>2, <1>3, <1>6, <2>2 DEF Unit
<1>7. CASE s \notin A /\ s \in B
  <2>1. B = A \cup {s}
    BY <1>7
  <2>2. Cardinality(B) = Cardinality(A) + 1
    BY <1>1, <1>7, <2>1, FS_AddElement
  <2> QED BY <1>2, <1>3, <1>7, <2>2 DEF Unit
<1> QED BY <1>4, <1>5, <1>6, <1>7

\* A step that changes one slot moves the number of handles counted for a
\* key by what that slot's handle gained or lost.
LEMMA HoldersCount ==
  ASSUME NEW s \in Slots, OnlySlot(s), NEW k
  PROVE  /\ Cardinality(Holders(k)) \in Nat /\ Cardinality(Holders(k)') \in Nat
         /\ CountsFor(handle[s], k) => Cardinality(Holders(k)) >= 1
         /\ Cardinality(Holders(k)') =
              Cardinality(Holders(k)) + Unit(CountsFor(handle'[s], k)) - Unit(CountsFor(handle[s], k))
<1> DEFINE A == Holders(k)
           B == Holders(k)'
<1>1. A \subseteq Slots /\ B \subseteq Slots
  BY DEF Holders
<1>2. \A t \in Slots : t # s => (t \in A <=> t \in B)
  BY DEF Holders, OnlySlot
<1>3. (s \in A <=> CountsFor(handle[s], k)) /\ (s \in B <=> CountsFor(handle'[s], k))
  BY DEF Holders, CountsFor
<1> HIDE DEF A, B
<1>4. /\ Cardinality(A) \in Nat /\ Cardinality(B) \in Nat
      /\ s \in A => Cardinality(A) >= 1
      /\ Cardinality(B) = Cardinality(A) + Unit(s \in B) - Unit(s \in A)
  BY <1>1, <1>2, CountChange
<1>5. /\ Cardinality(A) \in Nat /\ Cardinality(B) \in Nat
      /\ CountsFor(handle[s], k) => Cardinality(A) >= 1
      /\ Cardinality(B) = Cardinality(A) + Unit(CountsFor(handle'[s], k)) - Unit(CountsFor(handle[s], k))
  BY <1>3, <1>4 DEF Unit
<1> QED BY <1>5 DEF A, B

\* The same for the stream permits held on one transport.
LEMMA PermitCount ==
  ASSUME NEW s \in Slots, OnlySlot(s), NEW c
  PROVE  /\ Cardinality(PermitHolders(c)) \in Nat /\ Cardinality(PermitHolders(c)') \in Nat
         /\ PermitFor(handle[s], c) => Cardinality(PermitHolders(c)) >= 1
         /\ Cardinality(PermitHolders(c)') =
              Cardinality(PermitHolders(c)) + Unit(PermitFor(handle'[s], c)) - Unit(PermitFor(handle[s], c))
<1> DEFINE A == PermitHolders(c)
           B == PermitHolders(c)'
<1>1. A \subseteq Slots /\ B \subseteq Slots
  BY DEF PermitHolders
<1>2. \A t \in Slots : t # s => (t \in A <=> t \in B)
  BY DEF PermitHolders, OnlySlot
<1>3. (s \in A <=> PermitFor(handle[s], c)) /\ (s \in B <=> PermitFor(handle'[s], c))
  BY DEF PermitHolders, PermitFor
<1> HIDE DEF A, B
<1>4. /\ Cardinality(A) \in Nat /\ Cardinality(B) \in Nat
      /\ s \in A => Cardinality(A) >= 1
      /\ Cardinality(B) = Cardinality(A) + Unit(s \in B) - Unit(s \in A)
  BY <1>1, <1>2, CountChange
<1>5. /\ Cardinality(A) \in Nat /\ Cardinality(B) \in Nat
      /\ PermitFor(handle[s], c) => Cardinality(A) >= 1
      /\ Cardinality(B) = Cardinality(A) + Unit(PermitFor(handle'[s], c)) - Unit(PermitFor(handle[s], c))
  BY <1>3, <1>4 DEF Unit
<1> QED BY <1>5 DEF A, B

\* checkout_matching's scan stops at a usable entry, or at none: Hit is defined.
LEMMA HitDefined ==
  ASSUME NEW q \in Seq(Entry), NEW M
  PROVE  /\ Hit(q, M) \in 0..Len(q)
         /\ Hit(q, M) > 0 => Usable(q, M, Hit(q, M))
         /\ \A i \in (Hit(q, M) + 1)..Len(q) : ~Usable(q, M, i)
<1> DEFINE T == {h \in 0..Len(q) : \A i \in (h + 1)..Len(q) : ~Usable(q, M, i)}
<1>1. Len(q) \in T /\ T \subseteq Nat
  OBVIOUS
<1>2. PICK h \in T : \A y \in T : h <= y
  BY <1>1, LeastNatural
<1>3. h > 0 => Usable(q, M, h)
  <2> SUFFICES ASSUME h > 0, ~Usable(q, M, h) PROVE FALSE
    OBVIOUS
  <2>1. \A i \in ((h - 1) + 1)..Len(q) : i = h \/ i \in (h + 1)..Len(q)
    BY <1>2
  <2>2. h - 1 \in T
    BY <2>1, <1>2
  <2>3. h <= h - 1
    BY <2>2, <1>2, Zenon
  <2>4. h \in Nat
    BY <1>1, <1>2, Zenon
  <2> QED BY <2>3, <2>4
<1>4. \E x \in 0..Len(q) :
        /\ x > 0 => Usable(q, M, x)
        /\ \A i \in (x + 1)..Len(q) : ~Usable(q, M, i)
  BY <1>2, <1>3
<1> QED BY <1>4 DEF Hit

\* What the checkout scan leaves behind (expired entries dropped, saturated
\* ones refreshed) is a queue of entries.
LEMMA ScannedType ==
  ASSUME NEW q \in Seq(Entry), NEW M
  PROVE  Scanned(q, M) \in Seq(Entry)
<1> DEFINE h == Hit(q, M)
           r == [i \in 1..Len(q) |->
                   IF i > h /\ Saturated(q, M, i) THEN [q[i] EXCEPT !.age = 0] ELSE q[i]]
           I == {i \in 1..Len(q) : i < h \/ (i > h /\ PassedOver(q, M, i))}
<1>1. \A i \in 1..Len(q) : q[i] \in Entry /\ [q[i] EXCEPT !.age = 0] \in Entry
  <2> TAKE i \in 1..Len(q)
  <2>1. q[i] \in Entry
    OBVIOUS
  <2> QED BY <2>1 DEF Entry
<1>2. r \in Seq(Entry) /\ Len(r) = Len(q)
  BY <1>1
<1>3. I \in SUBSET (1..Len(r))
  BY <1>2
<1> HIDE DEF r, I, h
<1>4. Keep(r, I) \in Seq(Entry)
  BY <1>2, <1>3, KeepSubsequence
<1> QED BY <1>4 DEF Scanned, r, I, h

\* A hit is a position of the queue, and the queue after a checkout is one.
LEMMA CheckoutQueueType ==
  ASSUME NEW q \in Seq(Entry), NEW M, Hit(q, M) > 0
  PROVE  /\ Hit(q, M) \in 1..Len(q)
         /\ q[Hit(q, M)].conn \in Conns
         /\ CheckoutQueue(q, M) \in Seq(Entry)
<1>1. Hit(q, M) \in 1..Len(q)
  BY HitDefined
<1>2. q[Hit(q, M)] \in Entry
  BY <1>1
<1>3. q[Hit(q, M)].conn \in Conns
  BY <1>2 DEF Entry
<1>4. [conn |-> q[Hit(q, M)].conn, age |-> 0] \in Entry
  BY <1>3 DEF Entry
<1>5. Scanned(q, M) \in Seq(Entry)
  BY ScannedType
<1>6. CheckoutQueue(q, M) \in Seq(Entry)
  BY <1>4, <1>5 DEF CheckoutQueue
<1> QED BY <1>1, <1>3, <1>6

\* A checkin within the idle cap leaves a queue of entries.
LEMMA PushedType ==
  ASSUME NEW q \in Seq(Entry), NEW c \in Conns, MaxIdlePerHost > 0
  PROVE  Pushed(q, c) \in Seq(Entry)
<1>1. [conn |-> c, age |-> 0] \in Entry
  BY DEF Entry
<1>2. Len(q) >= MaxIdlePerHost => Tail(q) \in Seq(Entry)
  BY LimitAssumption
<1> QED BY <1>1, <1>2 DEF Pushed

(***************************************************************************)
(* Type correctness.                                                       *)
(***************************************************************************)
LEMMA InitType == Init => TypeOK
<1> SUFFICES ASSUME Init PROVE TypeOK
  OBVIOUS
<1>1. FreshConn \in Transport
  BY DEF FreshConn, Transport
<1>2. Nothing \in Handle
  BY DEF Nothing, Handle, Kinds, HolderKinds
<1>3. <<>> \in Seq(Entry)
  OBVIOUS
<1> QED BY <1>1, <1>2, <1>3 DEF Init, TypeOK

\* A handle update of one slot keeps the handles well formed.
LEMMA HandleType ==
  ASSUME TypeOK, NEW s \in Slots, NEW r \in Handle, handle' = [handle EXCEPT ![s] = r]
  PROVE  handle' \in [Slots -> Handle]
BY DEF TypeOK

\* What slot s owns, by kind.
LEMMA Owned ==
  ASSUME TypeOK, NEW s \in Slots
  PROVE  /\ handle[s].kind \in HolderKinds => handle[s].key \in Keys
         /\ handle[s].kind \in {"original", "draining"} => handle[s].conn \in Conns
         /\ handle[s].kind \in {"clone", "permit"} => handle[s].conn \in Multiplexed /\ handle[s].conn \in Conns
         /\ handle[s] \in Handle
         /\ Nothing \in Handle
<1>1. handle[s] \in Handle
  BY DEF TypeOK
<1>2. Nothing \in Handle
  BY DEF Nothing, Handle, Kinds, HolderKinds
<1> QED BY <1>1, <1>2, AttributeAssumption DEF Handle

\* Giving a permit back keeps the stream counter a natural number: the counter
\* is the number of permits, and this one is among them.
LEMMA StreamsPositive ==
  ASSUME TypeOK, StreamsExact, NEW s \in Slots, handle[s].kind \in {"clone", "permit"}
  PROVE  conn[handle[s].conn].streams - 1 \in Nat
<1> DEFINE c == handle[s].conn
<1>1. c \in Conns
  BY Owned
<1>2. s \in PermitHolders(c) /\ PermitHolders(c) \subseteq Slots
  BY DEF PermitHolders
<1>3. Cardinality(PermitHolders(c)) \in Nat /\ Cardinality(PermitHolders(c)) >= 1
  BY <1>2, CountChange
<1>4. conn[c].streams = Cardinality(PermitHolders(c))
  BY <1>1 DEF StreamsExact
<1> QED BY <1>3, <1>4

\* Taking a stream permit keeps the transports well typed.
LEMMA PermitTakenType ==
  ASSUME TypeOK, NEW c \in Conns
  PROVE  PermitTaken(c) \in [Conns -> Transport]
<1>1. conn \in [Conns -> Transport] /\ conn[c] \in Transport
  BY DEF TypeOK
<1>2. [conn[c] EXCEPT !.streams = @ + 1] \in Transport
  BY <1>1 DEF Transport
<1>3. [conn EXCEPT ![c].streams = @ + 1] \in [Conns -> Transport]
  BY <1>1, <1>2
<1> QED BY <1>1, <1>3 DEF PermitTaken

\* Releasing one does too: StreamsExact keeps the counter from going below 0.
LEMMA PermitReleasedType ==
  ASSUME TypeOK, StreamsExact, NEW s \in Slots
  PROVE  PermitReleased(s) \in [Conns -> Transport]
<1>1. CASE Owns(s, {"clone"})
  <2>1. handle[s].kind \in {"clone", "permit"}
    BY <1>1 DEF Owns
  <2>2. conn[handle[s].conn].streams - 1 \in Nat /\ handle[s].conn \in Conns
    BY <2>1, StreamsPositive, Owned
  <2> QED BY <1>1, <2>2 DEF PermitReleased, TypeOK, Transport
<1>2. CASE ~Owns(s, {"clone"})
  BY <1>2 DEF PermitReleased, TypeOK
<1> QED BY <1>1, <1>2

\* The whole checkin of an entry, SAN index included, is well typed.
LEMMA CheckinType ==
  ASSUME TypeOK, NEW k \in Keys, NEW c \in Conns, CheckinEntry(k, c)
  PROVE  idle' \in [Keys -> Seq(Entry)] /\ sanIndex' \in [Hosts -> SUBSET Keys]
<1>1. CASE MaxIdlePerHost > 0 /\ WithinLifetime(c)
  <2>1. idle[k] \in Seq(Entry)
    BY DEF TypeOK
  <2>2. Pushed(idle[k], c) \in Seq(Entry)
    BY <1>1, <2>1, PushedType
  <2>3. idle' = [idle EXCEPT ![k] = Pushed(idle[k], c)]
    BY <1>1 DEF CheckinEntry
  <2>4. idle' \in [Keys -> Seq(Entry)]
    BY <2>2, <2>3 DEF TypeOK
  <2>5. sanIndex' = [h \in Hosts |->
                      IF h \in SansOf[c] THEN sanIndex[h] \cup {k} ELSE sanIndex[h]]
    BY <1>1 DEF CheckinEntry
  <2>6. sanIndex' \in [Hosts -> SUBSET Keys]
    BY <2>5 DEF TypeOK
  <2> QED BY <2>4, <2>6
<1>2. CASE ~(MaxIdlePerHost > 0 /\ WithinLifetime(c))
  BY <1>2 DEF CheckinEntry, TypeOK
<1> QED BY <1>1, <1>2

\* The active counters saturate at 0, and the reaper's interval is a number.
LEMMA CounterTypes ==
  ASSUME TypeOK
  PROVE  /\ \A k \in Keys : Decremented(k) \in Nat /\ active[k] \in Nat
         /\ ReaperInterval \in Nat
         /\ ReaperEnsured \in Nat \cup {Unlimited}
<1>1. \A k \in Keys : Decremented(k) \in Nat /\ active[k] \in Nat
  BY DEF TypeOK, Decremented
<1>2. ReaperInterval \in Nat
  BY LimitAssumption DEF ReaperInterval, Unlimited
<1> QED BY <1>1, <1>2 DEF ReaperEnsured, TypeOK

\* Dropping a key's queue, as eviction does, is well typed.
LEMMA EmptiedType ==
  ASSUME TypeOK, NEW k \in Keys, idle' = [idle EXCEPT ![k] = <<>>]
  PROVE  idle' \in [Keys -> Seq(Entry)]
<1>1. <<>> \in Seq(Entry)
  OBVIOUS
<1> QED BY <1>1 DEF TypeOK

\* Releasing the unit of slot s: what DropReservation, DropHandle, the check-ins
\* and the end of a drain do to active and handle.
LEMMA ReleaseType ==
  ASSUME TypeOK, NEW s \in Slots, handle[s].kind \in HolderKinds,
         active' = [active EXCEPT ![handle[s].key] = Decremented(handle[s].key)],
         handle' = [handle EXCEPT ![s] = Nothing]
  PROVE  active' \in [Keys -> Nat] /\ handle' \in [Slots -> Handle]
<1>1. handle[s].key \in Keys /\ Nothing \in Handle
  BY Owned
<1>2. handle' \in [Slots -> Handle]
  BY <1>1, HandleType
<1>3. Decremented(handle[s].key) \in Nat
  BY <1>1, CounterTypes
<1> QED BY <1>2, <1>3 DEF TypeOK

\* Reservations and dials keep the types.
LEMMA TypeStepDial ==
  ASSUME TypeOK, StreamsExact, NEW s \in Slots
  PROVE  /\ \A k \in Keys : TryReserveActive(s, k) => TypeOK'
         /\ DropReservation(s) => TypeOK'
         /\ \A c \in Conns : AttachActiveReservation(s, c) => TypeOK'
         /\ RekeyActive(s) => TypeOK'
<1>0. FreshConn \in Transport
  BY DEF FreshConn, Transport
<1>1. ASSUME NEW k \in Keys, TryReserveActive(s, k) PROVE TypeOK'
  <2>1. [kind |-> "reservation", key |-> k, conn |-> NoConn] \in Handle
    BY DEF Handle, Kinds, HolderKinds
  <2>2. handle' \in [Slots -> Handle]
    BY <1>1, <2>1, HandleType DEF TryReserveActive
  <2>3. active' \in [Keys -> Nat]
    BY <1>1 DEF TryReserveActive, TypeOK
  <2> QED BY <1>1, <2>2, <2>3 DEF TryReserveActive, TypeOK
<1>2. ASSUME DropReservation(s) PROVE TypeOK'
  <2>1. handle[s].kind \in HolderKinds
    BY <1>2 DEF DropReservation, Owns, HolderKinds
  <2>2. active' \in [Keys -> Nat] /\ handle' \in [Slots -> Handle]
    BY <1>2, <2>1, ReleaseType DEF DropReservation
  <2> QED BY <1>2, <2>2 DEF DropReservation, TypeOK
<1>3. ASSUME NEW c \in Conns, AttachActiveReservation(s, c) PROVE TypeOK'
  <2>1. handle[s].key \in Keys /\ handle[s] \in Handle
    BY <1>3, Owned DEF AttachActiveReservation, Owns, HolderKinds
  <2>2. [handle[s] EXCEPT !.kind = "original", !.conn = c] \in Handle
    BY <2>1 DEF Handle, Kinds, HolderKinds
  <2>3. handle' = [handle EXCEPT ![s] = [handle[s] EXCEPT !.kind = "original", !.conn = c]]
    BY <1>3 DEF AttachActiveReservation, TypeOK
  <2>4. handle' \in [Slots -> Handle]
    BY <2>2, <2>3, HandleType
  <2>5. conn' \in [Conns -> Transport]
    BY <1>3, <1>0 DEF AttachActiveReservation, TypeOK
  <2> QED BY <1>3, <2>4, <2>5 DEF AttachActiveReservation, TypeOK
<1>4. ASSUME RekeyActive(s) PROVE TypeOK'
  <2> DEFINE old == handle[s].key
             new == AutoOf[old]
             dec == [active EXCEPT ![old] = Decremented(old)]
  <2>1. old \in Keys /\ new \in Keys /\ handle[s].conn \in Conns
    BY <1>4, Owned, AttributeAssumption DEF RekeyActive, Owns, HolderKinds
  <2>2. [kind |-> "original", key |-> new, conn |-> handle[s].conn] \in Handle
    BY <2>1 DEF Handle, Kinds, HolderKinds
  <2>3. handle' \in [Slots -> Handle]
    BY <1>4, <2>2, HandleType DEF RekeyActive
  <2>4. dec \in [Keys -> Nat]
    BY <2>1, CounterTypes DEF TypeOK
  <2>5. active' \in [Keys -> Nat]
    BY <1>4, <2>1, <2>4 DEF RekeyActive
  <2> QED BY <1>4, <2>3, <2>5 DEF RekeyActive, TypeOK
<1> QED BY <1>1, <1>2, <1>3, <1>4

\* Checkouts keep the types.
LEMMA TypeStepCheckout ==
  ASSUME TypeOK, StreamsExact
  PROVE  /\ \A s \in Slots, k \in Keys : \A M : CheckoutMatching(s, k, M) => TypeOK'
         /\ \A k \in Keys : \A M : CheckoutMatchingMiss(k, M) => TypeOK'
         /\ \A s \in Slots, h \in Hosts : \A a, route : CheckoutCoalesced(s, h, a, route) => TypeOK'
         /\ \A h \in Hosts : \A a, route : CheckoutCoalescedMiss(h, a, route) => TypeOK'
<1>0. ASSUME NEW c \in Conns, NEW k \in Keys PROVE CheckedOut(c, k) \in Handle
  BY DEF CheckedOut, Handle, Kinds, HolderKinds
<1>1. ASSUME NEW s \in Slots, NEW k \in Keys, NEW M, CheckoutMatching(s, k, M) PROVE TypeOK'
  <2> DEFINE c == idle[k][Hit(idle[k], M)].conn
  <2>1. idle[k] \in Seq(Entry)
    BY DEF TypeOK
  <2>2. c \in Conns /\ CheckoutQueue(idle[k], M) \in Seq(Entry)
    BY <1>1, <2>1, CheckoutQueueType DEF CheckoutMatching
  <2>3. idle' = [idle EXCEPT ![k] = CheckoutQueue(idle[k], M)]
    BY <1>1 DEF CheckoutMatching
  <2>4. idle' \in [Keys -> Seq(Entry)]
    BY <2>2, <2>3 DEF TypeOK
  <2>5. handle' \in [Slots -> Handle]
    BY <1>1, <1>0, <2>2, HandleType DEF CheckoutMatching
  <2>6. conn' \in [Conns -> Transport]
    BY <1>1, <2>2, PermitTakenType DEF CheckoutMatching
  <2>7. active' \in [Keys -> Nat]
    BY <1>1 DEF CheckoutMatching, TypeOK
  <2> QED BY <1>1, <2>4, <2>5, <2>6, <2>7 DEF CheckoutMatching, TypeOK
<1>2. ASSUME NEW k \in Keys, NEW M, CheckoutMatchingMiss(k, M) PROVE TypeOK'
  <2>1. idle[k] \in Seq(Entry)
    BY DEF TypeOK
  <2>2. Scanned(idle[k], M) \in Seq(Entry)
    BY <2>1, ScannedType
  <2>3. idle' = [idle EXCEPT ![k] = Scanned(idle[k], M)]
    BY <1>2 DEF CheckoutMatchingMiss
  <2>4. idle' \in [Keys -> Seq(Entry)]
    BY <2>2, <2>3 DEF TypeOK
  <2> QED BY <1>2, <2>4 DEF CheckoutMatchingMiss, TypeOK
<1>3. ASSUME NEW h \in Hosts, sanIndex' = SanIndexPruned(h) PROVE sanIndex' \in [Hosts -> SUBSET Keys]
  BY <1>3 DEF SanIndexPruned, TypeOK
<1>4. ASSUME NEW s \in Slots, NEW h \in Hosts, NEW a, NEW route, CheckoutCoalesced(s, h, a, route)
      PROVE  TypeOK'
  <2>0. PICK k \in Keys : \E i \in DOMAIN idle[k] :
          /\ idle' = [idle EXCEPT ![k][i].age = 0]
          /\ active' = [active EXCEPT ![k] = @ + 1]
          /\ conn' = PermitTaken(idle[k][i].conn)
          /\ handle' = [handle EXCEPT ![s] = CheckedOut(idle[k][i].conn, k)]
    BY <1>4 DEF CheckoutCoalesced
  <2>1. PICK i \in DOMAIN idle[k] :
          /\ idle' = [idle EXCEPT ![k][i].age = 0]
          /\ active' = [active EXCEPT ![k] = @ + 1]
          /\ conn' = PermitTaken(idle[k][i].conn)
          /\ handle' = [handle EXCEPT ![s] = CheckedOut(idle[k][i].conn, k)]
    BY <2>0
  <2>2. idle[k] \in Seq(Entry) /\ idle[k][i] \in Entry
    BY DEF TypeOK
  <2>3. idle[k][i].conn \in Conns /\ [idle[k][i] EXCEPT !.age = 0] \in Entry
    BY <2>2 DEF Entry
  <2>4. [idle[k] EXCEPT ![i].age = 0] \in Seq(Entry)
    BY <2>2, <2>3
  <2>5. idle' = [idle EXCEPT ![k] = [idle[k] EXCEPT ![i].age = 0]]
    BY <2>1 DEF TypeOK
  <2>6. idle' \in [Keys -> Seq(Entry)]
    BY <2>4, <2>5 DEF TypeOK
  <2>7. handle' \in [Slots -> Handle]
    BY <2>1, <2>3, <1>0, HandleType
  <2>8. conn' \in [Conns -> Transport]
    BY <2>1, <2>3, PermitTakenType
  <2>9. active' \in [Keys -> Nat]
    BY <2>1 DEF TypeOK
  <2>10. sanIndex' \in [Hosts -> SUBSET Keys]
    BY <1>3, <1>4 DEF CheckoutCoalesced
  <2> QED BY <1>4, <2>6, <2>7, <2>8, <2>9, <2>10 DEF CheckoutCoalesced, TypeOK
<1>5. ASSUME NEW h \in Hosts, NEW a, NEW route, CheckoutCoalescedMiss(h, a, route) PROVE TypeOK'
  BY <1>3, <1>5 DEF CheckoutCoalescedMiss, TypeOK
<1> QED BY <1>1, <1>2, <1>4, <1>5

\* Check-ins and drops keep the types.
LEMMA TypeStepCheckin ==
  ASSUME TypeOK, StreamsExact, NEW s \in Slots
  PROVE  /\ ShareFresh(s) => TypeOK'
         /\ CheckinNow(s) => TypeOK'
         /\ CheckinDeferred(s) => TypeOK'
         /\ CheckinDrained(s) => TypeOK'
         /\ DrainAbandoned(s) => TypeOK'
         /\ DropHandle(s) => TypeOK'
<1> DEFINE k == handle[s].key
           c == handle[s].conn
<1>0. ReaperEnsured \in Nat \cup {Unlimited}
  BY CounterTypes
<1>1. ASSUME ShareFresh(s) PROVE TypeOK'
  <2>1. k \in Keys /\ c \in Conns /\ c \in Multiplexed /\ handle[s] \in Handle
    BY <1>1, Owned DEF ShareFresh, Owns, HolderKinds
  <2>2. [handle[s] EXCEPT !.kind = "clone"] \in Handle
    BY <2>1 DEF Handle, Kinds, HolderKinds
  <2>3. handle' = [handle EXCEPT ![s] = [handle[s] EXCEPT !.kind = "clone"]]
    BY <1>1 DEF ShareFresh, TypeOK
  <2>4. handle' \in [Slots -> Handle]
    BY <2>2, <2>3, HandleType
  <2>5. idle' \in [Keys -> Seq(Entry)] /\ sanIndex' \in [Hosts -> SUBSET Keys]
    BY <1>1, <2>1, CheckinType DEF ShareFresh
  <2>6. conn' \in [Conns -> Transport]
    BY <1>1, <2>1, PermitTakenType DEF ShareFresh
  <2> QED BY <1>0, <1>1, <2>4, <2>5, <2>6 DEF ShareFresh, TypeOK
<1>2. ASSUME CheckinNow(s) PROVE TypeOK'
  <2>1. k \in Keys /\ c \in Conns /\ handle[s].kind \in HolderKinds
    BY <1>2, Owned DEF CheckinNow, CheckinAllowed, Owns, HolderKinds
  <2>2. active' \in [Keys -> Nat] /\ handle' \in [Slots -> Handle]
    BY <1>2, <2>1, ReleaseType DEF CheckinNow
  <2>3. idle' \in [Keys -> Seq(Entry)] /\ sanIndex' \in [Hosts -> SUBSET Keys]
    BY <1>2, <2>1, CheckinType DEF CheckinNow
  <2> QED BY <1>0, <1>2, <2>2, <2>3 DEF CheckinNow, TypeOK
<1>3. ASSUME CheckinDeferred(s) PROVE TypeOK'
  <2>1. k \in Keys /\ c \in Conns /\ handle[s] \in Handle
    BY <1>3, Owned DEF CheckinDeferred, Owns, HolderKinds
  <2>2. [handle[s] EXCEPT !.kind = "draining"] \in Handle
    BY <2>1 DEF Handle, Kinds, HolderKinds
  <2>3. handle' = [handle EXCEPT ![s] = [handle[s] EXCEPT !.kind = "draining"]]
    BY <1>3 DEF CheckinDeferred, TypeOK
  <2>4. handle' \in [Slots -> Handle]
    BY <2>2, <2>3, HandleType
  <2> QED BY <1>0, <1>3, <2>4 DEF CheckinDeferred, TypeOK
<1>4. ASSUME CheckinDrained(s) PROVE TypeOK'
  <2>1. k \in Keys /\ c \in Conns /\ handle[s].kind \in HolderKinds
    BY <1>4, Owned DEF CheckinDrained, Owns, HolderKinds
  <2>2. active' \in [Keys -> Nat] /\ handle' \in [Slots -> Handle]
    BY <1>4, <2>1, ReleaseType DEF CheckinDrained
  <2>3. idle' \in [Keys -> Seq(Entry)] /\ sanIndex' \in [Hosts -> SUBSET Keys]
    BY <1>4, <2>1, CheckinType DEF CheckinDrained
  <2> QED BY <1>4, <2>2, <2>3 DEF CheckinDrained, TypeOK
<1>5. ASSUME DrainAbandoned(s) PROVE TypeOK'
  <2>1. handle[s].kind \in HolderKinds
    BY <1>5 DEF DrainAbandoned, Owns, HolderKinds
  <2>2. active' \in [Keys -> Nat] /\ handle' \in [Slots -> Handle]
    BY <1>5, <2>1, ReleaseType DEF DrainAbandoned
  <2> QED BY <1>5, <2>2 DEF DrainAbandoned, TypeOK
<1>6. ASSUME DropHandle(s) PROVE TypeOK'
  <2>1. handle[s].kind \in HolderKinds
    BY <1>6 DEF DropHandle, Owns, HolderKinds
  <2>2. active' \in [Keys -> Nat] /\ handle' \in [Slots -> Handle]
    BY <1>6, <2>1, ReleaseType DEF DropHandle
  <2>3. conn' \in [Conns -> Transport]
    BY <1>6, PermitReleasedType DEF DropHandle
  <2> QED BY <1>6, <2>2, <2>3 DEF DropHandle, TypeOK
<1> QED BY <1>1, <1>2, <1>3, <1>4, <1>5, <1>6

\* Tunnels, eviction and requests on the wire keep the types.
LEMMA TypeStepTunnel ==
  ASSUME TypeOK, StreamsExact, NEW s \in Slots
  PROVE  /\ RetainConnectStreamPermit(s) => TypeOK'
         /\ DropPermit(s) => TypeOK'
         /\ RetirePermitTransport(s) => TypeOK'
         /\ RetireMultiplexTransport(s) => TypeOK'
         /\ Evict(s) => TypeOK'
         /\ SendH1(s) => TypeOK'
<1> DEFINE k == handle[s].key
           c == handle[s].conn
<1>0. Nothing \in Handle
  BY Owned
<1>1. ASSUME RetainConnectStreamPermit(s) PROVE TypeOK'
  <2>1. k \in Keys /\ c \in Conns /\ c \in Multiplexed /\ handle[s] \in Handle
    BY <1>1, Owned DEF RetainConnectStreamPermit, Owns, HolderKinds
  <2>2. [handle[s] EXCEPT !.kind = "permit", !.key = NoKey] \in Handle
    BY <2>1 DEF Handle, Kinds, HolderKinds
  <2>3. handle' = [handle EXCEPT ![s] = [handle[s] EXCEPT !.kind = "permit", !.key = NoKey]]
    BY <1>1 DEF RetainConnectStreamPermit, TypeOK
  <2>4. handle' \in [Slots -> Handle]
    BY <2>2, <2>3, HandleType
  <2>5. Decremented(k) \in Nat
    BY <2>1, CounterTypes
  <2>6. active' \in [Keys -> Nat]
    BY <1>1, <2>5 DEF RetainConnectStreamPermit, TypeOK
  <2> QED BY <1>1, <2>4, <2>6 DEF RetainConnectStreamPermit, TypeOK
<1>2. ASSUME DropPermit(s) PROVE TypeOK'
  <2>1. handle[s].kind \in {"clone", "permit"}
    BY <1>2 DEF DropPermit, Owns
  <2>2. conn[c].streams - 1 \in Nat /\ c \in Conns
    BY <2>1, StreamsPositive, Owned
  <2>3. conn' \in [Conns -> Transport]
    BY <1>2, <2>2 DEF DropPermit, TypeOK, Transport
  <2>4. handle' \in [Slots -> Handle]
    BY <1>0, <1>2, HandleType DEF DropPermit
  <2> QED BY <1>2, <2>3, <2>4 DEF DropPermit, TypeOK
<1>3. ASSUME RetirePermitTransport(s) PROVE TypeOK'
  <2>1. conn' \in [Conns -> Transport]
    BY <1>3 DEF RetirePermitTransport, TypeOK, Transport
  <2> QED BY <1>3, <2>1 DEF RetirePermitTransport, TypeOK
<1>4. ASSUME RetireMultiplexTransport(s) PROVE TypeOK'
  <2>1. k \in Keys
    BY <1>4, Owned DEF RetireMultiplexTransport, Owns, HolderKinds
  <2>2. PermitReleased(s) \in [Conns -> Transport]
    BY PermitReleasedType
  <2>3. conn' = [PermitReleased(s) EXCEPT ![c].retired = TRUE]
    BY <1>4 DEF RetireMultiplexTransport
  <2>4. conn' \in [Conns -> Transport]
    BY <2>2, <2>3 DEF Transport
  <2>5. idle' \in [Keys -> Seq(Entry)]
    BY <1>4, <2>1, EmptiedType DEF RetireMultiplexTransport
  <2>6. handle' \in [Slots -> Handle]
    BY <1>0, <1>4, HandleType DEF RetireMultiplexTransport
  <2> QED BY <1>4, <2>4, <2>5, <2>6 DEF RetireMultiplexTransport, TypeOK
<1>5. ASSUME Evict(s) PROVE TypeOK'
  <2>1. k \in Keys
    BY <1>5, Owned DEF Evict, Owns, HolderKinds
  <2>2. idle' \in [Keys -> Seq(Entry)]
    BY <1>5, <2>1, EmptiedType DEF Evict
  <2> QED BY <1>5, <2>2 DEF Evict, TypeOK
<1>6. ASSUME SendH1(s) PROVE TypeOK'
  <2>1. conn' \in [Conns -> Transport]
    BY <1>6 DEF SendH1, TypeOK, Transport
  <2> QED BY <1>6, <2>1 DEF SendH1, TypeOK
<1> QED BY <1>1, <1>2, <1>3, <1>4, <1>5, <1>6

\* The reaper, the clock and the peer keep the types.
LEMMA TypeStepEnvironment ==
  ASSUME TypeOK
  PROVE  /\ PruneExpired => TypeOK'
         /\ Tick => TypeOK'
         /\ \A c \in Conns : PeerClose(c) => TypeOK'
         /\ \A c \in Conns : BodyDrained(c) => TypeOK'
<1>1. ASSUME PruneExpired PROVE TypeOK'
  <2>1. ASSUME NEW k \in Keys
        PROVE  Keep(idle[k], {i \in 1..Len(idle[k]) : Unexpired(idle[k][i])}) \in Seq(Entry)
    <3> DEFINE I == {i \in 1..Len(idle[k]) : Unexpired(idle[k][i])}
    <3>1. idle[k] \in Seq(Entry)
      BY DEF TypeOK
    <3>2. I \in SUBSET (1..Len(idle[k]))
      OBVIOUS
    <3> HIDE DEF I
    <3>3. Keep(idle[k], I) \in Seq(Entry)
      BY <3>1, <3>2, KeepSubsequence
    <3> QED BY <3>3 DEF I
  <2>2. idle' \in [Keys -> Seq(Entry)]
    BY <1>1, <2>1 DEF PruneExpired
  <2>3. sanIndex' \in [Hosts -> SUBSET Keys]
    BY <1>1 DEF PruneExpired, TypeOK
  <2>4. reaper' \in Nat
    BY <1>1, CounterTypes DEF PruneExpired
  <2> QED BY <1>1, <2>2, <2>3, <2>4 DEF PruneExpired, TypeOK
<1>2. ASSUME Tick PROVE TypeOK'
  <2>1. \A x \in Nat : \A b : Older(x, b) \in Nat
    BY DEF Older
  <2>2. ASSUME NEW c \in Conns PROVE [conn[c] EXCEPT !.age = Older(@, MaxLifetime)] \in Transport
    <3>1. conn[c] \in Transport
      BY DEF TypeOK
    <3> QED BY <2>1, <3>1 DEF Transport
  <2>3. conn' \in [Conns -> Transport]
    BY <1>2, <2>2 DEF Tick
  <2>4. ASSUME NEW k \in Keys
        PROVE  [i \in 1..Len(idle[k]) |-> [idle[k][i] EXCEPT !.age = Older(@, IdleTimeout)]] \in Seq(Entry)
    <3>1. idle[k] \in Seq(Entry) /\ Len(idle[k]) \in Nat
      BY DEF TypeOK
    <3>2. ASSUME NEW i \in 1..Len(idle[k]) PROVE [idle[k][i] EXCEPT !.age = Older(@, IdleTimeout)] \in Entry
      <4>1. idle[k][i] \in Entry
        BY <3>1
      <4> QED BY <2>1, <4>1 DEF Entry
    <3> QED BY <3>1, <3>2
  <2>5. idle' \in [Keys -> Seq(Entry)]
    BY <1>2, <2>4 DEF Tick
  <2>6. reaper' \in Nat \cup {Unlimited}
    BY <1>2 DEF Tick, TypeOK, Unlimited
  <2> QED BY <1>2, <2>3, <2>5, <2>6 DEF Tick, TypeOK
<1>3. ASSUME NEW c \in Conns, PeerClose(c) PROVE TypeOK'
  <2>1. conn' \in [Conns -> Transport]
    BY <1>3 DEF PeerClose, TypeOK, Transport
  <2> QED BY <1>3, <2>1 DEF PeerClose, TypeOK
<1>4. ASSUME NEW c \in Conns, BodyDrained(c) PROVE TypeOK'
  <2>1. conn' \in [Conns -> Transport]
    BY <1>4 DEF BodyDrained, TypeOK, Transport
  <2> QED BY <1>4, <2>1 DEF BodyDrained, TypeOK
<1> QED BY <1>1, <1>2, <1>3, <1>4

\* Every step of the pool keeps its types.
LEMMA TypeStep == TypeOK /\ StreamsExact /\ [Next]_vars => TypeOK'
<1> SUFFICES ASSUME TypeOK, StreamsExact, [Next]_vars PROVE TypeOK'
  OBVIOUS
<1>1. CASE UNCHANGED vars
  BY <1>1 DEF vars, TypeOK
<1>2. CASE Next
  BY <1>2, TypeStepDial, TypeStepCheckout, TypeStepCheckin, TypeStepTunnel, TypeStepEnvironment DEF Next
<1> QED BY <1>1, <1>2

(***************************************************************************)
(* Active slots.  Slack(k) is what is counted under k beyond its holders.  *)
(* Every step leaves it alone, except that retiring a transport raises it; *)
(* and a count only grows under the cap, or by a rekey.                    *)
(***************************************************************************)
Slack(k) == active[k] - Cardinality(Holders(k))

SlotStep ==
  \A k \in Keys :
    /\ Slack(k)' >= Slack(k)
    /\ ~Tunnels => Slack(k)' = Slack(k)
    /\ \/ active'[k] <= active[k]
       \/ UnderCap(k) /\ active'[k] = active[k] + 1
       \/ k \in RekeyTargets

\* Reserving or checking out: slot s starts to count under k.
LEMMA AcquireSlot ==
  ASSUME TypeOK, NEW s \in Slots, NEW k \in Keys, NEW r,
         handle[s].kind \notin HolderKinds, r.kind \in HolderKinds, r.key = k,
         UnderCap(k),
         active' = [active EXCEPT ![k] = @ + 1],
         handle' = [handle EXCEPT ![s] = r]
  PROVE  SlotStep
<1>1. OnlySlot(s) /\ handle'[s] = r
  BY DEF OnlySlot, TypeOK
<1> SUFFICES ASSUME NEW j \in Keys
             PROVE  /\ Slack(j)' = Slack(j)
                    /\ active'[j] <= active[j] \/ (UnderCap(j) /\ active'[j] = active[j] + 1)
                    /\ Slack(j) \in Int
  BY DEF SlotStep
<1>2. active[j] \in Nat /\ active'[j] = active[j] + Unit(j = k)
  BY DEF TypeOK, Unit
<1>3. Unit(CountsFor(handle'[s], j)) = Unit(j = k) /\ Unit(CountsFor(handle[s], j)) = 0
  BY <1>1 DEF CountsFor, Unit
<1>4. /\ Cardinality(Holders(j)) \in Nat /\ Cardinality(Holders(j)') \in Nat
      /\ Cardinality(Holders(j)') = Cardinality(Holders(j)) + Unit(j = k) - 0
  BY <1>1, <1>3, HoldersCount
<1> QED BY <1>2, <1>4 DEF Slack, Unit

\* Dropping or checking in: slot s stops counting, and one unit is given back.
LEMMA ReleaseSlot ==
  ASSUME TypeOK, NoEarlyRelease, NEW s \in Slots, NEW r,
         handle[s].kind \in HolderKinds, r.kind \notin HolderKinds,
         active' = [active EXCEPT ![handle[s].key] = Decremented(handle[s].key)],
         handle' = [handle EXCEPT ![s] = r]
  PROVE  SlotStep
<1> DEFINE k == handle[s].key
<1>0. k \in Keys
  BY Owned
<1>1. OnlySlot(s) /\ handle'[s] = r
  BY DEF OnlySlot, TypeOK
<1> SUFFICES ASSUME NEW j \in Keys
             PROVE  Slack(j)' = Slack(j) /\ active'[j] <= active[j] /\ Slack(j) \in Int
  BY DEF SlotStep
<1>2. Unit(CountsFor(handle'[s], j)) = 0 /\ Unit(CountsFor(handle[s], j)) = Unit(j = k)
  BY <1>1 DEF CountsFor, Unit
<1>3. /\ Cardinality(Holders(j)) \in Nat /\ Cardinality(Holders(j)') \in Nat
      /\ j = k => Cardinality(Holders(j)) >= 1
      /\ Cardinality(Holders(j)') = Cardinality(Holders(j)) + 0 - Unit(j = k)
  BY <1>1, <1>2, HoldersCount DEF CountsFor
<1>4. active[j] \in Nat /\ Cardinality(Holders(j)) <= active[j]
  BY DEF TypeOK, NoEarlyRelease
<1>5. active'[j] = active[j] - Unit(j = k)
  <2>1. CASE j = k
    <3>1. active'[j] = Decremented(k)
      BY <1>0, <2>1 DEF TypeOK
    <3> QED BY <3>1, <2>1, <1>3, <1>4 DEF Decremented, Unit
  <2>2. CASE j # k
    BY <2>2, <1>4 DEF TypeOK, Unit
  <2> QED BY <2>1, <2>2
<1> QED BY <1>3, <1>4, <1>5 DEF Slack, Unit

\* Handing over: what slot s owns changes, its key and the counts do not.
LEMMA HandOverSlot ==
  ASSUME TypeOK, NEW s \in Slots, NEW r,
         handle[s].kind \in HolderKinds, r.kind \in HolderKinds, r.key = handle[s].key,
         active' = active,
         handle' = [handle EXCEPT ![s] = r]
  PROVE  SlotStep
<1>1. OnlySlot(s) /\ handle'[s] = r
  BY DEF OnlySlot, TypeOK
<1> SUFFICES ASSUME NEW j \in Keys
             PROVE  Slack(j)' = Slack(j) /\ active'[j] <= active[j] /\ Slack(j) \in Int
  BY DEF SlotStep
<1>2. Unit(CountsFor(handle'[s], j)) = Unit(CountsFor(handle[s], j))
      /\ Unit(CountsFor(handle[s], j)) \in Int
  BY <1>1 DEF CountsFor, Unit
<1>3. /\ Cardinality(Holders(j)) \in Nat /\ Cardinality(Holders(j)') \in Nat
      /\ Cardinality(Holders(j)') =
           Cardinality(Holders(j)) + Unit(CountsFor(handle'[s], j)) - Unit(CountsFor(handle[s], j))
  BY <1>1, HoldersCount
<1>4. Cardinality(Holders(j)') = Cardinality(Holders(j))
  BY <1>2, <1>3
<1>5. active[j] \in Nat
  BY DEF TypeOK
<1> QED BY <1>3, <1>4, <1>5 DEF Slack

\* A step that touches no slot.
LEMMA SameSlots ==
  ASSUME TypeOK, UNCHANGED <<active, handle>>
  PROVE  SlotStep
<1> SUFFICES ASSUME NEW j \in Keys
             PROVE  Slack(j)' = Slack(j) /\ active'[j] <= active[j] /\ Slack(j) \in Int
  BY DEF SlotStep
<1>1. Holders(j)' = Holders(j)
  BY DEF Holders
<1>2. active[j] \in Nat
  BY DEF TypeOK
<1>3. Holders(j) \subseteq Slots
  BY DEF Holders
<1>4. Cardinality(Holders(j)) \in Nat
  BY <1>3, FiniteAssumption, FS_Subset, FS_CardinalityType
<1> QED BY <1>1, <1>2, <1>4 DEF Slack

\* The end of a stream permit: slot s counted under no key.
LEMMA UncountedSlot ==
  ASSUME TypeOK, NEW s \in Slots, handle[s].kind \notin HolderKinds,
         active' = active, handle' = [handle EXCEPT ![s] = Nothing]
  PROVE  SlotStep
<1>1. OnlySlot(s) /\ handle'[s] = Nothing
  BY DEF OnlySlot, TypeOK
<1> SUFFICES ASSUME NEW j \in Keys
             PROVE  Slack(j)' = Slack(j) /\ active'[j] <= active[j] /\ Slack(j) \in Int
  BY DEF SlotStep
<1>2. Unit(CountsFor(handle'[s], j)) = 0 /\ Unit(CountsFor(handle[s], j)) = 0
  BY <1>1 DEF CountsFor, Unit, Nothing, HolderKinds
<1>3. /\ Cardinality(Holders(j)) \in Nat
      /\ Cardinality(Holders(j)') = Cardinality(Holders(j)) + 0 - 0
  BY <1>1, <1>2, HoldersCount
<1>4. active[j] \in Nat
  BY DEF TypeOK
<1> QED BY <1>3, <1>4 DEF Slack

\* retire_multiplex_transport clears the key of a handle that is still counted.
LEMMA RetireSlot ==
  ASSUME TypeOK, NEW s \in Slots, RetireMultiplexTransport(s)
  PROVE  SlotStep
<1>0. Tunnels /\ handle[s].kind \in HolderKinds /\ active' = active
      /\ handle' = [handle EXCEPT ![s] = Nothing]
  BY DEF RetireMultiplexTransport, Owns, HolderKinds
<1>1. OnlySlot(s) /\ handle'[s] = Nothing
  BY <1>0 DEF OnlySlot, TypeOK
<1> SUFFICES ASSUME NEW j \in Keys
             PROVE  Slack(j)' >= Slack(j) /\ active'[j] <= active[j]
  BY <1>0 DEF SlotStep
<1>2. Unit(CountsFor(handle'[s], j)) = 0 /\ Unit(CountsFor(handle[s], j)) \in {0, 1}
  BY <1>1 DEF CountsFor, Unit, Nothing, HolderKinds
<1>3. /\ Cardinality(Holders(j)) \in Nat /\ Cardinality(Holders(j)') \in Nat
      /\ Cardinality(Holders(j)') = Cardinality(Holders(j)) + 0 - Unit(CountsFor(handle[s], j))
  BY <1>1, <1>2, HoldersCount
<1>4. active[j] \in Nat /\ active'[j] = active[j]
  BY <1>0 DEF TypeOK
<1> QED BY <1>2, <1>3, <1>4 DEF Slack

\* rekey_active moves one unit from the H2c key to the Auto key.
LEMMA RekeySlot ==
  ASSUME TypeOK, NoEarlyRelease, NEW s \in Slots, RekeyActive(s)
  PROVE  SlotStep
<1> DEFINE old == handle[s].key
           new == AutoOf[old]
           r == [kind |-> "original", key |-> new, conn |-> handle[s].conn]
           dec == [active EXCEPT ![old] = Decremented(old)]
<1>0. /\ handle[s].kind = "original" /\ handle' = [handle EXCEPT ![s] = r]
      /\ active' = [dec EXCEPT ![new] = @ + 1]
  BY DEF RekeyActive, Owns
<1>1. old \in Keys /\ new \in Keys
  BY <1>0, Owned, AttributeAssumption DEF HolderKinds
<1>2. OnlySlot(s) /\ handle'[s] = r
  BY <1>0 DEF OnlySlot, TypeOK
<1>3. ASSUME NEW j \in Keys
      PROVE  /\ Cardinality(Holders(j)) \in Nat /\ Cardinality(Holders(j)') \in Nat
             /\ j = old => Cardinality(Holders(j)) >= 1
             /\ Cardinality(Holders(j)') = Cardinality(Holders(j)) + Unit(j = new) - Unit(j = old)
  <2>1. Unit(CountsFor(handle'[s], j)) = Unit(j = new) /\ Unit(CountsFor(handle[s], j)) = Unit(j = old)
    BY <1>0, <1>2 DEF CountsFor, Unit, HolderKinds
  <2> QED BY <1>0, <1>2, <2>1, HoldersCount DEF CountsFor, HolderKinds
<1>4. ASSUME NEW j \in Keys
      PROVE  active[j] \in Nat /\ (j = old => active[j] >= 1)
  BY <1>3 DEF TypeOK, NoEarlyRelease
<1>5. ASSUME NEW j \in Keys
      PROVE  active'[j] = active[j] + Unit(j = new) - Unit(j = old)
  <2>1. dec \in [Keys -> Int] /\ dec[j] = active[j] - Unit(j = old)
    BY <1>1, <1>4 DEF TypeOK, Decremented, Unit
  <2>2. active'[j] = dec[j] + Unit(j = new)
    BY <1>0, <1>1, <2>1 DEF Unit
  <2> QED BY <1>4, <2>1, <2>2 DEF Unit
<1> SUFFICES ASSUME NEW j \in Keys
             PROVE  /\ Slack(j)' = Slack(j) /\ Slack(j) \in Int
                    /\ active'[j] <= active[j] \/ j \in RekeyTargets
  BY DEF SlotStep
<1>6. Slack(j)' = Slack(j) /\ Slack(j) \in Int
  BY <1>3, <1>4, <1>5 DEF Slack, Unit
<1>7. CASE j = new /\ new # old
  <2>1. j \in RekeyTargets
    BY <1>1, <1>7 DEF RekeyTargets
  <2> QED BY <1>6, <2>1
<1>8. CASE ~(j = new /\ new # old)
  <2>1. active'[j] <= active[j]
    BY <1>4, <1>5, <1>8 DEF Unit
  <2> QED BY <1>6, <2>1
<1> QED BY <1>7, <1>8

\* Every step of the pool is accounted: what it does to a key's active counter
\* and to the handles that count for the key is one of the SlotStep cases.
LEMMA SlotStepAll == TypeOK /\ NoEarlyRelease /\ Next => SlotStep
<1> SUFFICES ASSUME TypeOK, NoEarlyRelease, Next PROVE SlotStep
  OBVIOUS
<1>0. Nothing.kind \notin HolderKinds
  BY DEF Nothing, HolderKinds
<1>1. ASSUME NEW s \in Slots, NEW k \in Keys, TryReserveActive(s, k) PROVE SlotStep
  <2>1. handle[s].kind \notin HolderKinds
    BY <1>1 DEF TryReserveActive, Owns, HolderKinds
  <2> DEFINE r == [kind |-> "reservation", key |-> k, conn |-> NoConn]
  <2>2. r.kind \in HolderKinds /\ r.key = k
    BY DEF HolderKinds
  <2> QED BY <1>1, <2>1, <2>2, AcquireSlot DEF TryReserveActive
<1>2. ASSUME NEW s \in Slots, DropReservation(s) PROVE SlotStep
  <2>1. handle[s].kind \in HolderKinds
    BY <1>2 DEF DropReservation, Owns, HolderKinds
  <2> QED BY <1>0, <1>2, <2>1, ReleaseSlot DEF DropReservation
<1>3. ASSUME NEW s \in Slots, NEW c \in Conns, AttachActiveReservation(s, c) PROVE SlotStep
  <2> DEFINE r == [handle[s] EXCEPT !.kind = "original", !.conn = c]
  <2>1. handle[s].kind \in HolderKinds /\ active' = active
    BY <1>3 DEF AttachActiveReservation, Owns, HolderKinds
  <2>2. handle' = [handle EXCEPT ![s] = r]
    BY <1>3 DEF AttachActiveReservation, TypeOK
  <2>3. r.kind \in HolderKinds /\ r.key = handle[s].key
    BY Owned DEF HolderKinds, Handle
  <2> QED BY <2>1, <2>2, <2>3, HandOverSlot
<1>4. ASSUME NEW s \in Slots, RekeyActive(s) PROVE SlotStep
  BY <1>4, RekeySlot
<1>5. ASSUME NEW s \in Slots, NEW k \in Keys, NEW M, CheckoutMatching(s, k, M) PROVE SlotStep
  <2> DEFINE r == CheckedOut(idle[k][Hit(idle[k], M)].conn, k)
  <2>1. handle[s].kind \notin HolderKinds
    BY <1>5 DEF CheckoutMatching, Owns, HolderKinds
  <2>2. r.kind \in HolderKinds /\ r.key = k
    BY DEF HolderKinds, CheckedOut
  <2> QED BY <1>5, <2>1, <2>2, AcquireSlot DEF CheckoutMatching
<1>6. ASSUME NEW s \in Slots, NEW h \in Hosts, NEW a, NEW route, CheckoutCoalesced(s, h, a, route)
      PROVE  SlotStep
  <2>1. PICK k \in Keys : \E i \in DOMAIN idle[k] :
          /\ UnderCap(k)
          /\ active' = [active EXCEPT ![k] = @ + 1]
          /\ handle' = [handle EXCEPT ![s] = CheckedOut(idle[k][i].conn, k)]
    BY <1>6 DEF CheckoutCoalesced, CoalesceCandidate
  <2>2. PICK i \in DOMAIN idle[k] :
          /\ UnderCap(k)
          /\ active' = [active EXCEPT ![k] = @ + 1]
          /\ handle' = [handle EXCEPT ![s] = CheckedOut(idle[k][i].conn, k)]
    BY <2>1
  <2> DEFINE r == CheckedOut(idle[k][i].conn, k)
  <2>3. handle[s].kind \notin HolderKinds
    BY <1>6 DEF CheckoutCoalesced, Owns, HolderKinds
  <2>4. r.kind \in HolderKinds /\ r.key = k
    BY DEF HolderKinds, CheckedOut
  <2> QED BY <2>2, <2>3, <2>4, AcquireSlot
<1>7. ASSUME NEW s \in Slots, ShareFresh(s) PROVE SlotStep
  <2> DEFINE r == [handle[s] EXCEPT !.kind = "clone"]
  <2>1. handle[s].kind \in HolderKinds /\ active' = active
    BY <1>7 DEF ShareFresh, Owns, HolderKinds
  <2>2. handle' = [handle EXCEPT ![s] = r]
    BY <1>7 DEF ShareFresh, TypeOK
  <2>3. r.kind \in HolderKinds /\ r.key = handle[s].key
    BY Owned DEF HolderKinds, Handle
  <2> QED BY <2>1, <2>2, <2>3, HandOverSlot
<1>8. ASSUME NEW s \in Slots, CheckinDeferred(s) PROVE SlotStep
  <2> DEFINE r == [handle[s] EXCEPT !.kind = "draining"]
  <2>1. handle[s].kind \in HolderKinds /\ active' = active
    BY <1>8 DEF CheckinDeferred, Owns, HolderKinds
  <2>2. handle' = [handle EXCEPT ![s] = r]
    BY <1>8 DEF CheckinDeferred, TypeOK
  <2>3. r.kind \in HolderKinds /\ r.key = handle[s].key
    BY Owned DEF HolderKinds, Handle
  <2> QED BY <2>1, <2>2, <2>3, HandOverSlot
<1>9. ASSUME NEW s \in Slots, CheckinNow(s) \/ CheckinDrained(s) \/ DrainAbandoned(s) \/ DropHandle(s)
      PROVE  SlotStep
  <2>1. handle[s].kind \in HolderKinds
    BY <1>9 DEF CheckinNow, CheckinAllowed, CheckinDrained, DrainAbandoned, DropHandle, Owns, HolderKinds
  <2>2. /\ active' = [active EXCEPT ![handle[s].key] = Decremented(handle[s].key)]
        /\ handle' = [handle EXCEPT ![s] = Nothing]
    BY <1>9 DEF CheckinNow, CheckinDrained, DrainAbandoned, DropHandle
  <2> QED BY <1>0, <2>1, <2>2, ReleaseSlot
<1>10. ASSUME NEW s \in Slots, RetainConnectStreamPermit(s) PROVE SlotStep
  <2> DEFINE r == [handle[s] EXCEPT !.kind = "permit", !.key = NoKey]
  <2>1. handle[s].kind \in HolderKinds
    BY <1>10 DEF RetainConnectStreamPermit, Owns, HolderKinds
  <2>2. handle' = [handle EXCEPT ![s] = r]
    BY <1>10 DEF RetainConnectStreamPermit, TypeOK
  <2>3. r.kind \notin HolderKinds
    BY Owned DEF HolderKinds, Handle
  <2> QED BY <1>10, <2>1, <2>2, <2>3, ReleaseSlot DEF RetainConnectStreamPermit
<1>11. ASSUME NEW s \in Slots, DropPermit(s) PROVE SlotStep
  <2>1. handle[s].kind \notin HolderKinds
    BY <1>11 DEF DropPermit, Owns, HolderKinds
  <2> QED BY <1>11, <2>1, UncountedSlot DEF DropPermit
<1>12. ASSUME NEW s \in Slots, RetireMultiplexTransport(s) PROVE SlotStep
  BY <1>12, RetireSlot
<1>13. ASSUME NEW s \in Slots, RetirePermitTransport(s) \/ Evict(s) \/ SendH1(s) PROVE SlotStep
  BY <1>13, SameSlots DEF RetirePermitTransport, Evict, SendH1
<1>14. ASSUME NEW k, NEW M, CheckoutMatchingMiss(k, M) PROVE SlotStep
  BY <1>14, SameSlots DEF CheckoutMatchingMiss
<1>15. ASSUME NEW h, NEW a, NEW route, CheckoutCoalescedMiss(h, a, route) PROVE SlotStep
  BY <1>15, SameSlots DEF CheckoutCoalescedMiss
<1>16. ASSUME PruneExpired \/ Tick PROVE SlotStep
  BY <1>16, SameSlots DEF PruneExpired, Tick
<1>17. ASSUME NEW c, PeerClose(c) \/ BodyDrained(c) PROVE SlotStep
  BY <1>17, SameSlots DEF PeerClose, BodyDrained
<1> QED BY <1>1, <1>2, <1>3, <1>4, <1>5, <1>6, <1>7, <1>8, <1>9, <1>10, <1>11, <1>12, <1>13,
           <1>14, <1>15, <1>16, <1>17 DEF Next

\* What SlotStep means for the three slot invariants.
LEMMA SlotInvariants ==
  ASSUME TypeOK, TypeOK', SlotStep
  PROVE  /\ NoEarlyRelease => NoEarlyRelease'
         /\ ~Tunnels /\ SlotsBalanced => SlotsBalanced'
         /\ ActiveWithinCap => ActiveWithinCap'
<1>1. ASSUME NEW k \in Keys
      PROVE  /\ active[k] \in Nat /\ active'[k] \in Nat
             /\ Cardinality(Holders(k)) \in Nat /\ Cardinality(Holders(k)') \in Nat
  <2>1. Holders(k) \subseteq Slots /\ Holders(k)' \subseteq Slots
    BY DEF Holders
  <2>2. Cardinality(Holders(k)) \in Nat /\ Cardinality(Holders(k)') \in Nat
    BY <2>1, FiniteAssumption, FS_Subset, FS_CardinalityType
  <2> QED BY <2>2 DEF TypeOK
<1>2. ASSUME NoEarlyRelease PROVE NoEarlyRelease'
  <2> SUFFICES ASSUME NEW k \in Keys PROVE Cardinality(Holders(k)') <= active'[k]
    BY DEF NoEarlyRelease
  <2>1. Slack(k)' >= Slack(k) /\ Cardinality(Holders(k)) <= active[k]
    BY <1>2 DEF SlotStep, NoEarlyRelease
  <2> QED BY <2>1, <1>1 DEF Slack
<1>3. ASSUME ~Tunnels, SlotsBalanced PROVE SlotsBalanced'
  <2> SUFFICES ASSUME NEW k \in Keys PROVE active'[k] = Cardinality(Holders(k)')
    BY DEF SlotsBalanced
  <2>1. Slack(k)' = Slack(k) /\ active[k] = Cardinality(Holders(k))
    BY <1>3 DEF SlotStep, SlotsBalanced
  <2> QED BY <2>1, <1>1 DEF Slack
<1>4. ASSUME ActiveWithinCap PROVE ActiveWithinCap'
  <2> SUFFICES ASSUME MaxActivePerHost # Unlimited, NEW k \in Keys \ RekeyTargets
               PROVE  active'[k] <= MaxActivePerHost
    BY DEF ActiveWithinCap, RekeyTargets
  <2>1. active[k] <= MaxActivePerHost /\ MaxActivePerHost \in Nat
    BY <1>4, LimitAssumption DEF ActiveWithinCap
  <2>2. active'[k] <= active[k] \/ (UnderCap(k) /\ active'[k] = active[k] + 1)
    BY DEF SlotStep
  <2> QED BY <2>1, <2>2, <1>1 DEF UnderCap
<1> QED BY <1>2, <1>3, <1>4

(***************************************************************************)
(* Stream permits.  A step of slot s changes the counter of a transport by *)
(* what it changes in the permits held, and raises it only below the cap.  *)
(***************************************************************************)
PermitKinds == {"clone", "permit"}

StreamStep(s) ==
  /\ OnlySlot(s)
  /\ \A c \in Conns :
       /\ conn'[c].streams =
            conn[c].streams + Unit(PermitFor(handle'[s], c)) - Unit(PermitFor(handle[s], c))
       /\ conn'[c].streams <= conn[c].streams
          \/ (PermitAvailable(c) /\ conn'[c].streams = conn[c].streams + 1)

\* A step that touches no stream permit of its slot.
LEMMA NoPermitTouched ==
  ASSUME TypeOK, NEW s \in Slots, NEW r, handle' = [handle EXCEPT ![s] = r],
         handle[s].kind \notin PermitKinds, r.kind \notin PermitKinds,
         \A c \in Conns : conn'[c].streams = conn[c].streams
  PROVE  StreamStep(s)
<1>1. OnlySlot(s) /\ handle'[s] = r
  BY DEF OnlySlot, TypeOK
<1>2. \A c \in Conns : conn[c].streams \in Nat
  BY DEF TypeOK, Transport
<1>3. \A c \in Conns : Unit(PermitFor(handle'[s], c)) = 0 /\ Unit(PermitFor(handle[s], c)) = 0
  BY <1>1 DEF PermitFor, PermitKinds, Unit
<1> QED BY <1>1, <1>2, <1>3 DEF StreamStep

\* clone_for_multiplex_with_limit: a clone is made together with its permit.
LEMMA PermitAcquired ==
  ASSUME TypeOK, NEW s \in Slots, NEW r, handle' = [handle EXCEPT ![s] = r],
         NEW x \in Multiplexed, handle[s].kind \notin PermitKinds,
         r.kind = "clone", r.conn = x, PermitAvailable(x), conn' = PermitTaken(x)
  PROVE  StreamStep(s)
<1>1. OnlySlot(s) /\ handle'[s] = r
  BY DEF OnlySlot, TypeOK
<1>2. ASSUME NEW c \in Conns
      PROVE  conn[c].streams \in Nat /\ conn'[c].streams = conn[c].streams + Unit(c = x)
  <2>1. conn \in [Conns -> Transport] /\ conn[c] \in Transport /\ x \in Conns
    BY AttributeAssumption DEF TypeOK
  <2>2. conn' = [conn EXCEPT ![x].streams = @ + 1]
    BY DEF PermitTaken
  <2> QED BY <2>1, <2>2 DEF Unit, Transport
<1>3. \A c \in Conns : Unit(PermitFor(handle'[s], c)) = Unit(c = x) /\ Unit(PermitFor(handle[s], c)) = 0
  BY <1>1 DEF PermitFor, PermitKinds, Unit
<1> QED BY <1>1, <1>2, <1>3 DEF StreamStep, Unit

\* Dropping a clone or an upgraded response gives its permit back.
LEMMA PermitGivenBack ==
  ASSUME TypeOK, NEW s \in Slots, handle' = [handle EXCEPT ![s] = Nothing],
         handle[s].kind \in PermitKinds,
         \A c \in Conns : conn'[c].streams = conn[c].streams - Unit(c = handle[s].conn)
  PROVE  StreamStep(s)
<1>1. OnlySlot(s) /\ handle'[s] = Nothing
  BY DEF OnlySlot, TypeOK
<1>2. \A c \in Conns : conn[c].streams \in Nat
  BY DEF TypeOK, Transport
<1>3. \A c \in Conns : /\ Unit(PermitFor(handle'[s], c)) = 0
                       /\ Unit(PermitFor(handle[s], c)) = Unit(c = handle[s].conn)
  BY <1>1 DEF PermitFor, PermitKinds, Unit, Nothing
<1> QED BY <1>1, <1>2, <1>3 DEF StreamStep, Unit

\* The counters once slot s has dropped its handle.
LEMMA ReleasedCounters ==
  ASSUME TypeOK, NEW s \in Slots
  PROVE  \A c \in Conns :
           PermitReleased(s)[c].streams =
             conn[c].streams - Unit(Owns(s, {"clone"}) /\ c = handle[s].conn)
<1> SUFFICES ASSUME NEW c \in Conns
             PROVE  PermitReleased(s)[c].streams =
                      conn[c].streams - Unit(Owns(s, {"clone"}) /\ c = handle[s].conn)
  OBVIOUS
<1>1. conn \in [Conns -> Transport] /\ conn[c] \in Transport /\ conn[c].streams \in Nat
  BY DEF TypeOK, Transport
<1>2. CASE Owns(s, {"clone"})
  <2>1. PermitReleased(s) = [conn EXCEPT ![handle[s].conn].streams = @ - 1]
    BY <1>2 DEF PermitReleased
  <2> QED BY <1>1, <1>2, <2>1 DEF Unit, Transport
<1>3. CASE ~Owns(s, {"clone"})
  BY <1>1, <1>3 DEF PermitReleased, Unit
<1> QED BY <1>2, <1>3

\* Dropping a handle, with or without a permit.
LEMMA HandleDropped ==
  ASSUME TypeOK, NEW s \in Slots, Owns(s, {"original", "clone"}),
         handle' = [handle EXCEPT ![s] = Nothing],
         \A c \in Conns : conn'[c].streams = PermitReleased(s)[c].streams
  PROVE  StreamStep(s)
<1>1. \A c \in Conns : conn[c].streams \in Nat
  BY DEF TypeOK, Transport
<1>2. CASE handle[s].kind = "clone"
  <2>1. \A c \in Conns : conn'[c].streams = conn[c].streams - Unit(c = handle[s].conn)
    BY <1>2, ReleasedCounters DEF Owns, Unit
  <2> QED BY <1>2, <2>1, PermitGivenBack DEF PermitKinds
<1>3. CASE handle[s].kind = "original"
  <2>1. \A c \in Conns : conn'[c].streams = conn[c].streams
    BY <1>1, <1>3, ReleasedCounters DEF Owns, Unit
  <2>2. handle[s].kind \notin PermitKinds /\ Nothing.kind \notin PermitKinds
    BY <1>3 DEF PermitKinds, Nothing
  <2> QED BY <2>1, <2>2, NoPermitTouched
<1> QED BY <1>2, <1>3 DEF Owns

\* A dialled transport is one nobody holds a permit of.
LEMMA DialledCounters ==
  ASSUME TypeOK, StreamsExact, NEW c \in Conns, Unreferenced(c),
         conn' = [conn EXCEPT ![c] = FreshConn]
  PROVE  \A x \in Conns : conn'[x].streams = conn[x].streams
<1>1. PermitHolders(c) = {}
  BY DEF PermitHolders, Unreferenced
<1>2. conn[c].streams = 0
  BY <1>1, FS_EmptySet DEF StreamsExact
<1> QED BY <1>2 DEF TypeOK, FreshConn

\* Every step is a StreamStep of some slot, or touches no handle and no counter.
NoStreamStep == UNCHANGED handle /\ \A c \in Conns : conn'[c].streams = conn[c].streams

\* Every step moves at most one slot's permit, and the stream counters with it.
LEMMA StreamStepAll ==
  TypeOK /\ StreamsExact /\ Next => NoStreamStep \/ \E s \in Slots : StreamStep(s)
<1> SUFFICES ASSUME TypeOK, StreamsExact, Next
             PROVE  NoStreamStep \/ \E s \in Slots : StreamStep(s)
  OBVIOUS
<1>0. /\ Nothing.kind \notin PermitKinds
      /\ \A c \in Conns : conn[c].streams \in Nat
  BY DEF Nothing, PermitKinds, TypeOK, Transport
<1>1. ASSUME NEW s \in Slots, NEW k \in Keys, TryReserveActive(s, k) PROVE StreamStep(s)
  <2> DEFINE r == [kind |-> "reservation", key |-> k, conn |-> NoConn]
  <2>1. handle[s].kind \notin PermitKinds /\ r.kind \notin PermitKinds
    BY <1>1 DEF TryReserveActive, Owns, PermitKinds
  <2> QED BY <1>1, <2>1, NoPermitTouched DEF TryReserveActive
<1>2. ASSUME NEW s \in Slots, DropReservation(s) \/ CheckinNow(s) \/ CheckinDrained(s) \/ DrainAbandoned(s)
      PROVE  StreamStep(s)
  <2>1. handle[s].kind \notin PermitKinds
    BY <1>2 DEF DropReservation, CheckinNow, CheckinAllowed, CheckinDrained, DrainAbandoned, Owns, PermitKinds
  <2>2. handle' = [handle EXCEPT ![s] = Nothing] /\ conn' = conn
    BY <1>2 DEF DropReservation, CheckinNow, CheckinDrained, DrainAbandoned
  <2> QED BY <1>0, <2>1, <2>2, NoPermitTouched
<1>3. ASSUME NEW s \in Slots, NEW c \in Conns, AttachActiveReservation(s, c) PROVE StreamStep(s)
  <2> DEFINE r == [handle[s] EXCEPT !.kind = "original", !.conn = c]
  <2>1. handle' = [handle EXCEPT ![s] = r]
    BY <1>3 DEF AttachActiveReservation, TypeOK
  <2>2. handle[s].kind \notin PermitKinds /\ r.kind \notin PermitKinds
    BY <1>3, Owned DEF AttachActiveReservation, Owns, PermitKinds, Handle
  <2>3. \A x \in Conns : conn'[x].streams = conn[x].streams
    BY <1>3, DialledCounters DEF AttachActiveReservation
  <2> QED BY <2>1, <2>2, <2>3, NoPermitTouched
<1>4. ASSUME NEW s \in Slots, RekeyActive(s) PROVE StreamStep(s)
  <2> DEFINE r == [kind |-> "original", key |-> AutoOf[handle[s].key], conn |-> handle[s].conn]
  <2>1. handle' = [handle EXCEPT ![s] = r]
    BY <1>4 DEF RekeyActive
  <2>2. handle[s].kind \notin PermitKinds /\ r.kind \notin PermitKinds
    BY <1>4 DEF RekeyActive, Owns, PermitKinds
  <2>3. \A x \in Conns : conn'[x].streams = conn[x].streams
    BY <1>4 DEF RekeyActive
  <2> QED BY <2>1, <2>2, <2>3, NoPermitTouched
<1>5. ASSUME NEW s \in Slots, NEW k \in Keys, NEW c \in Conns, Owns(s, {"none"}),
             c \in Multiplexed => PermitAvailable(c),
             conn' = PermitTaken(c), handle' = [handle EXCEPT ![s] = CheckedOut(c, k)]
      PROVE  StreamStep(s)
  <2> DEFINE r == CheckedOut(c, k)
  <2>1. handle[s].kind \notin PermitKinds
    BY <1>5 DEF Owns, PermitKinds
  <2>2. CASE c \in Multiplexed
    <3>1. r.kind = "clone" /\ r.conn = c
      BY <2>2 DEF CheckedOut
    <3> QED BY <1>5, <2>1, <2>2, <3>1, PermitAcquired
  <2>3. CASE c \notin Multiplexed
    <3>1. r.kind \notin PermitKinds /\ conn' = conn
      BY <1>5, <2>3 DEF CheckedOut, PermitKinds, PermitTaken
    <3> QED BY <1>5, <2>1, <3>1, NoPermitTouched
  <2> QED BY <2>2, <2>3
<1>6. ASSUME NEW s \in Slots, NEW k \in Keys, NEW M, CheckoutMatching(s, k, M) PROVE StreamStep(s)
  <2> DEFINE q == idle[k]
             c == q[Hit(q, M)].conn
  <2>1. q \in Seq(Entry) /\ Hit(q, M) > 0
    BY <1>6 DEF TypeOK, CheckoutMatching
  <2>2. c \in Conns /\ Usable(q, M, Hit(q, M))
    BY <2>1, CheckoutQueueType, HitDefined
  <2>3. c \in Multiplexed => PermitAvailable(c)
    BY <2>2 DEF Usable
  <2>4. Owns(s, {"none"}) /\ conn' = PermitTaken(c) /\ handle' = [handle EXCEPT ![s] = CheckedOut(c, k)]
    BY <1>6 DEF CheckoutMatching
  <2> HIDE DEF c, q
  <2> QED BY <1>5, <2>2, <2>3, <2>4
<1>7. ASSUME NEW s \in Slots, NEW h \in Hosts, NEW a, NEW route, CheckoutCoalesced(s, h, a, route)
      PROVE  StreamStep(s)
  <2>1. PICK k \in Keys : \E i \in DOMAIN idle[k] :
          /\ CoalesceUsable(k, i, h, a)
          /\ conn' = PermitTaken(idle[k][i].conn)
          /\ handle' = [handle EXCEPT ![s] = CheckedOut(idle[k][i].conn, k)]
    BY <1>7 DEF CheckoutCoalesced
  <2>2. PICK i \in DOMAIN idle[k] :
          /\ CoalesceUsable(k, i, h, a)
          /\ conn' = PermitTaken(idle[k][i].conn)
          /\ handle' = [handle EXCEPT ![s] = CheckedOut(idle[k][i].conn, k)]
    BY <2>1
  <2> DEFINE c == idle[k][i].conn
  <2>3. idle[k][i] \in Entry
    BY DEF TypeOK
  <2>4. c \in Conns /\ PermitAvailable(c) /\ Owns(s, {"none"})
    BY <1>7, <2>2, <2>3 DEF Entry, CoalesceUsable, CheckoutCoalesced
  <2> HIDE DEF c
  <2> QED BY <1>5, <2>2, <2>4 DEF c
<1>8. ASSUME NEW s \in Slots, ShareFresh(s) PROVE StreamStep(s)
  <2> DEFINE r == [handle[s] EXCEPT !.kind = "clone"]
             c == handle[s].conn
  <2>1. handle' = [handle EXCEPT ![s] = r]
    BY <1>8 DEF ShareFresh, TypeOK
  <2>2. r.kind = "clone" /\ r.conn = c
    BY Owned DEF Handle
  <2>3. c \in Multiplexed /\ PermitAvailable(c) /\ conn' = PermitTaken(c) /\ handle[s].kind \notin PermitKinds
    BY <1>8 DEF ShareFresh, Owns, PermitKinds
  <2> QED BY <2>1, <2>2, <2>3, PermitAcquired
<1>9. ASSUME NEW s \in Slots, CheckinDeferred(s) PROVE StreamStep(s)
  <2> DEFINE r == [handle[s] EXCEPT !.kind = "draining"]
  <2>1. handle' = [handle EXCEPT ![s] = r] /\ conn' = conn
    BY <1>9 DEF CheckinDeferred, TypeOK
  <2>2. r.kind \notin PermitKinds /\ handle[s].kind \notin PermitKinds
    BY <1>9, Owned DEF Handle, CheckinDeferred, Owns, PermitKinds
  <2> QED BY <2>1, <2>2, NoPermitTouched
<1>10. ASSUME NEW s \in Slots, DropHandle(s) PROVE StreamStep(s)
  BY <1>10, HandleDropped DEF DropHandle
<1>11. ASSUME NEW s \in Slots, RetireMultiplexTransport(s) PROVE StreamStep(s)
  <2>1. Owns(s, {"original", "clone"}) /\ handle' = [handle EXCEPT ![s] = Nothing]
        /\ conn' = [PermitReleased(s) EXCEPT ![handle[s].conn].retired = TRUE]
    BY <1>11 DEF RetireMultiplexTransport
  <2>2. PermitReleased(s) \in [Conns -> Transport]
    BY PermitReleasedType
  <2>3. \A c \in Conns : conn'[c].streams = PermitReleased(s)[c].streams
    BY <2>1, <2>2 DEF Transport
  <2> QED BY <2>1, <2>3, HandleDropped
<1>12. ASSUME NEW s \in Slots, RetainConnectStreamPermit(s) PROVE StreamStep(s)
  <2> DEFINE r == [handle[s] EXCEPT !.kind = "permit", !.key = NoKey]
  <2>1. handle' = [handle EXCEPT ![s] = r] /\ conn' = conn /\ handle[s].kind = "clone"
    BY <1>12 DEF RetainConnectStreamPermit, TypeOK, Owns
  <2>2. OnlySlot(s) /\ handle'[s] = r
    BY <2>1 DEF OnlySlot, TypeOK
  <2>3. r.kind = "permit" /\ r.conn = handle[s].conn
    BY Owned DEF Handle
  <2>4. \A c \in Conns : Unit(PermitFor(handle'[s], c)) = Unit(PermitFor(handle[s], c))
                         /\ Unit(PermitFor(handle[s], c)) \in Int
    BY <2>1, <2>2, <2>3 DEF PermitFor, Unit
  <2> QED BY <1>0, <2>1, <2>2, <2>4 DEF StreamStep
<1>13. ASSUME NEW s \in Slots, DropPermit(s) PROVE StreamStep(s)
  <2>1. handle[s].kind \in PermitKinds /\ handle' = [handle EXCEPT ![s] = Nothing]
        /\ conn' = [conn EXCEPT ![handle[s].conn].streams = @ - 1]
    BY <1>13 DEF DropPermit, Owns, PermitKinds
  <2>2. \A c \in Conns : conn'[c].streams = conn[c].streams - Unit(c = handle[s].conn)
    <3> TAKE c \in Conns
    <3>1. conn \in [Conns -> Transport] /\ conn[c] \in Transport /\ conn[c].streams \in Nat
      BY DEF TypeOK, Transport
    <3> QED BY <2>1, <3>1 DEF Unit, Transport
  <2> QED BY <2>1, <2>2, PermitGivenBack
<1>14. ASSUME NEW s \in Slots, RetirePermitTransport(s) \/ Evict(s) \/ SendH1(s) PROVE NoStreamStep
  <2>1. \A c \in Conns : conn[c] \in Transport
    BY DEF TypeOK
  <2>2. CASE RetirePermitTransport(s)
    BY <2>1, <2>2 DEF RetirePermitTransport, NoStreamStep, TypeOK, Transport
  <2>3. CASE Evict(s)
    BY <2>3 DEF Evict, NoStreamStep
  <2>4. CASE SendH1(s)
    BY <2>1, <2>4 DEF SendH1, NoStreamStep, TypeOK, Transport
  <2> QED BY <1>14, <2>2, <2>3, <2>4
<1>15. ASSUME NEW k, NEW M, CheckoutMatchingMiss(k, M) PROVE NoStreamStep
  BY <1>15 DEF CheckoutMatchingMiss, NoStreamStep
<1>16. ASSUME NEW h, NEW a, NEW route, CheckoutCoalescedMiss(h, a, route) PROVE NoStreamStep
  BY <1>16 DEF CheckoutCoalescedMiss, NoStreamStep
<1>17. ASSUME PruneExpired \/ Tick PROVE NoStreamStep
  <2>1. CASE PruneExpired
    BY <2>1 DEF PruneExpired, NoStreamStep
  <2>2. CASE Tick
    <3>1. handle' = handle /\ conn' = [c \in Conns |-> [conn[c] EXCEPT !.age = Older(@, MaxLifetime)]]
      BY <2>2 DEF Tick
    <3>2. \A c \in Conns : conn[c] \in Transport
      BY DEF TypeOK
    <3>3. \A c \in Conns : conn'[c].streams = conn[c].streams
      BY <3>1, <3>2 DEF Transport
    <3> QED BY <3>1, <3>3 DEF NoStreamStep
  <2> QED BY <1>17, <2>1, <2>2
<1>18. ASSUME NEW c \in Conns, PeerClose(c) \/ BodyDrained(c) PROVE NoStreamStep
  BY <1>18 DEF PeerClose, BodyDrained, NoStreamStep, TypeOK, Transport
<1> QED BY <1>1, <1>2, <1>3, <1>4, <1>6, <1>7, <1>8, <1>9, <1>10, <1>11, <1>12, <1>13, <1>14,
           <1>15, <1>16, <1>17, <1>18 DEF Next

\* Such a step keeps the counters exact and below max_active_streams.
LEMMA StreamInvariants ==
  ASSUME TypeOK, TypeOK', StreamsExact, NoStreamStep \/ \E s \in Slots : StreamStep(s)
  PROVE  StreamsExact' /\ (StreamsWithinCap => StreamsWithinCap')
<1>0. \A c \in Conns : conn[c].streams \in Nat /\ conn'[c].streams \in Nat
  BY DEF TypeOK, Transport
<1>1. CASE NoStreamStep
  <2>1. \A c : PermitHolders(c)' = PermitHolders(c)
    BY <1>1 DEF NoStreamStep, PermitHolders
  <2> QED BY <1>1, <2>1 DEF NoStreamStep, StreamsExact, StreamsWithinCap
<1>2. CASE \E s \in Slots : StreamStep(s)
  <2>1. PICK s \in Slots : StreamStep(s)
    BY <1>2
  <2>2. ASSUME NEW c \in Conns PROVE conn'[c].streams = Cardinality(PermitHolders(c)')
    <3>1. Cardinality(PermitHolders(c)') =
            Cardinality(PermitHolders(c)) + Unit(PermitFor(handle'[s], c)) - Unit(PermitFor(handle[s], c))
      BY <2>1, PermitCount DEF StreamStep
    <3>2. conn'[c].streams =
            conn[c].streams + Unit(PermitFor(handle'[s], c)) - Unit(PermitFor(handle[s], c))
      BY <2>1 DEF StreamStep
    <3>3. conn[c].streams = Cardinality(PermitHolders(c))
      BY DEF StreamsExact
    <3> QED BY <3>1, <3>2, <3>3
  <2>3. StreamsExact'
    BY <2>2 DEF StreamsExact
  <2>4. ASSUME StreamsWithinCap, MaxActiveStreams # Unlimited, NEW c \in Conns
        PROVE  conn'[c].streams <= MaxActiveStreams
    <3>1. conn[c].streams <= MaxActiveStreams /\ MaxActiveStreams \in Nat
      BY <2>4, LimitAssumption DEF StreamsWithinCap
    <3>2. conn'[c].streams <= conn[c].streams
          \/ (PermitAvailable(c) /\ conn'[c].streams = conn[c].streams + 1)
      BY <2>1 DEF StreamStep
    <3> QED BY <1>0, <2>4, <3>1, <3>2 DEF PermitAvailable
  <2> QED BY <2>3, <2>4 DEF StreamsWithinCap
<1> QED BY <1>1, <1>2

(***************************************************************************)
(* The inductive invariant and the theorems.                               *)
(***************************************************************************)
Inv == TypeOK /\ StreamsExact /\ NoEarlyRelease /\ ActiveWithinCap /\ StreamsWithinCap

\* A new pool satisfies the inductive invariant.
LEMMA InitInv == Init => Inv /\ SlotsBalanced
<1> SUFFICES ASSUME Init PROVE Inv /\ SlotsBalanced
  OBVIOUS
<1>1. TypeOK
  BY InitType
<1>2. \A k : Holders(k) = {}
  BY DEF Init, Holders, Nothing, HolderKinds
<1>3. \A c : PermitHolders(c) = {}
  BY DEF Init, PermitHolders, Nothing
<1>4. NoEarlyRelease /\ SlotsBalanced
  <2>1. \A k \in Keys : Cardinality(Holders(k)) = 0 /\ active[k] = 0
    BY <1>2, FS_EmptySet DEF Init
  <2> QED BY <2>1 DEF NoEarlyRelease, SlotsBalanced
<1>5. StreamsExact
  BY <1>3, FS_EmptySet DEF Init, StreamsExact, FreshConn
<1>6. ActiveWithinCap /\ StreamsWithinCap
  BY LimitAssumption DEF Init, ActiveWithinCap, StreamsWithinCap, FreshConn
<1> QED BY <1>1, <1>4, <1>5, <1>6 DEF Inv

\* Every step keeps the inductive invariant and, without CONNECT tunnels, the
\* balance of the slots.
LEMMA InvStep == Inv /\ [Next]_vars => Inv' /\ (~Tunnels /\ SlotsBalanced => SlotsBalanced')
<1> SUFFICES ASSUME Inv, [Next]_vars PROVE Inv' /\ (~Tunnels /\ SlotsBalanced => SlotsBalanced')
  OBVIOUS
<1>1. TypeOK /\ TypeOK'
  BY TypeStep DEF Inv
<1>2. CASE Next
  <2>1. SlotStep
    BY <1>1, <1>2, SlotStepAll DEF Inv
  <2>2. NoStreamStep \/ \E s \in Slots : StreamStep(s)
    BY <1>1, <1>2, StreamStepAll DEF Inv
  <2> QED BY <1>1, <2>1, <2>2, SlotInvariants, StreamInvariants DEF Inv
<1>3. CASE UNCHANGED vars
  <2>1. SlotStep
    BY <1>1, <1>3, SameSlots DEF vars
  <2>2. NoStreamStep
    BY <1>3 DEF vars, NoStreamStep
  <2> QED BY <1>1, <2>1, <2>2, SlotInvariants, StreamInvariants DEF Inv
<1> QED BY <1>2, <1>3

\* The pool, its transports and its handles keep their types: in particular no
\* counter ever goes below zero, although active counts and stream counters are
\* decremented by destructors, background tasks and responses.
THEOREM TypeCorrect == Spec => []TypeOK
<1>1. Init => Inv
  BY InitInv
<1>2. Inv /\ [Next]_vars => Inv'
  BY InvStep
<1>3. Inv => TypeOK
  BY DEF Inv
<1> QED BY <1>1, <1>2, <1>3, PTL DEF Spec

\* No active unit is given back while its owner still holds the slot.
THEOREM NoEarlyReleaseHolds == Spec => []NoEarlyRelease
<1>1. Init => Inv
  BY InitInv
<1>2. Inv /\ [Next]_vars => Inv'
  BY InvStep
<1>3. Inv => NoEarlyRelease
  BY DEF Inv
<1> QED BY <1>1, <1>2, <1>3, PTL DEF Spec

\* Without CONNECT tunnels every check-in and every drop releases its slot exactly
\* once: the active count of a key is the number of its owners.
THEOREM SlotsBalancedHolds == ~Tunnels => (Spec => []SlotsBalanced)
<1> SUFFICES ASSUME ~Tunnels PROVE Spec => []SlotsBalanced
  OBVIOUS
<1>1. Init => Inv /\ SlotsBalanced
  BY InitInv
<1>2. (Inv /\ SlotsBalanced) /\ [Next]_vars => (Inv /\ SlotsBalanced)'
  BY InvStep
<1> QED BY <1>1, <1>2, PTL DEF Spec

\* The active cap holds for every key an adaptive dial is never moved to.
THEOREM ActiveWithinCapHolds == Spec => []ActiveWithinCap
<1>1. Init => Inv
  BY InitInv
<1>2. Inv /\ [Next]_vars => Inv'
  BY InvStep
<1>3. Inv => ActiveWithinCap
  BY DEF Inv
<1> QED BY <1>1, <1>2, <1>3, PTL DEF Spec

\* The stream counter of every transport is the number of permits alive.
THEOREM StreamsExactHolds == Spec => []StreamsExact
<1>1. Init => Inv
  BY InitInv
<1>2. Inv /\ [Next]_vars => Inv'
  BY InvStep
<1>3. Inv => StreamsExact
  BY DEF Inv
<1> QED BY <1>1, <1>2, <1>3, PTL DEF Spec

\* The stream cap is never exceeded, whoever holds the permits.
THEOREM StreamsWithinCapHolds == Spec => []StreamsWithinCap
<1>1. Init => Inv
  BY InitInv
<1>2. Inv /\ [Next]_vars => Inv'
  BY InvStep
<1>3. Inv => StreamsWithinCap
  BY DEF Inv
<1> QED BY <1>1, <1>2, <1>3, PTL DEF Spec


(***************************************************************************)
(* Ownership.  What the queues of the pool name, and how the scans, pushes *)
(* and prunings of a queue change that.                                    *)
(***************************************************************************)
Names(q) == {q[i].conn : i \in DOMAIN q}
Distinct(q) == \A i, j \in DOMAIN q : q[i].conn = q[j].conn => i = j

\* A queue whose entries name the same transports, position by position.
LEMMA SameNames ==
  ASSUME NEW q, NEW r, DOMAIN r = DOMAIN q, \A i \in DOMAIN q : r[i].conn = q[i].conn
  PROVE  Names(r) = Names(q) /\ (Distinct(q) => Distinct(r))
<1>1. Names(r) = Names(q)
  BY DEF Names
<1>2. Distinct(q) => Distinct(r)
  BY DEF Distinct
<1> QED BY <1>1, <1>2

\* A subsequence names what it kept, each transport as often as before.
LEMMA KeptNames ==
  ASSUME NEW q \in Seq(Entry), NEW I \in SUBSET (1..Len(q))
  PROVE  /\ Names(Keep(q, I)) \subseteq {q[i].conn : i \in I}
         /\ Distinct(q) => Distinct(Keep(q, I))
<1> DEFINE r == Keep(q, I)
<1>1. /\ r \in Seq(Entry)
      /\ \E f \in [1..Len(r) -> I] :
           /\ \A i \in 1..Len(r) : r[i] = q[f[i]]
           /\ \A i, j \in 1..Len(r) : i < j => f[i] < f[j]
  BY KeepSubsequence
<1> HIDE DEF r
<1>2. PICK f \in [1..Len(r) -> I] :
           /\ \A i \in 1..Len(r) : r[i] = q[f[i]]
           /\ \A i, j \in 1..Len(r) : i < j => f[i] < f[j]
  BY <1>1
<1>3. DOMAIN r = 1..Len(r) /\ Len(r) \in Nat /\ DOMAIN q = 1..Len(q) /\ Len(q) \in Nat
  <2>1. ASSUME NEW S, NEW t \in Seq(S) PROVE DOMAIN t = 1..Len(t) /\ Len(t) \in Nat
    OBVIOUS
  <2>2. r \in Seq(Entry)
    BY <1>1
  <2> QED BY <2>1, <2>2
<1>4. ASSUME NEW x \in Names(r) PROVE x \in {q[i].conn : i \in I}
  <2>1. PICK i \in 1..Len(r) : x = r[i].conn
    BY <1>3 DEF Names
  <2>2. f[i] \in I /\ x = q[f[i]].conn
    BY <1>2, <2>1
  <2> QED BY <2>2
<1>5. ASSUME Distinct(q) PROVE Distinct(r)
  <2> SUFFICES ASSUME NEW i \in 1..Len(r), NEW j \in 1..Len(r), r[i].conn = r[j].conn
               PROVE  i = j
    BY <1>3 DEF Distinct
  <2>1. f[i] \in 1..Len(q) /\ f[j] \in 1..Len(q) /\ q[f[i]].conn = q[f[j]].conn
    BY <1>2
  <2>2. f[i] = f[j]
    BY <1>3, <1>5, <2>1 DEF Distinct
  <2>3. ~(i < j) /\ ~(j < i)
    BY <1>2, <1>3, <2>1, <2>2
  <2> QED BY <1>3, <2>3
<1> QED BY <1>4, <1>5 DEF r

\* The scan of a checkout leaves names of the queue, and not the one it took.
LEMMA ScannedNames ==
  ASSUME NEW q \in Seq(Entry), NEW M
  PROVE  /\ Names(Scanned(q, M)) \subseteq Names(q)
         /\ Distinct(q) => Distinct(Scanned(q, M))
         /\ Distinct(q) /\ Hit(q, M) > 0 => q[Hit(q, M)].conn \notin Names(Scanned(q, M))
<1> DEFINE h == Hit(q, M)
           r == [i \in 1..Len(q) |->
                   IF i > h /\ Saturated(q, M, i) THEN [q[i] EXCEPT !.age = 0] ELSE q[i]]
           I == {i \in 1..Len(q) : i < h \/ (i > h /\ PassedOver(q, M, i))}
<1>1. h \in 0..Len(q) /\ Len(q) \in Nat /\ DOMAIN q = 1..Len(q)
  BY HitDefined
<1>2. \A i \in 1..Len(q) : q[i] \in Entry
  OBVIOUS
<1>3. \A i \in 1..Len(q) : r[i].conn = q[i].conn /\ r[i] \in Entry
  BY <1>2 DEF Entry
<1>4. r \in Seq(Entry) /\ Len(r) = Len(q) /\ DOMAIN r = 1..Len(q)
  BY <1>1, <1>3
<1>5. I \in SUBSET (1..Len(r)) /\ h \notin I
  BY <1>1, <1>4
<1> HIDE DEF h, r, I
<1>6. Names(r) = Names(q) /\ (Distinct(q) => Distinct(r))
  BY <1>1, <1>3, <1>4, SameNames
<1>7. /\ Names(Keep(r, I)) \subseteq {r[i].conn : i \in I}
      /\ Distinct(r) => Distinct(Keep(r, I))
  BY <1>4, <1>5, KeptNames
<1>8. Scanned(q, M) = Keep(r, I)
  BY DEF Scanned, h, r, I
<1>9. Names(Keep(r, I)) \subseteq {q[i].conn : i \in I}
  BY <1>3, <1>4, <1>5, <1>7
<1>10. Names(Keep(r, I)) \subseteq Names(q)
  BY <1>1, <1>4, <1>5, <1>9 DEF Names
<1>11. ASSUME Distinct(q), h > 0, q[h].conn \in Names(Keep(r, I)) PROVE FALSE
  <2>1. PICK i \in I : q[i].conn = q[h].conn
    BY <1>9, <1>11
  <2>2. i \in DOMAIN q /\ h \in DOMAIN q
    BY <1>1, <1>4, <1>5, <1>11
  <2>3. i = h
    BY <1>11, <2>1, <2>2 DEF Distinct
  <2> QED BY <1>5, <2>3
<1> QED BY <1>6, <1>7, <1>8, <1>10, <1>11 DEF h

\* Appending a transport that is not there keeps the names distinct.
LEMMA AppendedNames ==
  ASSUME NEW q \in Seq(Entry), NEW e \in Entry
  PROVE  /\ Names(Append(q, e)) \subseteq Names(q) \cup {e.conn}
         /\ Distinct(q) /\ e.conn \notin Names(q) => Distinct(Append(q, e))
<1> DEFINE r == Append(q, e)
<1>1. /\ Len(q) \in Nat /\ DOMAIN q = 1..Len(q)
      /\ DOMAIN r = 1..(Len(q) + 1) /\ r[Len(q) + 1] = e
      /\ \A i \in 1..Len(q) : r[i] = q[i]
  OBVIOUS
<1> HIDE DEF r
<1>2. \A i \in DOMAIN r : i \in DOMAIN q \/ i = Len(q) + 1
  BY <1>1
<1>3. Names(r) \subseteq Names(q) \cup {e.conn}
  BY <1>1, <1>2 DEF Names
<1>4. ASSUME Distinct(q), e.conn \notin Names(q) PROVE Distinct(r)
  <2>1. \A i \in DOMAIN q : q[i].conn # e.conn
    BY <1>4 DEF Names
  <2> QED BY <1>1, <1>2, <1>4, <2>1 DEF Distinct
<1> QED BY <1>3, <1>4 DEF r

\* A multiplexed hit goes back to the end of its queue, which names no more than
\* before, each transport once.
LEMMA CheckoutNames ==
  ASSUME NEW q \in Seq(Entry), NEW M, Hit(q, M) > 0, q[Hit(q, M)].conn \in Multiplexed
  PROVE  /\ Names(CheckoutQueue(q, M)) \subseteq Names(q)
         /\ Distinct(q) => Distinct(CheckoutQueue(q, M))
<1> DEFINE c == q[Hit(q, M)].conn
           e == [conn |-> c, age |-> 0]
           r == Scanned(q, M)
<1>1. Hit(q, M) \in DOMAIN q /\ c \in Conns
  BY CheckoutQueueType
<1>2. c \in Names(q) /\ e \in Entry /\ e.conn = c
  BY <1>1 DEF Names, Entry
<1>3. /\ r \in Seq(Entry) /\ Names(r) \subseteq Names(q)
      /\ Distinct(q) => Distinct(r) /\ c \notin Names(r)
  BY ScannedType, ScannedNames
<1>4. CheckoutQueue(q, M) = Append(r, e)
  BY DEF CheckoutQueue
<1> HIDE DEF c, e, r
<1>5. /\ Names(Append(r, e)) \subseteq Names(r) \cup {e.conn}
      /\ Distinct(r) /\ e.conn \notin Names(r) => Distinct(Append(r, e))
  BY <1>2, <1>3, AppendedNames
<1> QED BY <1>2, <1>3, <1>4, <1>5

\* A check-in adds its own transport only.
LEMMA PushedNames ==
  ASSUME NEW q \in Seq(Entry), NEW c \in Conns, MaxIdlePerHost > 0
  PROVE  /\ Names(Pushed(q, c)) \subseteq Names(q) \cup {c}
         /\ Distinct(q) /\ c \notin Names(q) => Distinct(Pushed(q, c))
<1> DEFINE e == [conn |-> c, age |-> 0]
           r == IF Len(q) >= MaxIdlePerHost THEN Tail(q) ELSE q
<1>1. e \in Entry /\ e.conn = c
  BY DEF Entry
<1>2. r \in Seq(Entry) /\ Names(r) \subseteq Names(q) /\ (Distinct(q) => Distinct(r))
  <2>1. CASE Len(q) >= MaxIdlePerHost
    <3>1. /\ Len(q) \in Nat /\ Len(q) > 0 /\ DOMAIN q = 1..Len(q)
          /\ r = Tail(q) /\ r \in Seq(Entry) /\ DOMAIN r = 1..(Len(q) - 1)
          /\ \A i \in 1..(Len(q) - 1) : r[i] = q[i + 1]
      BY <2>1, LimitAssumption
    <3> HIDE DEF r
    <3>2. \A i \in DOMAIN r : i \in Nat /\ i + 1 \in DOMAIN q /\ r[i] = q[i + 1]
      BY <3>1
    <3>3. Names(r) \subseteq Names(q)
      BY <3>2 DEF Names
    <3>4. Distinct(q) => Distinct(r)
      BY <3>2 DEF Distinct
    <3> QED BY <3>1, <3>3, <3>4
  <2>2. CASE ~(Len(q) >= MaxIdlePerHost)
    BY <2>2
  <2> QED BY <2>1, <2>2
<1>3. Pushed(q, c) = Append(r, e)
  BY DEF Pushed
<1> HIDE DEF e, r
<1>4. /\ Names(Append(r, e)) \subseteq Names(r) \cup {e.conn}
      /\ Distinct(r) /\ e.conn \notin Names(r) => Distinct(Append(r, e))
  BY <1>1, <1>2, AppendedNames
<1> QED BY <1>1, <1>2, <1>3, <1>4

(***************************************************************************)
(* The invariant: every transport is idle at one place, or owned by one    *)
(* slot, and all that refers to it is under one key.                       *)
(***************************************************************************)
OwnerKinds == {"original", "draining"}
CarrierKinds == {"original", "clone", "draining"}

IdleOnce ==
  /\ \A k \in Keys : Distinct(idle[k])
  /\ \A k, j \in Keys : \A c \in Names(idle[k]) : c \in Names(idle[j]) => k = j

OwnedOnce ==
  \A s \in Slots : handle[s].kind \in OwnerKinds =>
    /\ \A t \in Slots : handle[t].kind \in OwnerKinds /\ handle[t].conn = handle[s].conn => t = s
    /\ \A k \in Keys : handle[s].conn \notin Names(idle[k])

KeysAgree ==
  \A s \in Slots : handle[s].kind \in CarrierKinds =>
    /\ \A t \in Slots : handle[t].kind \in CarrierKinds /\ handle[t].conn = handle[s].conn
                          => handle[t].key = handle[s].key
    /\ \A k \in Keys : handle[s].conn \in Names(idle[k]) => k = handle[s].key

OwnerInv == IdleOnce /\ OwnedOnce /\ KeysAgree

(***************************************************************************)
(* The steps of the pool, as far as ownership goes.                        *)
(***************************************************************************)
\* No queue names a transport it did not name before.
IdleShrinks ==
  \A k \in Keys :
    /\ Names(idle'[k]) \subseteq Names(idle[k])
    /\ Distinct(idle[k]) => Distinct(idle'[k])

\* No slot gets hold of a transport.
HandlesFade ==
  \A t \in Slots :
    /\ handle'[t].kind \in CarrierKinds =>
         /\ handle[t].kind \in CarrierKinds
         /\ handle'[t].conn = handle[t].conn /\ handle'[t].key = handle[t].key
    /\ handle'[t].kind \in OwnerKinds => handle[t].kind \in OwnerKinds

\* Slot s comes to hold transport c under key k.
Obtains(s, kind, k, c) ==
  /\ OnlySlot(s)
  /\ handle'[s].kind = kind /\ handle'[s].key = k /\ handle'[s].conn = c

Clones(s, k, c) ==
  IdleShrinks /\ Obtains(s, "clone", k, c) /\ c \in Names(idle[k])

TakesOut(s, k, c) ==
  /\ IdleShrinks /\ Obtains(s, "original", k, c)
  /\ c \in Names(idle[k]) /\ c \notin Multiplexed
  /\ \A j \in Keys : c \notin Names(idle'[j])

Dials(s, k, c) ==
  /\ IdleShrinks /\ Obtains(s, "original", k, c)
  /\ \A j \in Keys : c \notin Names(idle[j])
  /\ \A t \in Slots : handle[t].conn # c

Rekeys(s, k, c) ==
  /\ IdleShrinks /\ Obtains(s, "original", k, c)
  /\ handle[s].kind = "original" /\ handle[s].conn = c /\ c \notin Multiplexed

\* The owner s puts transport c back under its key k.
PutsBack(s, k, c) ==
  /\ OnlySlot(s)
  /\ handle[s].kind \in OwnerKinds /\ handle[s].key = k /\ handle[s].conn = c
  /\ handle'[s].kind \notin OwnerKinds
  /\ handle'[s].kind = "clone" => handle'[s].key = k /\ handle'[s].conn = c
  /\ \A j \in Keys : j # k => idle'[j] = idle[j]
  /\ Names(idle'[k]) \subseteq Names(idle[k]) \cup {c}
  /\ Distinct(idle[k]) /\ c \notin Names(idle[k]) => Distinct(idle'[k])

OwnStep ==
  \/ IdleShrinks /\ HandlesFade
  \/ \E s \in Slots, k \in Keys, c \in Conns :
       \/ Clones(s, k, c) \/ TakesOut(s, k, c) \/ Dials(s, k, c) \/ Rekeys(s, k, c)
       \/ PutsBack(s, k, c)

\* A clone or a permit is of a multiplexed transport.
LEMMA OnlyMultiplexedCloned ==
  ASSUME TypeOK, NEW t \in Slots, handle[t].kind \in CarrierKinds, handle[t].conn \notin Multiplexed
  PROVE  handle[t].kind \in OwnerKinds
BY Owned DEF CarrierKinds, OwnerKinds

\* Steps that only give up keep the invariant.
LEMMA OwnFades ==
  ASSUME OwnerInv, IdleShrinks, HandlesFade
  PROVE  OwnerInv'
<1>1. IdleOnce'
  BY DEF OwnerInv, IdleOnce, IdleShrinks
<1>2. OwnedOnce'
  <2> SUFFICES ASSUME NEW s \in Slots, handle'[s].kind \in OwnerKinds
               PROVE  /\ \A t \in Slots : handle'[t].kind \in OwnerKinds /\ handle'[t].conn = handle'[s].conn => t = s
                      /\ \A k \in Keys : handle'[s].conn \notin Names(idle'[k])
    BY DEF OwnedOnce
  <2>1. ASSUME NEW t \in Slots, handle'[t].kind \in OwnerKinds
        PROVE  handle[t].kind \in OwnerKinds /\ handle'[t].conn = handle[t].conn
    BY <2>1 DEF HandlesFade, OwnerKinds, CarrierKinds
  <2> QED BY <2>1 DEF OwnerInv, OwnedOnce, IdleShrinks
<1>3. KeysAgree'
  BY DEF OwnerInv, KeysAgree, IdleShrinks, HandlesFade
<1> QED BY <1>1, <1>2, <1>3 DEF OwnerInv

\* A clone of an idle transport is one more carrier under the same key.
LEMMA OwnClones ==
  ASSUME OwnerInv, NEW s \in Slots, NEW k \in Keys, NEW c \in Conns, Clones(s, k, c)
  PROVE  OwnerInv'
<1> USE DEF Clones, Obtains, OnlySlot
<1>1. IdleOnce'
  BY DEF OwnerInv, IdleOnce, IdleShrinks
<1>2. OwnedOnce'
  BY DEF OwnerInv, OwnedOnce, IdleShrinks, OwnerKinds
<1>3. \A j \in Keys : c \in Names(idle[j]) => j = k
  BY DEF OwnerInv, IdleOnce
<1>4. \A t \in Slots : handle[t].kind \in CarrierKinds /\ handle[t].conn = c => handle[t].key = k
  BY DEF OwnerInv, KeysAgree
<1>5. KeysAgree'
  <2> SUFFICES ASSUME NEW t \in Slots, handle'[t].kind \in CarrierKinds
               PROVE  /\ \A u \in Slots : handle'[u].kind \in CarrierKinds /\ handle'[u].conn = handle'[t].conn
                                            => handle'[u].key = handle'[t].key
                      /\ \A j \in Keys : handle'[t].conn \in Names(idle'[j]) => j = handle'[t].key
    BY DEF KeysAgree
  <2>1. CASE t = s
    BY <1>3, <1>4, <2>1 DEF IdleShrinks
  <2>2. CASE t # s
    BY <1>4, <2>2 DEF OwnerInv, KeysAgree, IdleShrinks
  <2> QED BY <2>1, <2>2
<1> QED BY <1>1, <1>2, <1>5 DEF OwnerInv

\* A slot that becomes the only carrier of a transport no queue names any more.
LEMMA OwnAlone ==
  ASSUME OwnerInv, IdleShrinks, NEW s \in Slots, NEW k \in Keys, NEW c \in Conns,
         Obtains(s, "original", k, c),
         \A j \in Keys : c \notin Names(idle'[j]),
         \A t \in Slots : t # s /\ handle[t].kind \in CarrierKinds => handle[t].conn # c
  PROVE  OwnerInv'
<1> USE DEF Obtains, OnlySlot
<1>1. IdleOnce'
  BY DEF OwnerInv, IdleOnce, IdleShrinks
<1>2. OwnedOnce'
  <2> SUFFICES ASSUME NEW t \in Slots, handle'[t].kind \in OwnerKinds
               PROVE  /\ \A u \in Slots : handle'[u].kind \in OwnerKinds /\ handle'[u].conn = handle'[t].conn => u = t
                      /\ \A j \in Keys : handle'[t].conn \notin Names(idle'[j])
    BY DEF OwnedOnce
  <2>1. \A u \in Slots : u # s /\ handle'[u].kind \in OwnerKinds => handle'[u].conn # c
    BY DEF OwnerKinds, CarrierKinds
  <2>2. CASE t = s
    BY <2>1, <2>2
  <2>3. CASE t # s
    BY <2>1, <2>3 DEF OwnerInv, OwnedOnce, IdleShrinks
  <2> QED BY <2>2, <2>3
<1>3. KeysAgree'
  <2> SUFFICES ASSUME NEW t \in Slots, handle'[t].kind \in CarrierKinds
               PROVE  /\ \A u \in Slots : handle'[u].kind \in CarrierKinds /\ handle'[u].conn = handle'[t].conn
                                            => handle'[u].key = handle'[t].key
                      /\ \A j \in Keys : handle'[t].conn \in Names(idle'[j]) => j = handle'[t].key
    BY DEF KeysAgree
  <2>1. \A u \in Slots : u # s /\ handle'[u].kind \in CarrierKinds => handle'[u].conn # c
    OBVIOUS
  <2>2. CASE t = s
    BY <2>1, <2>2
  <2>3. CASE t # s
    BY <2>1, <2>3 DEF OwnerInv, KeysAgree, IdleShrinks
  <2> QED BY <2>2, <2>3
<1> QED BY <1>1, <1>2, <1>3 DEF OwnerInv

\* Putting a transport back makes its queue the one place where it is.
LEMMA OwnPutsBack ==
  ASSUME OwnerInv, NEW s \in Slots, NEW k \in Keys, NEW c \in Conns, PutsBack(s, k, c)
  PROVE  OwnerInv'
<1> USE DEF PutsBack, OnlySlot
<1>1. /\ \A j \in Keys : c \notin Names(idle[j])
      /\ \A t \in Slots : t # s /\ handle[t].kind \in OwnerKinds => handle[t].conn # c
  BY DEF OwnerInv, OwnedOnce
<1>2. \A t \in Slots : handle[t].kind \in CarrierKinds /\ handle[t].conn = c => handle[t].key = k
  BY DEF OwnerInv, KeysAgree, OwnerKinds, CarrierKinds
<1>3. \A j \in Keys : \A d \in Names(idle'[j]) : d \in Names(idle[j]) \/ (j = k /\ d = c)
  OBVIOUS
<1>4. IdleOnce'
  <2>1. \A j \in Keys : Distinct(idle'[j])
    BY <1>1 DEF OwnerInv, IdleOnce
  <2>2. \A i, j \in Keys : \A d \in Names(idle'[i]) : d \in Names(idle'[j]) => i = j
    BY <1>1, <1>3 DEF OwnerInv, IdleOnce
  <2> QED BY <2>1, <2>2 DEF IdleOnce
<1>5. OwnedOnce'
  <2> SUFFICES ASSUME NEW t \in Slots, handle'[t].kind \in OwnerKinds
               PROVE  /\ \A u \in Slots : handle'[u].kind \in OwnerKinds /\ handle'[u].conn = handle'[t].conn => u = t
                      /\ \A j \in Keys : handle'[t].conn \notin Names(idle'[j])
    BY DEF OwnedOnce
  <2>1. t # s /\ handle'[t] = handle[t] /\ handle[t].conn # c
    BY <1>1
  <2>2. \A u \in Slots : handle'[u].kind \in OwnerKinds => handle'[u] = handle[u]
    OBVIOUS
  <2> QED BY <1>3, <2>1, <2>2 DEF OwnerInv, OwnedOnce
<1>6. KeysAgree'
  <2> SUFFICES ASSUME NEW t \in Slots, handle'[t].kind \in CarrierKinds
               PROVE  /\ \A u \in Slots : handle'[u].kind \in CarrierKinds /\ handle'[u].conn = handle'[t].conn
                                            => handle'[u].key = handle'[t].key
                      /\ \A j \in Keys : handle'[t].conn \in Names(idle'[j]) => j = handle'[t].key
    BY DEF KeysAgree
  <2>1. \A u \in Slots : handle'[u].kind \in CarrierKinds =>
          /\ handle[u].kind \in CarrierKinds
          /\ handle'[u].conn = handle[u].conn /\ handle'[u].key = handle[u].key
    BY DEF CarrierKinds, OwnerKinds
  <2>2. \A u \in Slots : handle'[u].kind \in CarrierKinds /\ handle'[u].conn = handle'[t].conn
                                            => handle'[u].key = handle'[t].key
    BY <2>1 DEF OwnerInv, KeysAgree
  <2>3. \A j \in Keys : handle'[t].conn \in Names(idle'[j]) => j = handle'[t].key
    BY <1>2, <1>3, <2>1 DEF OwnerInv, KeysAgree
  <2> QED BY <2>2, <2>3
<1> QED BY <1>4, <1>5, <1>6 DEF OwnerInv

\* Every kind of step keeps the invariant.
LEMMA OwnStepKeeps ==
  ASSUME TypeOK, OwnerInv, OwnStep
  PROVE  OwnerInv'
<1>1. CASE IdleShrinks /\ HandlesFade
  BY <1>1, OwnFades
<1>2. ASSUME NEW s \in Slots, NEW k \in Keys, NEW c \in Conns, Clones(s, k, c) PROVE OwnerInv'
  BY <1>2, OwnClones
<1>3. ASSUME NEW s \in Slots, NEW k \in Keys, NEW c \in Conns, PutsBack(s, k, c) PROVE OwnerInv'
  BY <1>3, OwnPutsBack
<1>4. ASSUME NEW s \in Slots, NEW k \in Keys, NEW c \in Conns,
             TakesOut(s, k, c) \/ Dials(s, k, c) \/ Rekeys(s, k, c)
      PROVE  OwnerInv'
  <2>1. IdleShrinks /\ Obtains(s, "original", k, c)
    BY <1>4 DEF TakesOut, Dials, Rekeys
  <2>2. \A j \in Keys : c \notin Names(idle'[j])
    <3>1. CASE TakesOut(s, k, c)
      BY <3>1 DEF TakesOut
    <3>2. CASE Dials(s, k, c)
      BY <3>2 DEF Dials, IdleShrinks
    <3>3. CASE Rekeys(s, k, c)
      BY <3>3 DEF Rekeys, IdleShrinks, OwnerInv, OwnedOnce, OwnerKinds
    <3> QED BY <1>4, <3>1, <3>2, <3>3
  <2>3. ASSUME NEW t \in Slots, t # s, handle[t].kind \in CarrierKinds, handle[t].conn = c
        PROVE  FALSE
    <3>1. CASE TakesOut(s, k, c)
      <4>1. handle[t].kind \in OwnerKinds /\ c \in Names(idle[k])
        BY <2>3, <3>1, OnlyMultiplexedCloned DEF TakesOut
      <4> QED BY <2>3, <4>1 DEF OwnerInv, OwnedOnce
    <3>2. CASE Dials(s, k, c)
      BY <2>3, <3>2 DEF Dials
    <3>3. CASE Rekeys(s, k, c)
      <4>1. handle[t].kind \in OwnerKinds /\ handle[s].kind \in OwnerKinds /\ handle[s].conn = c
        BY <2>3, <3>3, OnlyMultiplexedCloned DEF Rekeys, OwnerKinds
      <4> QED BY <2>3, <4>1 DEF OwnerInv, OwnedOnce
    <3> QED BY <1>4, <3>1, <3>2, <3>3
  <2> QED BY <2>1, <2>2, <2>3, OwnAlone
<1> QED BY <1>1, <1>2, <1>3, <1>4 DEF OwnStep

(***************************************************************************)
(* What a step may do to the busy flags and to the index.                  *)
(***************************************************************************)
\* Only an HTTP/1.1 transport out of the pool becomes busy; a transport enters
\* a queue from its owner, at rest and indexed; the index keeps the keys with a queue.
FlowStep ==
  /\ \A c \in Conns : conn'[c].busy =>
       conn[c].busy \/ (c \notin Multiplexed /\ \A k \in Keys : c \notin Names(idle'[k]))
  /\ \A k \in Keys : \A c \in Names(idle'[k]) :
       \/ c \in Names(idle[k])
       \/ /\ \E s \in Slots : handle[s].kind \in OwnerKinds /\ handle[s].conn = c
          /\ ~conn'[c].busy
          /\ \A h \in SansOf[c] : k \in sanIndex'[h]
  /\ \A k \in Keys, h \in Hosts :
       k \in sanIndex[h] /\ Names(idle'[k]) # {} => k \in sanIndex'[h]

NeverBusy == \A c \in Multiplexed : ~conn[c].busy

\* Queues left alone.
LEMMA SameIdle ==
  ASSUME idle' = idle
  PROVE  IdleShrinks
BY DEF IdleShrinks

\* One queue changed for one that names no more.
LEMMA OneQueue ==
  ASSUME TypeOK, NEW k \in Keys, NEW q, idle' = [idle EXCEPT ![k] = q],
         Names(q) \subseteq Names(idle[k]), Distinct(idle[k]) => Distinct(q)
  PROVE  IdleShrinks
<1>1. \A j \in Keys : idle'[j] = IF j = k THEN q ELSE idle[j]
  BY DEF TypeOK
<1> QED BY <1>1 DEF IdleShrinks

\* An emptied queue names nothing.
LEMMA EmptiedIdle ==
  ASSUME TypeOK, NEW k \in Keys, idle' = [idle EXCEPT ![k] = <<>>]
  PROVE  IdleShrinks
<1>1. Names(<<>>) = {} /\ Distinct(<<>>)
  BY DEF Names, Distinct
<1> QED BY <1>1, OneQueue

\* Handles left alone: no slot gains a transport.
LEMMA SameHandles ==
  ASSUME handle' = handle
  PROVE  HandlesFade
BY DEF HandlesFade

\* A slot that lets go of what it carried.
LEMMA SlotLetsGo ==
  ASSUME TypeOK, NEW s \in Slots, NEW r, handle' = [handle EXCEPT ![s] = r],
         r.kind \notin CarrierKinds
  PROVE  HandlesFade
<1>1. \A t \in Slots : handle'[t] = IF t = s THEN r ELSE handle[t]
  BY DEF TypeOK
<1> QED BY <1>1 DEF HandlesFade, OwnerKinds, CarrierKinds

\* A step that brings nothing in.
LEMMA QuietFlow ==
  ASSUME IdleShrinks, sanIndex' = sanIndex, \A c \in Conns : conn'[c].busy => conn[c].busy
  PROVE  FlowStep
BY DEF IdleShrinks, FlowStep

\* Clean-ups of the index spare every key with a queue.
LEMMA PrunedFlow ==
  ASSUME TypeOK, IdleShrinks, NEW h \in Hosts, sanIndex' = SanIndexPruned(h),
         \A c \in Conns : conn'[c].busy => conn[c].busy
  PROVE  FlowStep
<1>1. \A k \in Keys, g \in Hosts : k \in sanIndex[g] /\ idle[k] # <<>> => k \in sanIndex'[g]
  BY DEF SanIndexPruned, TypeOK
<1>2. \A k \in Keys : Names(idle'[k]) # {} => idle[k] # <<>>
  <2>1. Names(<<>>) = {}
    BY DEF Names
  <2> QED BY <2>1 DEF IdleShrinks
<1> QED BY <1>1, <1>2 DEF IdleShrinks, FlowStep

\* The permits of a transport do not make it busy.
LEMMA PermitsNotBusy ==
  ASSUME TypeOK
  PROVE  /\ \A d \in Conns : \A c \in Conns : PermitTaken(d)[c].busy = conn[c].busy
         /\ \A s \in Slots : \A c \in Conns : PermitReleased(s)[c].busy = conn[c].busy
<1>1. conn \in [Conns -> Transport]
  BY DEF TypeOK
<1>2. ASSUME NEW d \in Conns, NEW c \in Conns PROVE PermitTaken(d)[c].busy = conn[c].busy
  <2>1. conn[c] \in Transport
    BY <1>1
  <2> QED BY <1>1, <2>1 DEF PermitTaken, Transport
<1>3. ASSUME NEW s \in Slots, NEW c \in Conns PROVE PermitReleased(s)[c].busy = conn[c].busy
  <2>1. conn[c] \in Transport
    BY <1>1
  <2> QED BY <1>1, <2>1 DEF PermitReleased, Transport
<1> QED BY <1>2, <1>3

\* The owner s checks its transport in, or loses it to the limits of the pool.
LEMMA CheckinOwned ==
  ASSUME TypeOK, NEW s \in Slots, NEW k \in Keys, NEW c \in Conns, NEW r,
         handle[s].kind \in OwnerKinds, handle[s].key = k, handle[s].conn = c,
         CheckinEntry(k, c), handle' = [handle EXCEPT ![s] = r],
         r.kind \notin OwnerKinds, r.kind \in CarrierKinds => r.key = k /\ r.conn = c,
         ~conn[c].busy, \A d \in Conns : conn'[d].busy = conn[d].busy
  PROVE  OwnStep /\ FlowStep
<1>1. OnlySlot(s) /\ handle'[s] = r
  BY DEF OnlySlot, TypeOK
<1>2. CASE MaxIdlePerHost > 0 /\ WithinLifetime(c)
  <2> DEFINE q == Pushed(idle[k], c)
  <2>1. /\ idle' = [idle EXCEPT ![k] = q]
        /\ sanIndex' = [h \in Hosts |->
                         IF h \in SansOf[c] THEN sanIndex[h] \cup {k} ELSE sanIndex[h]]
    BY <1>2 DEF CheckinEntry
  <2>2. /\ Names(q) \subseteq Names(idle[k]) \cup {c}
        /\ Distinct(idle[k]) /\ c \notin Names(idle[k]) => Distinct(q)
    <3>1. idle[k] \in Seq(Entry)
      BY DEF TypeOK
    <3> QED BY <1>2, <3>1, PushedNames
  <2> HIDE DEF q
  <2>3. idle'[k] = q /\ \A j \in Keys : j # k => idle'[j] = idle[j]
    BY <2>1 DEF TypeOK
  <2>4. PutsBack(s, k, c)
    BY <1>1, <2>2, <2>3 DEF PutsBack, CarrierKinds
  <2>5. /\ \A h \in SansOf[c] : h \in Hosts /\ k \in sanIndex'[h]
        /\ \A j \in Keys, h \in Hosts : j \in sanIndex[h] => j \in sanIndex'[h]
    BY <2>1, AttributeAssumption
  <2>6. \A j \in Keys : \A d \in Names(idle'[j]) : d \in Names(idle[j]) \/ (j = k /\ d = c)
    BY <2>2, <2>3
  <2>7. FlowStep
    BY <2>5, <2>6 DEF FlowStep
  <2> QED BY <2>4, <2>7 DEF OwnStep
<1>3. CASE ~(MaxIdlePerHost > 0 /\ WithinLifetime(c))
  <2>1. idle' = idle /\ sanIndex' = sanIndex
    BY <1>3 DEF CheckinEntry
  <2>2. HandlesFade
    BY <1>1 DEF HandlesFade, OnlySlot, OwnerKinds, CarrierKinds
  <2> QED BY <2>1, <2>2, SameIdle, QuietFlow DEF OwnStep
<1> QED BY <1>2, <1>3

(***************************************************************************)
(* The actions.                                                            *)
(***************************************************************************)
\* Reservations and dials.
LEMMA OwnStepDial ==
  ASSUME TypeOK, NEW s \in Slots
  PROVE  /\ \A k \in Keys : TryReserveActive(s, k) => OwnStep /\ FlowStep
         /\ DropReservation(s) => OwnStep /\ FlowStep
         /\ \A c \in Conns : AttachActiveReservation(s, c) => OwnStep /\ FlowStep
         /\ RekeyActive(s) => OwnStep /\ FlowStep
<1>1. ASSUME NEW k \in Keys, TryReserveActive(s, k) PROVE OwnStep /\ FlowStep
  <2> DEFINE r == [kind |-> "reservation", key |-> k, conn |-> NoConn]
  <2>1. /\ handle' = [handle EXCEPT ![s] = r]
        /\ idle' = idle /\ sanIndex' = sanIndex /\ conn' = conn
    BY <1>1 DEF TryReserveActive
  <2>2. r.kind \notin CarrierKinds
    BY DEF CarrierKinds
  <2> HIDE DEF r
  <2> QED BY <2>1, <2>2, SlotLetsGo, SameIdle, QuietFlow DEF OwnStep
<1>2. ASSUME DropReservation(s) PROVE OwnStep /\ FlowStep
  <2>1. /\ handle' = [handle EXCEPT ![s] = Nothing]
        /\ idle' = idle /\ sanIndex' = sanIndex /\ conn' = conn
    BY <1>2 DEF DropReservation
  <2>2. Nothing.kind \notin CarrierKinds
    BY DEF CarrierKinds, Nothing
  <2> QED BY <2>1, <2>2, SlotLetsGo, SameIdle, QuietFlow DEF OwnStep
<1>3. ASSUME NEW c \in Conns, AttachActiveReservation(s, c) PROVE OwnStep /\ FlowStep
  <2> DEFINE k == handle[s].key
  <2>1. k \in Keys /\ handle[s] \in Handle
    BY <1>3, Owned DEF AttachActiveReservation, Owns, HolderKinds
  <2>2. /\ idle' = idle /\ sanIndex' = sanIndex
        /\ conn' = [conn EXCEPT ![c] = FreshConn] /\ Unreferenced(c)
    BY <1>3 DEF AttachActiveReservation
  <2>3. Obtains(s, "original", k, c)
    BY <1>3, <2>1 DEF AttachActiveReservation, Obtains, OnlySlot, TypeOK, Handle
  <2>4. /\ \A j \in Keys : c \notin Names(idle[j])
        /\ \A t \in Slots : handle[t].conn # c
    BY <2>2 DEF Unreferenced, Names
  <2>5. Dials(s, k, c)
    BY <2>2, <2>3, <2>4, SameIdle DEF Dials
  <2>6. \A d \in Conns : conn'[d].busy => conn[d].busy
    BY <2>2 DEF TypeOK, FreshConn
  <2> QED BY <2>1, <2>2, <2>5, <2>6, SameIdle, QuietFlow DEF OwnStep
<1>4. ASSUME RekeyActive(s) PROVE OwnStep /\ FlowStep
  <2> DEFINE k == AutoOf[handle[s].key]
             c == handle[s].conn
  <2>1. handle[s].kind = "original" /\ c \notin Multiplexed
    BY <1>4 DEF RekeyActive, Owns
  <2>2. k \in Keys /\ c \in Conns
    BY <2>1, Owned, AttributeAssumption DEF HolderKinds
  <2>3. /\ idle' = idle /\ sanIndex' = sanIndex /\ conn' = conn
        /\ handle' = [handle EXCEPT ![s] = [kind |-> "original", key |-> k, conn |-> c]]
    BY <1>4 DEF RekeyActive
  <2>4. Obtains(s, "original", k, c)
    BY <2>3 DEF Obtains, OnlySlot, TypeOK
  <2>5. Rekeys(s, k, c)
    BY <2>1, <2>3, <2>4, SameIdle DEF Rekeys
  <2> QED BY <2>2, <2>3, <2>5, SameIdle, QuietFlow DEF OwnStep
<1> QED BY <1>1, <1>2, <1>3, <1>4

\* Checkouts.
LEMMA OwnStepCheckout ==
  ASSUME TypeOK, OwnerInv
  PROVE  /\ \A s \in Slots, k \in Keys : \A M : CheckoutMatching(s, k, M) => OwnStep /\ FlowStep
         /\ \A k \in Keys : \A M : CheckoutMatchingMiss(k, M) => OwnStep /\ FlowStep
         /\ \A s \in Slots, h \in Hosts : \A a, route :
              CheckoutCoalesced(s, h, a, route) => OwnStep /\ FlowStep
         /\ \A h \in Hosts : \A a, route :
              CheckoutCoalescedMiss(h, a, route) => OwnStep /\ FlowStep
<1>1. ASSUME NEW s \in Slots, NEW k \in Keys, NEW M, CheckoutMatching(s, k, M)
      PROVE  OwnStep /\ FlowStep
  <2> DEFINE q == idle[k]
             c == q[Hit(q, M)].conn
  <2>1. q \in Seq(Entry) /\ Hit(q, M) > 0
    BY <1>1 DEF CheckoutMatching, TypeOK
  <2>2. c \in Conns /\ c \in Names(q)
    <3>1. Hit(q, M) \in DOMAIN q /\ c \in Conns
      BY <2>1, CheckoutQueueType
    <3> QED BY <3>1 DEF Names
  <2>3. /\ idle' = [idle EXCEPT ![k] = CheckoutQueue(q, M)]
        /\ conn' = PermitTaken(c) /\ sanIndex' = sanIndex
        /\ handle' = [handle EXCEPT ![s] = CheckedOut(c, k)]
    BY <1>1 DEF CheckoutMatching
  <2>4. \A d \in Conns : conn'[d].busy => conn[d].busy
    BY <2>2, <2>3, PermitsNotBusy
  <2>5. OnlySlot(s) /\ handle'[s] = CheckedOut(c, k)
    BY <2>3 DEF OnlySlot, TypeOK
  <2>6. CASE c \in Multiplexed
    <3>1. /\ Names(CheckoutQueue(q, M)) \subseteq Names(q)
          /\ Distinct(q) => Distinct(CheckoutQueue(q, M))
      BY <2>1, <2>6, CheckoutNames
    <3>2. IdleShrinks
      BY <2>3, <3>1, OneQueue
    <3>3. Clones(s, k, c)
      BY <2>2, <2>5, <2>6, <3>2 DEF Clones, Obtains, CheckedOut
    <3> QED BY <2>2, <2>3, <2>4, <3>2, <3>3, QuietFlow DEF OwnStep
  <2>7. CASE c \notin Multiplexed
    <3>1. CheckoutQueue(q, M) = Scanned(q, M)
      BY <2>7 DEF CheckoutQueue
    <3>2. Distinct(q) /\ \A j \in Keys : c \in Names(idle[j]) => j = k
      BY <2>2 DEF OwnerInv, IdleOnce
    <3>3. /\ Names(Scanned(q, M)) \subseteq Names(q) /\ Distinct(Scanned(q, M))
          /\ c \notin Names(Scanned(q, M))
      BY <2>1, <3>2, ScannedNames
    <3>4. IdleShrinks
      BY <2>3, <3>1, <3>3, OneQueue
    <3>5. \A j \in Keys : c \notin Names(idle'[j])
      <4>1. idle'[k] = Scanned(q, M) /\ \A j \in Keys : j # k => idle'[j] = idle[j]
        BY <2>3, <3>1 DEF TypeOK
      <4> QED BY <3>2, <3>3, <4>1
    <3>6. TakesOut(s, k, c)
      BY <2>2, <2>5, <2>7, <3>4, <3>5 DEF TakesOut, Obtains, CheckedOut
    <3> QED BY <2>2, <2>3, <2>4, <3>4, <3>6, QuietFlow DEF OwnStep
  <2> QED BY <2>6, <2>7
<1>2. ASSUME NEW k \in Keys, NEW M, CheckoutMatchingMiss(k, M) PROVE OwnStep /\ FlowStep
  <2>1. idle[k] \in Seq(Entry)
    BY DEF TypeOK
  <2>2. /\ idle' = [idle EXCEPT ![k] = Scanned(idle[k], M)]
        /\ handle' = handle /\ sanIndex' = sanIndex /\ conn' = conn
    BY <1>2 DEF CheckoutMatchingMiss
  <2>3. IdleShrinks
    BY <2>1, <2>2, ScannedNames, OneQueue
  <2> QED BY <2>2, <2>3, SameHandles, QuietFlow DEF OwnStep
<1>3. ASSUME NEW s \in Slots, NEW h \in Hosts, NEW a, NEW route, CheckoutCoalesced(s, h, a, route)
      PROVE  OwnStep /\ FlowStep
  <2>0. PICK k \in Keys : \E i \in DOMAIN idle[k] :
          /\ idle[k][i].conn \in Multiplexed
          /\ idle' = [idle EXCEPT ![k][i].age = 0]
          /\ conn' = PermitTaken(idle[k][i].conn)
          /\ handle' = [handle EXCEPT ![s] = CheckedOut(idle[k][i].conn, k)]
    BY <1>3 DEF CheckoutCoalesced, CoalesceUsable
  <2>1. PICK i \in DOMAIN idle[k] :
          /\ idle[k][i].conn \in Multiplexed
          /\ idle' = [idle EXCEPT ![k][i].age = 0]
          /\ conn' = PermitTaken(idle[k][i].conn)
          /\ handle' = [handle EXCEPT ![s] = CheckedOut(idle[k][i].conn, k)]
    BY <2>0
  <2> DEFINE c == idle[k][i].conn
             q == [idle[k] EXCEPT ![i].age = 0]
  <2>2. c \in Names(idle[k]) /\ c \in Conns
    BY <2>1, AttributeAssumption DEF Names
  <2>3. idle' = [idle EXCEPT ![k] = q]
    BY <2>1 DEF TypeOK
  <2>4. DOMAIN q = DOMAIN idle[k] /\ \A j \in DOMAIN idle[k] : q[j].conn = idle[k][j].conn
    <3>1. idle[k] \in Seq(Entry)
      BY DEF TypeOK
    <3>2. \A j \in DOMAIN idle[k] : idle[k][j] \in Entry
      BY <3>1
    <3> QED BY <3>1, <3>2 DEF Entry
  <2>5. IdleShrinks
    <3> HIDE DEF q
    <3>1. Names(q) = Names(idle[k]) /\ (Distinct(idle[k]) => Distinct(q))
      BY <2>4, SameNames
    <3> QED BY <2>3, <3>1, OneQueue
  <2>6. OnlySlot(s) /\ handle'[s] = CheckedOut(c, k)
    BY <2>1 DEF OnlySlot, TypeOK
  <2>7. Clones(s, k, c)
    BY <2>1, <2>2, <2>5, <2>6 DEF Clones, Obtains, CheckedOut
  <2>8. \A d \in Conns : conn'[d].busy => conn[d].busy
    BY <2>1, <2>2, PermitsNotBusy
  <2>9. sanIndex' = SanIndexPruned(h)
    BY <1>3 DEF CheckoutCoalesced
  <2> QED BY <2>2, <2>5, <2>7, <2>8, <2>9, PrunedFlow DEF OwnStep
<1>4. ASSUME NEW h \in Hosts, NEW a, NEW route, CheckoutCoalescedMiss(h, a, route)
      PROVE  OwnStep /\ FlowStep
  <2>1. idle' = idle /\ handle' = handle /\ conn' = conn /\ sanIndex' = SanIndexPruned(h)
    BY <1>4 DEF CheckoutCoalescedMiss
  <2> QED BY <2>1, SameIdle, SameHandles, PrunedFlow DEF OwnStep
<1> QED BY <1>1, <1>2, <1>3, <1>4

\* Check-ins and drops.
LEMMA OwnStepCheckin ==
  ASSUME TypeOK, NeverBusy, NEW s \in Slots
  PROVE  /\ ShareFresh(s) => OwnStep /\ FlowStep
         /\ CheckinNow(s) => OwnStep /\ FlowStep
         /\ CheckinDeferred(s) => OwnStep /\ FlowStep
         /\ CheckinDrained(s) => OwnStep /\ FlowStep
         /\ DrainAbandoned(s) => OwnStep /\ FlowStep
         /\ DropHandle(s) => OwnStep /\ FlowStep
<1> DEFINE k == handle[s].key
           c == handle[s].conn
<1>0. Nothing.kind \notin CarrierKinds /\ Nothing.kind \notin OwnerKinds
  BY DEF CarrierKinds, OwnerKinds, Nothing
<1>1. ASSUME ShareFresh(s) PROVE OwnStep /\ FlowStep
  <2> DEFINE r == [handle[s] EXCEPT !.kind = "clone"]
  <2>1. handle[s].kind \in OwnerKinds /\ c \in Multiplexed
    BY <1>1 DEF ShareFresh, Owns, OwnerKinds
  <2>2. k \in Keys /\ c \in Conns /\ handle[s] \in Handle /\ ~conn[c].busy
    BY <2>1, Owned DEF OwnerKinds, HolderKinds, NeverBusy
  <2>3. handle' = [handle EXCEPT ![s] = r] /\ CheckinEntry(k, c) /\ conn' = PermitTaken(c)
    BY <1>1 DEF ShareFresh, TypeOK
  <2>4. r.kind \notin OwnerKinds /\ r.key = k /\ r.conn = c
    BY <2>2 DEF Handle, OwnerKinds
  <2>5. \A d \in Conns : conn'[d].busy = conn[d].busy
    BY <2>2, <2>3, PermitsNotBusy
  <2> HIDE DEF r, k, c
  <2> QED BY <2>1, <2>2, <2>3, <2>4, <2>5, CheckinOwned DEF k, c
<1>2. ASSUME CheckinNow(s) PROVE OwnStep /\ FlowStep
  <2>1. handle[s].kind \in OwnerKinds /\ ReadyForCheckin(c)
    BY <1>2 DEF CheckinNow, CheckinAllowed, Owns, OwnerKinds
  <2>2. k \in Keys /\ c \in Conns /\ ~conn[c].busy
    BY <2>1, Owned DEF OwnerKinds, HolderKinds, NeverBusy, ReadyForCheckin, IsReady
  <2>3. handle' = [handle EXCEPT ![s] = Nothing] /\ CheckinEntry(k, c) /\ conn' = conn
    BY <1>2 DEF CheckinNow
  <2> HIDE DEF k, c
  <2> QED BY <1>0, <2>1, <2>2, <2>3, CheckinOwned DEF k, c
<1>3. ASSUME CheckinDeferred(s) PROVE OwnStep /\ FlowStep
  <2> DEFINE r == [handle[s] EXCEPT !.kind = "draining"]
  <2>1. handle[s].kind \in OwnerKinds /\ handle[s].kind \in CarrierKinds /\ handle[s] \in Handle
    BY <1>3, Owned DEF CheckinDeferred, Owns, OwnerKinds, CarrierKinds
  <2>2. /\ handle' = [handle EXCEPT ![s] = r]
        /\ idle' = idle /\ sanIndex' = sanIndex /\ conn' = conn
    BY <1>3 DEF CheckinDeferred, TypeOK
  <2>3. r.key = k /\ r.conn = c
    BY <2>1 DEF Handle
  <2>4. \A t \in Slots : handle'[t] = IF t = s THEN r ELSE handle[t]
    BY <2>2 DEF TypeOK
  <2> HIDE DEF r
  <2>5. HandlesFade
    BY <2>1, <2>3, <2>4 DEF HandlesFade
  <2> QED BY <2>2, <2>5, SameIdle, QuietFlow DEF OwnStep
<1>4. ASSUME CheckinDrained(s) PROVE OwnStep /\ FlowStep
  <2>1. handle[s].kind \in OwnerKinds /\ ~conn[c].busy
    BY <1>4 DEF CheckinDrained, Owns, OwnerKinds, IsReady
  <2>2. k \in Keys /\ c \in Conns
    BY <2>1, Owned DEF OwnerKinds, HolderKinds
  <2>3. handle' = [handle EXCEPT ![s] = Nothing] /\ CheckinEntry(k, c) /\ conn' = conn
    BY <1>4 DEF CheckinDrained
  <2> HIDE DEF k, c
  <2> QED BY <1>0, <2>1, <2>2, <2>3, CheckinOwned DEF k, c
<1>5. ASSUME DrainAbandoned(s) PROVE OwnStep /\ FlowStep
  <2>1. /\ handle' = [handle EXCEPT ![s] = Nothing]
        /\ idle' = idle /\ sanIndex' = sanIndex /\ conn' = conn
    BY <1>5 DEF DrainAbandoned
  <2> QED BY <1>0, <2>1, SlotLetsGo, SameIdle, QuietFlow DEF OwnStep
<1>6. ASSUME DropHandle(s) PROVE OwnStep /\ FlowStep
  <2>1. /\ handle' = [handle EXCEPT ![s] = Nothing]
        /\ idle' = idle /\ sanIndex' = sanIndex /\ conn' = PermitReleased(s)
    BY <1>6 DEF DropHandle
  <2>2. \A d \in Conns : conn'[d].busy => conn[d].busy
    BY <2>1, PermitsNotBusy
  <2> QED BY <1>0, <2>1, <2>2, SlotLetsGo, SameIdle, QuietFlow DEF OwnStep
<1> QED BY <1>1, <1>2, <1>3, <1>4, <1>5, <1>6

\* Tunnels, eviction and requests on the wire.
LEMMA OwnStepTunnel ==
  ASSUME TypeOK, OwnerInv, NEW s \in Slots
  PROVE  /\ RetainConnectStreamPermit(s) => OwnStep /\ FlowStep
         /\ DropPermit(s) => OwnStep /\ FlowStep
         /\ RetirePermitTransport(s) => OwnStep /\ FlowStep
         /\ RetireMultiplexTransport(s) => OwnStep /\ FlowStep
         /\ Evict(s) => OwnStep /\ FlowStep
         /\ SendH1(s) => OwnStep /\ FlowStep
<1> DEFINE k == handle[s].key
           c == handle[s].conn
<1>0. Nothing.kind \notin CarrierKinds
  BY DEF CarrierKinds, Nothing
<1>1. ASSUME RetainConnectStreamPermit(s) PROVE OwnStep /\ FlowStep
  <2> DEFINE r == [handle[s] EXCEPT !.kind = "permit", !.key = NoKey]
  <2>1. /\ handle' = [handle EXCEPT ![s] = r]
        /\ idle' = idle /\ sanIndex' = sanIndex /\ conn' = conn
    BY <1>1 DEF RetainConnectStreamPermit, TypeOK
  <2>2. r.kind \notin CarrierKinds
    BY Owned DEF CarrierKinds, Handle
  <2> HIDE DEF r
  <2> QED BY <2>1, <2>2, SlotLetsGo, SameIdle, QuietFlow DEF OwnStep
<1>2. ASSUME DropPermit(s) PROVE OwnStep /\ FlowStep
  <2>1. /\ handle' = [handle EXCEPT ![s] = Nothing]
        /\ idle' = idle /\ sanIndex' = sanIndex
        /\ conn' = [conn EXCEPT ![c].streams = @ - 1]
    BY <1>2 DEF DropPermit
  <2>2. \A d \in Conns : conn'[d].busy => conn[d].busy
    BY <2>1 DEF TypeOK, Transport
  <2> QED BY <1>0, <2>1, <2>2, SlotLetsGo, SameIdle, QuietFlow DEF OwnStep
<1>3. ASSUME RetirePermitTransport(s) PROVE OwnStep /\ FlowStep
  <2>1. /\ handle' = handle /\ idle' = idle /\ sanIndex' = sanIndex
        /\ conn' = [conn EXCEPT ![c].retired = TRUE]
    BY <1>3 DEF RetirePermitTransport
  <2>2. \A d \in Conns : conn'[d].busy => conn[d].busy
    BY <2>1 DEF TypeOK, Transport
  <2> QED BY <2>1, <2>2, SameHandles, SameIdle, QuietFlow DEF OwnStep
<1>4. ASSUME RetireMultiplexTransport(s) PROVE OwnStep /\ FlowStep
  <2>1. k \in Keys
    BY <1>4, Owned DEF RetireMultiplexTransport, Owns, HolderKinds
  <2>2. /\ handle' = [handle EXCEPT ![s] = Nothing]
        /\ idle' = [idle EXCEPT ![k] = <<>>] /\ sanIndex' = sanIndex
        /\ conn' = [PermitReleased(s) EXCEPT ![c].retired = TRUE]
    BY <1>4 DEF RetireMultiplexTransport
  <2>3. \A d \in Conns : conn'[d].busy => conn[d].busy
    <3> DEFINE p == PermitReleased(s)
    <3>1. DOMAIN p = Conns
      BY DEF TypeOK, PermitReleased
    <3>2. \A d \in Conns : p[d].busy = conn[d].busy
      BY PermitsNotBusy
    <3> HIDE DEF p
    <3>3. conn' = [p EXCEPT ![c].retired = TRUE]
      BY <2>2 DEF p
    <3>4. \A d \in Conns : conn'[d].busy = p[d].busy
      BY <3>1, <3>3
    <3> QED BY <3>2, <3>4
  <2>4. IdleShrinks
    BY <2>1, <2>2, EmptiedIdle
  <2> QED BY <1>0, <2>2, <2>3, <2>4, SlotLetsGo, QuietFlow DEF OwnStep
<1>5. ASSUME Evict(s) PROVE OwnStep /\ FlowStep
  <2>1. k \in Keys
    BY <1>5, Owned DEF Evict, Owns, HolderKinds
  <2>2. /\ handle' = handle /\ idle' = [idle EXCEPT ![k] = <<>>]
        /\ sanIndex' = sanIndex /\ conn' = conn
    BY <1>5 DEF Evict
  <2>3. IdleShrinks
    BY <2>1, <2>2, EmptiedIdle
  <2> QED BY <2>2, <2>3, SameHandles, QuietFlow DEF OwnStep
<1>6. ASSUME SendH1(s) PROVE OwnStep /\ FlowStep
  <2>1. /\ handle' = handle /\ idle' = idle /\ sanIndex' = sanIndex
        /\ conn' = [conn EXCEPT ![c].busy = TRUE]
        /\ handle[s].kind \in OwnerKinds /\ c \notin Multiplexed
    BY <1>6 DEF SendH1, Owns, OwnerKinds
  <2>2. \A j \in Keys : c \notin Names(idle'[j])
    BY <2>1 DEF OwnerInv, OwnedOnce
  <2>3. \A d \in Conns : d # c => conn'[d] = conn[d]
    BY <2>1 DEF TypeOK
  <2>4. \A d \in Conns : conn'[d].busy => conn[d].busy \/ d = c
    BY <2>3
  <2>5. FlowStep
    BY <2>1, <2>2, <2>4 DEF FlowStep
  <2> QED BY <2>1, <2>5, SameHandles, SameIdle DEF OwnStep
<1> QED BY <1>1, <1>2, <1>3, <1>4, <1>5, <1>6

\* The reaper, the clock and the peer.
LEMMA OwnStepEnvironment ==
  ASSUME TypeOK
  PROVE  /\ PruneExpired => OwnStep /\ FlowStep
         /\ Tick => OwnStep /\ FlowStep
         /\ \A c \in Conns : PeerClose(c) => OwnStep /\ FlowStep
         /\ \A c \in Conns : BodyDrained(c) => OwnStep /\ FlowStep
<1>0. \A k \in Keys : idle[k] \in Seq(Entry)
  BY DEF TypeOK
<1>1. ASSUME PruneExpired PROVE OwnStep /\ FlowStep
  <2> DEFINE I(k) == {i \in 1..Len(idle[k]) : Unexpired(idle[k][i])}
  <2>1. /\ idle' = [k \in Keys |-> Keep(idle[k], I(k))]
        /\ sanIndex' = [h \in Hosts |-> {k \in sanIndex[h] : idle'[k] # <<>>}]
        /\ handle' = handle /\ conn' = conn
    BY <1>1 DEF PruneExpired
  <2>2. ASSUME NEW k \in Keys
        PROVE  /\ Names(idle'[k]) \subseteq Names(idle[k])
               /\ Distinct(idle[k]) => Distinct(idle'[k])
    <3> DEFINE J == I(k)
    <3>1. J \in SUBSET (1..Len(idle[k])) /\ idle'[k] = Keep(idle[k], J)
      BY <2>1
    <3>2. idle[k] \in Seq(Entry) /\ DOMAIN idle[k] = 1..Len(idle[k])
      BY <1>0
    <3> HIDE DEF J
    <3>3. /\ Names(Keep(idle[k], J)) \subseteq {idle[k][i].conn : i \in J}
          /\ Distinct(idle[k]) => Distinct(Keep(idle[k], J))
      BY <3>1, <3>2, KeptNames
    <3>4. {idle[k][i].conn : i \in J} \subseteq Names(idle[k])
      BY <3>1, <3>2 DEF Names
    <3> QED BY <3>1, <3>3, <3>4
  <2>3. IdleShrinks
    BY <2>2 DEF IdleShrinks
  <2>4. Names(<<>>) = {}
    BY DEF Names
  <2>5. FlowStep
    BY <2>1, <2>3, <2>4 DEF FlowStep, IdleShrinks
  <2> QED BY <2>1, <2>3, <2>5, SameHandles DEF OwnStep
<1>2. ASSUME Tick PROVE OwnStep /\ FlowStep
  <2>1. /\ conn' = [c \in Conns |-> [conn[c] EXCEPT !.age = Older(@, MaxLifetime)]]
        /\ idle' = [k \in Keys |-> [i \in 1..Len(idle[k]) |->
                      [idle[k][i] EXCEPT !.age = Older(@, IdleTimeout)]]]
        /\ handle' = handle /\ sanIndex' = sanIndex
    BY <1>2 DEF Tick
  <2>2. \A c \in Conns : conn'[c].busy => conn[c].busy
    BY <2>1 DEF TypeOK, Transport
  <2>3. ASSUME NEW k \in Keys
        PROVE  Names(idle'[k]) = Names(idle[k]) /\ (Distinct(idle[k]) => Distinct(idle'[k]))
    <3>1. idle[k] \in Seq(Entry) /\ DOMAIN idle[k] = 1..Len(idle[k])
      BY <1>0
    <3>2. \A i \in DOMAIN idle[k] : idle[k][i] \in Entry
      BY <3>1
    <3>3. idle'[k] = [i \in 1..Len(idle[k]) |-> [idle[k][i] EXCEPT !.age = Older(@, IdleTimeout)]]
      BY <2>1
    <3>4. DOMAIN idle'[k] = DOMAIN idle[k] /\ \A i \in DOMAIN idle[k] : idle'[k][i].conn = idle[k][i].conn
      BY <3>1, <3>2, <3>3 DEF Entry
    <3> QED BY <3>4, SameNames
  <2>4. IdleShrinks
    BY <2>3 DEF IdleShrinks
  <2> QED BY <2>1, <2>2, <2>4, SameHandles, QuietFlow DEF OwnStep
<1>3. ASSUME NEW c \in Conns, PeerClose(c) \/ BodyDrained(c) PROVE OwnStep /\ FlowStep
  <2>1. handle' = handle /\ idle' = idle /\ sanIndex' = sanIndex
    BY <1>3 DEF PeerClose, BodyDrained
  <2>2. \A d \in Conns : conn'[d].busy => conn[d].busy
    <3>1. CASE PeerClose(c)
      BY <3>1 DEF PeerClose, TypeOK, Transport
    <3>2. CASE BodyDrained(c)
      <4>1. conn' = [conn EXCEPT ![c].busy = FALSE] /\ conn[c].busy
        BY <3>2 DEF BodyDrained
      <4>2. \A d \in Conns : d # c => conn'[d] = conn[d]
        BY <4>1 DEF TypeOK
      <4> QED BY <4>1, <4>2
    <3> QED BY <1>3, <3>1, <3>2
  <2> QED BY <2>1, <2>2, SameHandles, SameIdle, QuietFlow DEF OwnStep
<1> QED BY <1>1, <1>2, <1>3

\* Every step of the pool is one of the kinds above.
LEMMA OwnStepAll ==
  ASSUME TypeOK, OwnerInv, NeverBusy, [Next]_vars
  PROVE  OwnStep /\ FlowStep
<1>1. CASE UNCHANGED vars
  <2>1. idle' = idle /\ handle' = handle /\ sanIndex' = sanIndex /\ conn' = conn
    BY <1>1 DEF vars
  <2> QED BY <2>1, SameHandles, SameIdle, QuietFlow DEF OwnStep
<1>2. CASE Next
  BY <1>2, OwnStepDial, OwnStepCheckout, OwnStepCheckin, OwnStepTunnel, OwnStepEnvironment DEF Next
<1> QED BY <1>1, <1>2

(***************************************************************************)
(* The second inductive invariant and its theorems.                        *)
(***************************************************************************)
\* The properties of the model in terms of names.
LEMMA Named ==
  ASSUME TypeOK
  PROVE  /\ SanIndexCovers <=>
              \A k \in Keys : \A c \in Names(idle[k]) : \A h \in SansOf[c] : k \in sanIndex[h]
         /\ NoBusyIdle <=> \A k \in Keys : \A c \in Names(idle[k]) : ~conn[c].busy
         /\ \A k \in Keys : Names(idle[k]) \subseteq Conns
<1>1. \A k \in Keys : \A i \in DOMAIN idle[k] : idle[k][i].conn \in Conns
  <2> SUFFICES ASSUME NEW k \in Keys, NEW i \in DOMAIN idle[k] PROVE idle[k][i].conn \in Conns
    OBVIOUS
  <2>1. idle[k] \in Seq(Entry)
    BY DEF TypeOK
  <2>2. idle[k][i] \in Entry
    BY <2>1
  <2> QED BY <2>2 DEF Entry
<1>2. SanIndexCovers <=>
        \A k \in Keys : \A c \in Names(idle[k]) : \A h \in SansOf[c] : k \in sanIndex[h]
  BY DEF SanIndexCovers, Names
<1>3. NoBusyIdle <=> \A k \in Keys : \A c \in Names(idle[k]) : ~conn[c].busy
  BY DEF NoBusyIdle, Names
<1>4. \A k \in Keys : Names(idle[k]) \subseteq Conns
  BY <1>1 DEF Names
<1> QED BY <1>2, <1>3, <1>4

PoolInv == Inv /\ OwnerInv /\ NeverBusy /\ NoBusyIdle /\ SanIndexCovers

\* A new pool satisfies it.
LEMMA InitPoolInv == Init => PoolInv
<1> SUFFICES ASSUME Init PROVE PoolInv
  OBVIOUS
<1>1. Inv /\ TypeOK
  BY InitInv, InitType
<1>2. \A k \in Keys : idle[k] = <<>>
  BY DEF Init
<1>3. Names(<<>>) = {} /\ Distinct(<<>>)
  BY DEF Names, Distinct
<1>4. \A s \in Slots : handle[s].kind \notin CarrierKinds /\ handle[s].kind \notin OwnerKinds
  BY DEF Init, Nothing, CarrierKinds, OwnerKinds
<1>5. OwnerInv
  BY <1>2, <1>3, <1>4 DEF OwnerInv, IdleOnce, OwnedOnce, KeysAgree
<1>6. NeverBusy
  BY AttributeAssumption DEF Init, NeverBusy, FreshConn
<1>7. NoBusyIdle /\ SanIndexCovers
  BY <1>1, <1>2, <1>3, Named
<1> QED BY <1>1, <1>5, <1>6, <1>7 DEF PoolInv

\* Every step keeps it.
LEMMA PoolInvStep == PoolInv /\ [Next]_vars => PoolInv'
<1> SUFFICES ASSUME PoolInv, [Next]_vars PROVE PoolInv'
  OBVIOUS
<1>1. Inv' /\ TypeOK /\ TypeOK'
  <2>1. Inv' /\ Inv
    BY InvStep DEF PoolInv
  <2> QED BY <2>1 DEF Inv
<1>2. OwnStep /\ FlowStep
  BY <1>1, OwnStepAll DEF PoolInv
<1>3. OwnerInv'
  BY <1>1, <1>2, OwnStepKeeps DEF PoolInv
<1>4. NeverBusy'
  <2> SUFFICES ASSUME NEW c \in Multiplexed PROVE ~conn'[c].busy
    BY DEF NeverBusy
  <2>1. c \in Conns /\ ~conn[c].busy
    BY AttributeAssumption DEF PoolInv, NeverBusy
  <2> QED BY <1>2, <2>1 DEF FlowStep
<1>5. /\ \A k \in Keys : \A c \in Names(idle[k]) : ~conn[c].busy
      /\ \A k \in Keys : \A c \in Names(idle[k]) : \A h \in SansOf[c] : k \in sanIndex[h]
  BY <1>1, Named DEF PoolInv
<1>6. /\ \A k \in Keys : Names(idle'[k]) \subseteq Conns
      /\ NoBusyIdle' <=> \A k \in Keys : \A c \in Names(idle'[k]) : ~conn'[c].busy
      /\ SanIndexCovers' <=>
           \A k \in Keys : \A c \in Names(idle'[k]) : \A h \in SansOf[c] : k \in sanIndex'[h]
  <2>1. NoBusyIdle' <=> \A k \in Keys : \A c \in Names(idle'[k]) : ~conn'[c].busy
    BY DEF NoBusyIdle, Names
  <2>2. SanIndexCovers' <=>
           \A k \in Keys : \A c \in Names(idle'[k]) : \A h \in SansOf[c] : k \in sanIndex'[h]
    BY DEF SanIndexCovers, Names
  <2>3. ASSUME NEW k \in Keys, NEW c \in Names(idle'[k]) PROVE c \in Conns
    <3>1. PICK i \in DOMAIN idle'[k] : c = idle'[k][i].conn
      BY <2>3 DEF Names
    <3>2. idle'[k] \in Seq(Entry)
      BY <1>1 DEF TypeOK
    <3>3. idle'[k][i] \in Entry
      BY <3>1, <3>2
    <3> QED BY <3>1, <3>3 DEF Entry
  <2> QED BY <2>1, <2>2, <2>3
<1>7. ASSUME NEW k \in Keys, NEW c \in Names(idle'[k])
      PROVE  ~conn'[c].busy /\ \A h \in SansOf[c] : k \in sanIndex'[h]
  <2>1. c \in Conns
    BY <1>6
  <2>2. CASE c \in Names(idle[k])
    <3>1. ~conn'[c].busy
      BY <1>2, <1>5, <2>1, <2>2 DEF FlowStep
    <3>2. ASSUME NEW h \in SansOf[c] PROVE k \in sanIndex'[h]
      <4>1. h \in Hosts /\ k \in sanIndex[h] /\ Names(idle'[k]) # {}
        BY <1>5, <2>1, <2>2, AttributeAssumption
      <4> QED BY <1>2, <4>1 DEF FlowStep
    <3> QED BY <3>1, <3>2
  <2>3. CASE c \notin Names(idle[k])
    BY <1>2, <2>3 DEF FlowStep
  <2> QED BY <2>2, <2>3
<1>8. NoBusyIdle' /\ SanIndexCovers'
  BY <1>6, <1>7
<1> QED BY <1>1, <1>3, <1>4, <1>8 DEF PoolInv

\* The invariant in the words of the model: OneOwner.
LEMMA OwnerInvOneOwner == TypeOK /\ OwnerInv => OneOwner
<1> SUFFICES ASSUME TypeOK, OwnerInv PROVE OneOwner
  OBVIOUS
<1>1. ASSUME NEW c, NEW p \in IdlePlaces(c)
      PROVE  /\ p[1] \in Keys /\ p[2] \in DOMAIN idle[p[1]] /\ p = <<p[1], p[2]>>
             /\ idle[p[1]][p[2]].conn = c /\ c \in Names(idle[p[1]])
  <2>1. PICK k \in Keys : p \in {<<k, i>> : i \in {j \in DOMAIN idle[k] : idle[k][j].conn = c}}
    BY <1>1 DEF IdlePlaces
  <2>2. PICK i \in DOMAIN idle[k] : idle[k][i].conn = c /\ p = <<k, i>>
    BY <2>1
  <2> QED BY <2>2 DEF Names
<1>2. OneKey
  <2> SUFFICES ASSUME NEW s \in Slots, handle[s].kind \in CarrierKinds
               PROVE  /\ \A t \in Slots :
                           handle[t].kind \in CarrierKinds /\ handle[t].conn = handle[s].conn
                             => handle[t].key = handle[s].key
                      /\ \A p \in IdlePlaces(handle[s].conn) : p[1] = handle[s].key
    BY DEF OneKey, Owns, CarrierKinds
  <2> QED BY <1>1 DEF OwnerInv, KeysAgree
<1>3. ASSUME NEW c \in Conns
      PROVE  /\ \A p, q \in IdlePlaces(c) : p = q
             /\ \A s, t \in OriginalHolders(c) : s = t
             /\ IdlePlaces(c) = {} \/ OriginalHolders(c) = {}
             /\ c \notin Multiplexed => PermitHolders(c) = {}
  <2>1. ASSUME NEW p \in IdlePlaces(c), NEW q \in IdlePlaces(c) PROVE p = q
    <3>1. p[1] = q[1]
      BY <1>1 DEF OwnerInv, IdleOnce
    <3>2. p[2] = q[2]
      BY <1>1, <3>1 DEF OwnerInv, IdleOnce, Distinct
    <3> QED BY <1>1, <3>1, <3>2
  <2>2. \A s \in OriginalHolders(c) : s \in Slots /\ handle[s].kind \in OwnerKinds /\ handle[s].conn = c
    BY DEF OriginalHolders, Owns, OwnerKinds
  <2>3. \A s, t \in OriginalHolders(c) : s = t
    BY <2>2 DEF OwnerInv, OwnedOnce
  <2>4. IdlePlaces(c) = {} \/ OriginalHolders(c) = {}
    BY <1>1, <2>2 DEF OwnerInv, OwnedOnce
  <2>5. c \notin Multiplexed => PermitHolders(c) = {}
    BY Owned DEF PermitHolders
  <2> QED BY <2>1, <2>3, <2>4, <2>5
<1> QED BY <1>2, <1>3 DEF OneOwner

\* No idle place names a transport that neither a queue named nor a slot owned.
LEMMA NothingReturns ==
  ASSUME TypeOK, FlowStep, NEW c, IdlePlaces(c) = {}, OriginalHolders(c) = {}
  PROVE  IdlePlaces(c)' = {}
<1>1. ASSUME NEW k \in Keys, c \in Names(idle[k]) PROVE FALSE
  <2>1. PICK i \in DOMAIN idle[k] : idle[k][i].conn = c
    BY <1>1 DEF Names
  <2>2. <<k, i>> \in IdlePlaces(c)
    BY <2>1 DEF IdlePlaces
  <2> QED BY <2>2
<1>2. \A s \in Slots : ~(handle[s].kind \in OwnerKinds /\ handle[s].conn = c)
  BY DEF OriginalHolders, Owns, OwnerKinds
<1>3. \A k \in Keys : c \notin Names(idle'[k])
  BY <1>1, <1>2 DEF FlowStep
<1>4. \A k \in Keys : \A i \in DOMAIN idle'[k] : idle'[k][i].conn # c
  BY <1>3 DEF Names
<1> QED BY <1>4 DEF IdlePlaces

\* The invariant holds in every state of the pool.
THEOREM PoolInvariant == Spec => []PoolInv
BY InitPoolInv, PoolInvStep, PTL DEF Spec

\* A transport is idle at one place or checked out or draining in one slot, never
\* both, and everything that refers to it is under one key: two HTTP/1.1
\* requests never share a socket.
THEOREM OneOwnerHolds == Spec => []OneOwner
<1>1. PoolInv => OneOwner
  BY OwnerInvOneOwner DEF PoolInv, Inv
<1> QED BY PoolInvariant, <1>1, PTL

\* An HTTP/1.1 transport whose response still streams is never idle.
THEOREM NoBusyIdleHolds == Spec => []NoBusyIdle
<1>1. PoolInv => NoBusyIdle
  BY DEF PoolInv
<1> QED BY PoolInvariant, <1>1, PTL

\* The SAN index covers every idle transport, so checkout_coalesced misses none.
THEOREM SanIndexCoversHolds == Spec => []SanIndexCovers
<1>1. PoolInv => SanIndexCovers
  BY DEF PoolInv
<1> QED BY PoolInvariant, <1>1, PTL

\* A multiplexed transport that left the idle queue and has only clones left
\* never returns to it.
THEOREM EvictionIsFinalHolds == Spec => EvictionIsFinal
<1>1. PoolInv /\ [Next]_vars =>
        [\A c \in Multiplexed :
           IdlePlaces(c) = {} /\ OriginalHolders(c) = {} => IdlePlaces(c)' = {}]_vars
  BY OwnStepAll, NothingReturns DEF PoolInv, Inv
<1> QED BY PoolInvariant, <1>1, PTL DEF Spec, EvictionIsFinal
=============================================================================
