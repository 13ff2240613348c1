------------------------ MODULE ManagementAccessProofs ------------------------
(***************************************************************************)
(* The resources of the management service stay sound for any number of    *)
(* requests, handler slots and connections, whatever fails, times out or   *)
(* is shut down.                                                           *)
(***************************************************************************)
EXTENDS ManagementAccess, Integers, FiniteSetTheorems, SequenceTheorems, TLAPS

(* Lines without repetition *)

Once(line) == \A i, j \in 1..Len(line) : line[i] = line[j] => i = j

\* The elements of a line.
LEMMA Members ==
  ASSUME NEW S, NEW line \in Seq(S)
  PROVE  ToSet(line) = {line[i] : i \in 1..Len(line)} /\ ToSet(line) \subseteq S
BY LenProperties DEF ToSet

\* A stretch of a line.
LEMMA Stretch ==
  ASSUME NEW S, NEW line \in Seq(S), NEW m \in 1..(Len(line) + 1), NEW n \in (m - 1)..Len(line)
  PROVE  /\ SubSeq(line, m, n) \in Seq(S) /\ Len(SubSeq(line, m, n)) = n - m + 1
         /\ \A i \in 1..(n - m + 1) : SubSeq(line, m, n)[i] = line[m + i - 1]
<1>1. Len(line) \in Nat /\ \A i \in 1..Len(line) : line[i] \in S
  BY LenProperties, ElementOfSeq
<1>2. m \in Int /\ n \in Int /\ \A i \in m..n : line[i] \in S
  BY <1>1
<1>3. /\ SubSeq(line, m, n) \in Seq(S)
      /\ Len(SubSeq(line, m, n)) = IF m <= n THEN n - m + 1 ELSE 0
      /\ \A i \in 1..n - m + 1 : SubSeq(line, m, n)[i] = line[m + i - 1]
  BY <1>2, SubSeqProperties
<1>. QED
  BY <1>1, <1>3

\* Somebody joins the end of a line.
LEMMA Joining ==
  ASSUME NEW S, NEW line \in Seq(S), Once(line), NEW x \in S, x \notin ToSet(line)
  PROVE  /\ Append(line, x) \in Seq(S) /\ Once(Append(line, x))
         /\ ToSet(Append(line, x)) = ToSet(line) \cup {x}
         /\ Len(Append(line, x)) = Len(line) + 1
         /\ line # <<>> => Head(Append(line, x)) = Head(line)
         /\ line = <<>> => Head(Append(line, x)) = x
<1>. DEFINE new == Append(line, x)
<1>1. /\ new \in Seq(S) /\ Len(new) = Len(line) + 1 /\ Len(line) \in Nat
      /\ \A i \in 1..Len(line) : new[i] = line[i]
      /\ new[Len(line) + 1] = x
  BY AppendProperties, LenProperties
<1>2. ToSet(line) = {line[i] : i \in 1..Len(line)} /\ ToSet(new) = {new[i] : i \in 1..Len(new)}
  BY <1>1, Members
<1>3. ToSet(new) = ToSet(line) \cup {x}
  <2>. HIDE DEF new
  <2>1. 1..Len(new) = 1..Len(line) \cup {Len(line) + 1}
    BY <1>1
  <2>. QED
    BY <1>1, <1>2, <2>1
<1>4. Once(new)
  <2>. HIDE DEF new
  <2>. QED
    BY <1>1, <1>2 DEF Once
<1>5. (line # <<>> => Head(new) = Head(line)) /\ (line = <<>> => Head(new) = x)
  BY HeadTailAppend
<1>. QED
  BY <1>1, <1>3, <1>4, <1>5

\* The first of a line leaves.
LEMMA Leaving ==
  ASSUME NEW S, NEW line \in Seq(S), Once(line), line # <<>>
  PROVE  /\ Tail(line) \in Seq(S) /\ Once(Tail(line)) /\ Head(line) \in ToSet(line)
         /\ ToSet(Tail(line)) = ToSet(line) \ {Head(line)}
<1>. DEFINE new == Tail(line)
<1>1. /\ new \in Seq(S) /\ Len(new) = Len(line) - 1 /\ Len(line) \in Nat \ {0}
      /\ \A i \in 1..Len(new) : new[i] = line[i + 1]
      /\ Head(line) = line[1]
  BY HeadTailProperties, EmptySeq
<1>2. ToSet(line) = {line[i] : i \in 1..Len(line)} /\ ToSet(new) = {new[i] : i \in 1..Len(new)}
  BY <1>1, Members
<1>. HIDE DEF new
<1>3. Once(new)
  BY <1>1 DEF Once
<1>4. ToSet(new) = ToSet(line) \ {line[1]}
  <2>1. \A i \in 1..Len(new) : new[i] \in ToSet(line) /\ new[i] # line[1]
    BY <1>1, <1>2 DEF Once
  <2>2. ASSUME NEW i \in 1..Len(line), i # 1 PROVE line[i] \in ToSet(new)
    <3>1. i - 1 \in 1..Len(new) /\ (i - 1) + 1 = i
      BY <1>1, <2>2
    <3>2. new[i - 1] = line[i]
      BY <1>1, <3>1
    <3>. QED
      BY <1>2, <3>1, <3>2
  <2>. QED
    BY <1>2, <2>1, <2>2
<1>. QED
  BY <1>1, <1>2, <1>3, <1>4 DEF new

\* The last of a line is taken.
LEMMA Popping ==
  ASSUME NEW S, NEW line \in Seq(S), Once(line), line # <<>>
  PROVE  /\ Front(line) \in Seq(S) /\ Once(Front(line)) /\ Last(line) \in ToSet(line)
         /\ ToSet(Front(line)) = ToSet(line) \ {Last(line)}
         /\ Len(Front(line)) = Len(line) - 1 /\ Len(line) \in Nat \ {0}
<1>. DEFINE new == Front(line)
<1>1. /\ Len(line) \in Nat \ {0} /\ \A i \in 1..Len(line) : line[i] \in S
  BY EmptySeq, LenProperties, ElementOfSeq
<1>2. /\ new \in Seq(S) /\ Len(new) = Len(line) - 1
      /\ \A i \in 1..Len(new) : new[i] = line[i]
  <2>. DEFINE n == Len(line) - 1
  <2>1. 1 \in 1..(Len(line) + 1) /\ n \in (1 - 1)..Len(line) /\ new = SubSeq(line, 1, n)
    BY <1>1 DEF Front
  <2>. HIDE DEF new, n
  <2>2. /\ new \in Seq(S) /\ Len(new) = n - 1 + 1
        /\ \A i \in 1..(n - 1 + 1) : new[i] = line[1 + i - 1]
    BY <2>1, Stretch
  <2>. QED
    BY <1>1, <2>2 DEF n
<1>3. ToSet(line) = {line[i] : i \in 1..Len(line)} /\ ToSet(new) = {new[i] : i \in 1..Len(new)}
  BY <1>2, Members
<1>. HIDE DEF new
<1>4. Once(new)
  BY <1>1, <1>2 DEF Once
<1>5. ToSet(new) = ToSet(line) \ {line[Len(line)]}
  <2>1. \A i \in 1..Len(new) : new[i] \in ToSet(line) /\ new[i] # line[Len(line)]
    BY <1>1, <1>2, <1>3 DEF Once
  <2>2. \A i \in 1..Len(line) : i # Len(line) => line[i] = new[i] /\ i \in 1..Len(new)
    BY <1>1, <1>2
  <2>. QED
    BY <1>3, <2>1, <2>2
<1>6. Last(line) = line[Len(line)] /\ line[Len(line)] \in ToSet(line)
  BY <1>1, <1>3 DEF Last
<1>. QED
  BY <1>1, <1>2, <1>4, <1>5, <1>6 DEF new

\* Somebody who is not the first one leaves.
LEMMA GivingUp ==
  ASSUME NEW S, NEW line \in Seq(S), Once(line), NEW x \in ToSet(line), x # Head(line)
  PROVE  /\ Without(line, x) \in Seq(S) /\ Once(Without(line, x))
         /\ ToSet(Without(line, x)) = ToSet(line) \ {x}
         /\ line # <<>> /\ Without(line, x) # <<>> /\ Head(Without(line, x)) = Head(line)
<1>1. Len(line) \in Nat /\ DOMAIN line = 1..Len(line) /\ \A i \in 1..Len(line) : line[i] \in S
  BY LenProperties, ElementOfSeq
<1>2. ToSet(line) = {line[i] : i \in 1..Len(line)}
  BY Members
<1>3. PICK k \in 1..Len(line) : line[k] = x
  BY <1>2
<1>4. k = CHOOSE i \in DOMAIN line : line[i] = x
  BY <1>1, <1>3 DEF Once
<1>5. line # <<>> /\ Head(line) = line[1]
  BY <1>1, <1>3
<1>6. k # 1
  BY <1>3, <1>5
<1>. DEFINE new == SubSeq(line, 1, k - 1) \o SubSeq(line, k + 1, Len(line))
<1>7. Without(line, x) = new
  BY <1>4 DEF Without, RemoveAt
<1>8. /\ SubSeq(line, 1, k - 1) \in Seq(S) /\ Len(SubSeq(line, 1, k - 1)) = k - 1
      /\ \A i \in 1..(k - 1) : SubSeq(line, 1, k - 1)[i] = line[i]
  <2>1. 1 \in 1..(Len(line) + 1) /\ k - 1 \in (1 - 1)..Len(line)
    BY <1>1
  <2>2. /\ SubSeq(line, 1, k - 1) \in Seq(S) /\ Len(SubSeq(line, 1, k - 1)) = k - 1 - 1 + 1
        /\ \A i \in 1..(k - 1 - 1 + 1) : SubSeq(line, 1, k - 1)[i] = line[1 + i - 1]
    BY <2>1, Stretch
  <2>. QED
    BY <1>1, <2>2
<1>9. /\ SubSeq(line, k + 1, Len(line)) \in Seq(S) /\ Len(SubSeq(line, k + 1, Len(line))) = Len(line) - k
      /\ \A i \in 1..(Len(line) - k) : SubSeq(line, k + 1, Len(line))[i] = line[k + i]
  <2>1. k + 1 \in 1..(Len(line) + 1) /\ Len(line) \in (k + 1 - 1)..Len(line)
    BY <1>1
  <2>. DEFINE b == SubSeq(line, k + 1, Len(line))
  <2>2. /\ b \in Seq(S) /\ Len(b) = Len(line) - (k + 1) + 1
        /\ \A i \in 1..(Len(line) - (k + 1) + 1) : b[i] = line[k + 1 + i - 1]
    BY <2>1, Stretch
  <2>. HIDE DEF b
  <2>3. Len(line) - (k + 1) + 1 = Len(line) - k
    BY <1>1
  <2>4. ASSUME NEW i \in 1..(Len(line) - k) PROVE k + 1 + i - 1 = k + i
    BY <1>1
  <2>5. \A i \in 1..(Len(line) - k) : b[i] = line[k + i]
    BY <2>2, <2>3, <2>4
  <2>. QED
    BY <2>2, <2>3, <2>5 DEF b
<1>10. /\ new \in Seq(S) /\ Len(new) = Len(line) - 1
       /\ \A i \in 1..(Len(line) - 1) : new[i] = IF i < k THEN line[i] ELSE line[i + 1]
  <2>. DEFINE a == SubSeq(line, 1, k - 1)
              b == SubSeq(line, k + 1, Len(line))
  <2>1. /\ a \in Seq(S) /\ Len(a) = k - 1 /\ \A i \in 1..(k - 1) : a[i] = line[i]
        /\ b \in Seq(S) /\ Len(b) = Len(line) - k /\ \A i \in 1..(Len(line) - k) : b[i] = line[k + i]
    BY <1>8, <1>9
  <2>2. new = a \o b
    OBVIOUS
  <2>. HIDE DEF a, b, new
  <2>3. /\ new \in Seq(S) /\ Len(new) = Len(a) + Len(b)
        /\ \A i \in 1..Len(a) + Len(b) : new[i] = IF i <= Len(a) THEN a[i] ELSE b[i - Len(a)]
    BY <2>1, <2>2, ConcatProperties
  <2>4. Len(a) + Len(b) = Len(line) - 1
    BY <1>1, <2>1
  <2>5. ASSUME NEW i \in 1..(Len(line) - 1) PROVE new[i] = IF i < k THEN line[i] ELSE line[i + 1]
    <3>1. CASE i < k
      <4>1. i \in 1..(k - 1) /\ i \in 1..Len(a) + Len(b) /\ i <= Len(a)
        BY <1>1, <2>1, <2>4, <3>1
      <4>. QED
        BY <2>1, <2>3, <3>1, <4>1
    <3>2. CASE ~(i < k)
      <4>1. i - (k - 1) \in 1..(Len(line) - k) /\ k + (i - (k - 1)) = i + 1
        BY <1>1, <3>2
      <4>2. i \in 1..Len(a) + Len(b) /\ ~(i <= Len(a)) /\ Len(a) = k - 1
        BY <1>1, <2>1, <2>4, <3>2
      <4>3. new[i] = b[i - (k - 1)]
        BY <2>3, <4>2
      <4>. QED
        BY <2>1, <3>2, <4>1, <4>3
    <3>. QED
      BY <3>1, <3>2
  <2>. QED
    BY <2>3, <2>4, <2>5
<1>. HIDE DEF new
<1>11. ToSet(new) = {new[i] : i \in 1..Len(new)}
  BY <1>10, Members
<1>12. Once(new)
  <2>1. SUFFICES ASSUME NEW i \in 1..(Len(line) - 1), NEW j \in 1..(Len(line) - 1), new[i] = new[j]
                 PROVE  i = j
    BY <1>10 DEF Once
  <2>. DEFINE Was(n) == IF n < k THEN n ELSE n + 1
  <2>2. \A n \in 1..(Len(line) - 1) : Was(n) \in 1..Len(line) /\ new[n] = line[Was(n)]
    BY <1>1, <1>10
  <2>3. Was(i) \in 1..Len(line) /\ Was(j) \in 1..Len(line) /\ line[Was(i)] = line[Was(j)]
    BY <2>1, <2>2
  <2>4. Was(i) = Was(j)
    BY <2>3 DEF Once
  <2>. QED
    BY <1>1, <2>4
<1>13. ToSet(new) = ToSet(line) \ {x}
  <2>1. \A i \in 1..Len(new) : new[i] \in ToSet(line) /\ new[i] # x
    BY <1>1, <1>2, <1>3, <1>10 DEF Once
  <2>2. \A i \in 1..Len(line) : i # k =>
          IF i < k THEN i \in 1..Len(new) /\ line[i] = new[i] ELSE i - 1 \in 1..Len(new) /\ line[i] = new[i - 1]
    BY <1>1, <1>10
  <2>. QED
    BY <1>2, <1>3, <1>11, <2>1, <2>2
<1>14. new # <<>> /\ Head(new) = line[1]
  <2>1. Len(new) \in Nat \ {0} /\ new[1] = line[1]
    BY <1>1, <1>6, <1>10
  <2>. QED
    BY <1>10, <2>1, EmptySeq
<1>. QED
  BY <1>5, <1>7, <1>10, <1>12, <1>13, <1>14

\* Lines without repetition have as many places as members.
LEMMA Counting ==
  ASSUME NEW S, NEW line \in Seq(S), Once(line)
  PROVE  Cardinality(ToSet(line)) = Len(line)
<1>1. Len(line) \in Nat /\ DOMAIN line = 1..Len(line) /\ line \in [1..Len(line) -> S]
  BY LenProperties
<1>2. ToSet(line) = {line[i] : i \in 1..Len(line)}
  BY Members
<1>3. line \in [1..Len(line) -> ToSet(line)]
  BY <1>1, <1>2
<1>4. ExistsBijection(1..Len(line), ToSet(line))
  <2>1. line \in Injection(1..Len(line), ToSet(line))
    BY <1>1, <1>3 DEF Injection, IsInjective, Once
  <2>2. line \in Surjection(1..Len(line), ToSet(line))
    BY <1>2, <1>3 DEF Surjection
  <2>. QED
    BY <2>1, <2>2 DEF ExistsBijection, Bijection
<1>5. IsFiniteSet(1..Len(line)) /\ Cardinality(1..Len(line)) = Len(line)
  BY <1>1, FS_Interval
<1>. QED
  BY <1>4, <1>5, FS_Bijection
(* Connections *)

Place == {"off", "new", "admitted", "acquiring", "opening", "leased", "queued", "writing",
          "leaving", "returning", "closing", "answering", "done", "loop", "ended"}
Before == {"new", "admitted", "acquiring"}
Using == {"leased", "queued", "writing", "leaving"}
Leasers == {r \in Request : Leasing(r)}

PoolTypes ==
  /\ pc \in [Thread -> Place]
  /\ leases \in Nat /\ idle \in Seq(Request) /\ poolClosed \in BOOLEAN
  /\ open \subseteq Request /\ handle \in [Request -> Request \cup {NoHandle}]

\* Which requests hold a connection, and which have not opened one yet.
HandlesFit ==
  /\ \A r \in Request : pc[r] \in Using \cup {"closing"} => handle[r] # NoHandle
  /\ \A r \in Request : handle[r] # NoHandle => pc[r] \in Using \cup {"returning", "closing"}
  /\ \A r \in Request : pc[r] \in Before \cup {"opening"} => r \notin open

\* Each open connection has one place.
OnePlaceEach ==
  /\ \A r \in Request : handle[r] # NoHandle =>
       /\ handle[r] \in open \ ToSet(idle)
       /\ \A q \in Request \ {r} : handle[q] # handle[r]
  /\ ToSet(idle) \subseteq open /\ Once(idle)
  /\ \A c \in open \ ToSet(idle) : \E r \in Request : handle[r] = c

PoolInv ==
  /\ PoolTypes /\ HandlesFit /\ OnePlaceEach
  /\ leases = Cardinality(Leasers)
  /\ leases + Len(idle) <= Capacity
  /\ poolClosed => idle = <<>>

LEMMA LeasersFinite == IsFiniteSet(Leasers) /\ Cardinality(Leasers) \in Nat
BY AccessAssumption, FS_Subset, FS_CardinalityType DEF Leasers

\* A request that goes on to a place where it holds what it held.
LEMMA MovesOn ==
  ASSUME PoolInv, UNCHANGED <<leases, idle, poolClosed, open, handle>>,
         NEW x \in Thread, NEW place \in Place, Goto(x, place),
         x \in Request =>
           \/ pc[x] \in Using /\ place \in Using \cup {"returning"}
           \/ pc[x] \in Before /\ place \in Before \cup {"answering", "done"}
           \/ pc[x] = "answering" /\ place = "done"
  PROVE  PoolInv'
<1>1. pc' = [pc EXCEPT ![x] = place] /\ Request \subseteq Thread
  BY DEF Goto, Thread
<1>2. PoolTypes' /\ HandlesFit'
  BY <1>1 DEF PoolInv, PoolTypes, HandlesFit, Before, Using, Place
<1>3. Leasers' = Leasers
  BY <1>1 DEF PoolInv, PoolTypes, HandlesFit, Leasers, Leasing, Before, Using, Place
<1>. QED
  BY <1>2, <1>3 DEF PoolInv, OnePlaceEach

\* A connection is lent that was kept, or a lease begins to open one.
LEMMA LeaseKeepsPool == ASSUME PoolInv, NEW r \in Request, Lease(r) PROVE PoolInv'
<1>1. /\ pc[r] = "acquiring" /\ r \in Thread /\ handle[r] = NoHandle /\ ~Leasing(r)
      /\ leases' = leases + 1 /\ leases < Capacity /\ UNCHANGED <<poolClosed, open>>
  BY DEF Lease, PoolInv, HandlesFit, Using, Leasing, Thread, MayLease, poolVars
<1>2. Capacity \in Nat /\ r \notin Leasers
  BY <1>1, AccessAssumption DEF Leasers
<1>3. ASSUME Leasers' = Leasers \cup {r} PROVE leases' = Cardinality(Leasers')
  BY <1>1, <1>2, <1>3, LeasersFinite, FS_AddElement DEF PoolInv
<1>4. CASE idle = <<>>
  <2>1. pc' = [pc EXCEPT ![r] = "opening"] /\ UNCHANGED <<idle, handle>>
    BY <1>4 DEF Lease, Goto
  <2>2. PoolTypes' /\ HandlesFit'
    BY <1>1, <2>1 DEF PoolInv, PoolTypes, HandlesFit, Before, Using, Place
  <2>3. Leasers' = Leasers \cup {r}
    BY <1>1, <2>1 DEF PoolInv, PoolTypes, Leasers, Leasing, Thread
  <2>4. Len(idle) = 0
    BY <1>4
  <2>. QED
    BY <1>1, <1>2, <1>3, <2>1, <2>2, <2>3, <2>4 DEF PoolInv, PoolTypes, OnePlaceEach
<1>5. CASE idle # <<>>
  <2>. DEFINE c == Last(idle)
  <2>1. /\ pc' = [pc EXCEPT ![r] = "leased"] /\ handle' = [handle EXCEPT ![r] = c]
        /\ idle' = Front(idle)
    BY <1>5 DEF Lease, Goto
  <2>2. /\ Front(idle) \in Seq(Request) /\ Once(Front(idle)) /\ c \in ToSet(idle)
        /\ ToSet(Front(idle)) = ToSet(idle) \ {c}
        /\ Len(Front(idle)) = Len(idle) - 1 /\ Len(idle) \in Nat \ {0}
    BY <1>5, Popping DEF PoolInv, PoolTypes, OnePlaceEach
  <2>3. c \in open /\ c \in Request /\ c # NoHandle /\ \A q \in Request : handle[q] # c
    BY <2>2, AccessAssumption DEF PoolInv, PoolTypes, OnePlaceEach
  <2>. HIDE DEF c
  <2>4. PoolTypes' /\ HandlesFit'
    BY <1>1, <2>1, <2>2, <2>3 DEF PoolInv, PoolTypes, HandlesFit, Before, Using, Place
  <2>5. OnePlaceEach'
    <3>1. \A q \in Request : handle'[q] = IF q = r THEN c ELSE handle[q]
      BY <2>1 DEF PoolInv, PoolTypes
    <3>2. ToSet(idle') = ToSet(idle) \ {c} /\ ToSet(idle') \subseteq open /\ Once(idle')
      BY <2>1, <2>2 DEF PoolInv, OnePlaceEach
    <3>3. \A q \in Request : handle'[q] # NoHandle =>
            /\ handle'[q] \in open \ ToSet(idle')
            /\ \A p \in Request \ {q} : handle'[p] # handle'[q]
      BY <2>3, <3>1, <3>2 DEF PoolInv, OnePlaceEach
    <3>4. handle[r] # c /\ NoHandle \notin open
      BY <2>3, AccessAssumption DEF PoolInv, PoolTypes
    <3>5. \A d \in open \ ToSet(idle') : \E q \in Request : handle'[q] = d
      BY <1>1, <3>1, <3>2, <3>4 DEF PoolInv, OnePlaceEach
    <3>. QED
      BY <1>1, <3>2, <3>3, <3>5 DEF OnePlaceEach
  <2>6. Leasers' = Leasers \cup {r}
    BY <1>1, <2>1, <2>3 DEF PoolInv, PoolTypes, Leasers, Leasing, Thread
  <2>7. leases' + Len(idle') <= Capacity
    BY <1>1, <1>2, <2>1, <2>2 DEF PoolInv, PoolTypes
  <2>8. ~poolClosed'
    BY <1>1, <1>5 DEF PoolInv
  <2>. QED
    BY <1>3, <2>4, <2>5, <2>6, <2>7, <2>8 DEF PoolInv
<1>. QED
  BY <1>4, <1>5

\* A new connection has no other place, for a request opens one at most.
LEMMA OpenedKeepsPool == ASSUME PoolInv, NEW r \in Request, Opened(r) PROVE PoolInv'
<1>1. /\ pc[r] = "opening" /\ r \in Thread /\ r \notin open /\ r # NoHandle
      /\ open' = open \cup {r} /\ handle' = [handle EXCEPT ![r] = r]
      /\ pc' = [pc EXCEPT ![r] = "leased"] /\ UNCHANGED <<leases, idle, poolClosed>>
  BY AccessAssumption DEF Opened, Goto, PoolInv, HandlesFit, Thread
<1>2. PoolTypes' /\ HandlesFit'
  BY <1>1 DEF PoolInv, PoolTypes, HandlesFit, Before, Using, Place
<1>3. OnePlaceEach'
  <2>1. \A q \in Request : handle'[q] = IF q = r THEN r ELSE handle[q]
    BY <1>1 DEF PoolInv, PoolTypes
  <2>2. r \notin ToSet(idle) /\ \A q \in Request : handle[q] # r
    BY <1>1 DEF PoolInv, OnePlaceEach
  <2>3. \A q \in Request : handle'[q] # NoHandle =>
          /\ handle'[q] \in open' \ ToSet(idle)
          /\ \A p \in Request \ {q} : handle'[p] # handle'[q]
    BY <1>1, <2>1, <2>2 DEF PoolInv, OnePlaceEach
  <2>4. \A d \in open' \ ToSet(idle) : \E q \in Request : handle'[q] = d
    <3>1. handle[r] = NoHandle /\ NoHandle \notin open
      BY <1>1, AccessAssumption DEF PoolInv, PoolTypes, HandlesFit, Using
    <3>. QED
      BY <1>1, <2>1, <3>1 DEF PoolInv, OnePlaceEach
  <2>. QED
    BY <1>1, <2>3, <2>4 DEF PoolInv, OnePlaceEach
<1>4. Leasers' = Leasers
  BY <1>1 DEF PoolInv, PoolTypes, Leasers, Leasing, Thread
<1>. QED
  BY <1>1, <1>2, <1>3, <1>4 DEF PoolInv

\* A lease ends: r leased and does so no more.
LEMMA OneLeaseLess ==
  ASSUME PoolInv, NEW r \in Request, Leasing(r), leases' = Unleased, Leasers' = Leasers \ {r}
  PROVE  leases' = Cardinality(Leasers') /\ leases' \in Nat /\ leases' = leases - 1 /\ leases \in Nat
<1>1. r \in Leasers
  BY DEF Leasers
<1>2. Cardinality(Leasers \ {r}) = Cardinality(Leasers) - 1 /\ Cardinality(Leasers \ {r}) \in Nat
  BY <1>1, LeasersFinite, FS_RemoveElement, FS_CardinalityType
<1>. QED
  BY <1>2 DEF PoolInv, PoolTypes, Unleased

LEMMA OpenFailsKeepsPool == ASSUME PoolInv, NEW r \in Request, OpenFails(r) PROVE PoolInv'
<1>1. /\ pc[r] = "opening" /\ r \in Thread /\ handle[r] = NoHandle /\ leases' = Unleased
      /\ pc' = [pc EXCEPT ![r] = "answering"] /\ UNCHANGED <<idle, poolClosed, open, handle>>
  BY DEF OpenFails, Goto, PoolInv, HandlesFit, Using, Thread
<1>2. Leasing(r) /\ Leasers' = Leasers \ {r}
  BY <1>1 DEF PoolInv, PoolTypes, Leasers, Leasing, Thread
<1>3. leases' = Cardinality(Leasers') /\ leases' \in Nat /\ leases' = leases - 1 /\ leases \in Nat
  BY <1>1, <1>2, OneLeaseLess
<1>4. PoolTypes' /\ HandlesFit' /\ OnePlaceEach'
  BY <1>1, <1>3 DEF PoolInv, PoolTypes, HandlesFit, OnePlaceEach, Before, Using, Place
<1>5. leases' + Len(idle') <= Capacity
  BY <1>1, <1>3, AccessAssumption, LenProperties DEF PoolInv, PoolTypes
<1>. QED
  BY <1>1, <1>3, <1>4, <1>5 DEF PoolInv

LEMMA DiscardKeepsPool == ASSUME PoolInv, NEW r \in Request, Discard(r) PROVE PoolInv'
<1>1. /\ pc[r] = "leaving" /\ r \in Thread /\ handle[r] # NoHandle /\ leases' = Unleased
      /\ open' = open \ {handle[r]} /\ handle' = [handle EXCEPT ![r] = NoHandle]
      /\ pc' = [pc EXCEPT ![r] = "returning"] /\ UNCHANGED <<idle, poolClosed>>
  BY DEF Discard, ForgetsHandle, Goto, PoolInv, HandlesFit, Using, Thread
<1>2. Leasing(r) /\ Leasers' = Leasers \ {r}
  BY <1>1 DEF PoolInv, PoolTypes, Leasers, Leasing, Thread
<1>3. leases' = Cardinality(Leasers') /\ leases' \in Nat /\ leases' = leases - 1 /\ leases \in Nat
  BY <1>1, <1>2, OneLeaseLess
<1>4. PoolTypes' /\ HandlesFit'
  BY <1>1, <1>3 DEF PoolInv, PoolTypes, HandlesFit, Before, Using, Place
<1>5. OnePlaceEach'
  BY <1>1 DEF PoolInv, PoolTypes, OnePlaceEach
<1>6. leases' + Len(idle') <= Capacity
  BY <1>1, <1>3, AccessAssumption, LenProperties DEF PoolInv, PoolTypes
<1>. QED
  BY <1>1, <1>3, <1>4, <1>5, <1>6 DEF PoolInv

\* release(): the connection is kept, or is closed when the pool is.
LEMMA ExitKeepsPool == ASSUME PoolInv, NEW r \in Request, ExitScope(r) PROVE PoolInv'
<1>1. pc[r] = "returning" /\ r \in Thread /\ UNCHANGED <<poolClosed, open>>
  BY DEF ExitScope, Thread, poolVars
<1>2. CASE handle[r] = NoHandle
  <2>1. pc' = [pc EXCEPT ![r] = "answering"] /\ UNCHANGED <<leases, idle, handle>>
    BY <1>2 DEF ExitScope, Goto
  <2>2. PoolTypes' /\ HandlesFit' /\ OnePlaceEach'
    BY <1>1, <1>2, <2>1 DEF PoolInv, PoolTypes, HandlesFit, OnePlaceEach, Before, Using, Place
  <2>3. Leasers' = Leasers
    BY <1>1, <1>2, <2>1 DEF PoolInv, PoolTypes, Leasers, Leasing, Thread
  <2>. QED
    BY <1>1, <2>1, <2>2, <2>3 DEF PoolInv
<1>3. CASE handle[r] # NoHandle /\ Keeps
  <2>. DEFINE c == handle[r]
  <2>1. /\ leases' = Unleased /\ idle' = Append(idle, c)
        /\ handle' = [handle EXCEPT ![r] = NoHandle] /\ pc' = [pc EXCEPT ![r] = "answering"]
        /\ ~poolClosed'
    BY <1>1, <1>3 DEF ExitScope, Goto, Keeps
  <2>2. /\ c \in open /\ c \in Request /\ c \notin ToSet(idle)
        /\ \A q \in Request \ {r} : handle[q] # c
    BY <1>3 DEF PoolInv, PoolTypes, OnePlaceEach
  <2>3. /\ Append(idle, c) \in Seq(Request) /\ Once(Append(idle, c))
        /\ ToSet(Append(idle, c)) = ToSet(idle) \cup {c}
        /\ Len(Append(idle, c)) = Len(idle) + 1 /\ Len(idle) \in Nat
    BY <2>2, Joining, LenProperties DEF PoolInv, PoolTypes, OnePlaceEach
  <2>4. Leasing(r) /\ Leasers' = Leasers \ {r}
    BY <1>1, <1>3, <2>1 DEF PoolInv, PoolTypes, Leasers, Leasing, Thread
  <2>5. leases' = Cardinality(Leasers') /\ leases' \in Nat /\ leases' = leases - 1 /\ leases \in Nat
    BY <2>1, <2>4, OneLeaseLess
  <2>6. PoolTypes' /\ HandlesFit'
    BY <1>1, <2>1, <2>3, <2>5 DEF PoolInv, PoolTypes, HandlesFit, Before, Using, Place
  <2>7. OnePlaceEach'
    BY <1>1, <1>3, <2>1, <2>2, <2>3 DEF PoolInv, PoolTypes, OnePlaceEach
  <2>8. leases' + Len(idle') <= Capacity
    BY <2>1, <2>3, <2>5, AccessAssumption DEF PoolInv
  <2>. QED
    BY <2>1, <2>5, <2>6, <2>7, <2>8 DEF PoolInv
<1>4. CASE handle[r] # NoHandle /\ ~Keeps
  <2>1. /\ leases' = Unleased /\ pc' = [pc EXCEPT ![r] = "closing"] /\ UNCHANGED <<idle, handle>>
    BY <1>4 DEF ExitScope, Goto
  <2>2. Leasing(r) /\ Leasers' = Leasers \ {r}
    BY <1>1, <1>4, <2>1 DEF PoolInv, PoolTypes, Leasers, Leasing, Thread
  <2>3. leases' = Cardinality(Leasers') /\ leases' \in Nat /\ leases' = leases - 1 /\ leases \in Nat
    BY <2>1, <2>2, OneLeaseLess
  <2>4. PoolTypes' /\ HandlesFit' /\ OnePlaceEach'
    BY <1>1, <1>4, <2>1, <2>3 DEF PoolInv, PoolTypes, HandlesFit, OnePlaceEach, Before, Using, Place
  <2>5. leases' + Len(idle') <= Capacity
    BY <2>1, <2>3, AccessAssumption, LenProperties DEF PoolInv, PoolTypes
  <2>. QED
    BY <1>1, <2>1, <2>3, <2>4, <2>5 DEF PoolInv
<1>. QED
  BY <1>2, <1>3, <1>4

LEMMA CloseKeepsPool == ASSUME PoolInv, NEW r \in Request, CloseHandle(r) PROVE PoolInv'
<1>1. /\ pc[r] = "closing" /\ r \in Thread /\ handle[r] # NoHandle /\ open' = open \ {handle[r]}
      /\ handle' = [handle EXCEPT ![r] = NoHandle]
      /\ pc' = [pc EXCEPT ![r] = "answering"] /\ UNCHANGED <<leases, idle, poolClosed>>
  BY DEF CloseHandle, Goto, PoolInv, HandlesFit, Thread
<1>2. PoolTypes' /\ HandlesFit'
  BY <1>1 DEF PoolInv, PoolTypes, HandlesFit, Before, Using, Place
<1>3. OnePlaceEach'
  BY <1>1 DEF PoolInv, PoolTypes, OnePlaceEach
<1>4. Leasers' = Leasers
  BY <1>1 DEF PoolInv, PoolTypes, Leasers, Leasing, Thread
<1>. QED
  BY <1>1, <1>2, <1>3, <1>4 DEF PoolInv

LEMMA ClosePoolKeepsPool == ASSUME PoolInv, ClosePool PROVE PoolInv'
<1>1. /\ poolClosed' = TRUE /\ open' = open \ ToSet(idle) /\ idle' = <<>>
      /\ UNCHANGED <<pc, leases, handle>>
  BY DEF ClosePool
<1>2. <<>> \in Seq(Request) /\ Len(<<>>) = 0 /\ ToSet(<<>>) = {} /\ Once(<<>>)
  BY DEF ToSet, Once
<1>3. PoolTypes' /\ HandlesFit'
  BY <1>1, <1>2 DEF PoolInv, PoolTypes, HandlesFit
<1>4. OnePlaceEach'
  BY <1>1, <1>2 DEF PoolInv, PoolTypes, OnePlaceEach
<1>5. Leasers' = Leasers
  BY <1>1 DEF Leasers, Leasing
<1>6. leases' + Len(idle') <= Capacity
  BY <1>1, <1>2, AccessAssumption, LenProperties DEF PoolInv, PoolTypes
<1>. QED
  BY <1>1, <1>3, <1>4, <1>5, <1>6 DEF PoolInv

LEMMA PoolKept == ASSUME PoolInv, [AccessNext]_accessVars PROVE PoolInv'
<1>0. Request \subseteq Thread /\ Coordinator \in Thread \ Request
  BY AccessAssumption DEF Thread
<1>. USE DEF PoolInv, PoolTypes
<1>1. CASE UNCHANGED <<pc, leases, idle, poolClosed, open, handle>>
  BY <1>1 DEF HandlesFit, OnePlaceEach, Leasers, Leasing
<1>2. ASSUME NEW r \in Request, Admit(r) \/ TurnAway(r) \/ Answer(r) \/ Refuse(r)
                                \/ EnterScope(r) \/ LeaseTimesOut(r)
      PROVE  PoolInv'
  <2>1. /\ UNCHANGED <<leases, idle, poolClosed, open, handle>>
        /\ \E place \in Place : Goto(r, place) /\
             \/ pc[r] \in Before /\ place \in Before \cup {"answering", "done"}
             \/ pc[r] = "answering" /\ place = "done"
    BY <1>2 DEF Admit, TurnAway, Answer, Refuse, EnterScope, LeaseTimesOut, poolVars, Before, Place
  <2>. QED
    BY <1>0, <2>1, MovesOn
<1>3. ASSUME NEW r \in Request, EndLease(r) \/ TakeTurn(r) \/ QueueWrite(r) \/ WriteTimesOut(r)
                                \/ Commit(r) \/ RollBack(r) \/ Read(r) \/ ReadFails(r)
      PROVE  PoolInv'
  <2>1. /\ UNCHANGED <<leases, idle, poolClosed, open, handle>>
        /\ \E place \in Place :
             Goto(r, place) /\ pc[r] \in Using /\ place \in Using \cup {"returning"}
    BY <1>3 DEF EndLease, TakeTurn, QueueWrite, WriteTimesOut, TurnTimesOut, Commit, RollBack,
                EndTurn, Read, ReadFails, poolVars, Using, Place
  <2>. QED
    BY <1>0, <2>1, MovesOn
<1>4. CASE CoordinatorStep \/ TickTimesOut \/ Start
  <2>1. /\ UNCHANGED <<leases, idle, poolClosed, open, handle>>
        /\ \E place \in Place : Goto(Coordinator, place)
    BY <1>4 DEF CoordinatorStep, CoordinatorLoop, TakeTurn, Tick, TickTimesOut, TurnTimesOut, EndTurn,
                Start, poolVars, Place
  <2>. QED
    BY <1>0, <2>1, MovesOn
<1>5. CASE BeginShutdown \/ Drain \/ DrainExpires \/ Join \/ JoinExpires
  BY <1>1, <1>5 DEF BeginShutdown, Drain, DrainExpires, Join, JoinExpires, poolVars
<1>6. ASSUME NEW r \in Request, Lease(r) \/ Opened(r) \/ OpenFails(r) \/ Discard(r)
                                \/ ExitScope(r) \/ CloseHandle(r)
      PROVE  PoolInv'
  BY <1>6, LeaseKeepsPool, OpenedKeepsPool, OpenFailsKeepsPool, DiscardKeepsPool, ExitKeepsPool,
     CloseKeepsPool
<1>7. CASE ClosePool
  BY <1>7, ClosePoolKeepsPool
<1>. QED
  BY <1>1, <1>2, <1>3, <1>4, <1>5, <1>6, <1>7
     DEF AccessNext, HandlerStep, CoordinatorStep, ShutdownStep, Expires, accessVars, poolVars

(* Handlers and shutdown *)

Handlers == {r \in Request : Handling(r)}

StopInv ==
  /\ pc \in [Thread -> Place]
  /\ drained \in BOOLEAN /\ result \in BOOLEAN
  /\ serving = "new" => pc[Coordinator] = "off"
  /\ inFlight = Cardinality(Handlers)
  /\ shut # "idle" => serving = "ended"
  /\ drained => inFlight = 0 /\ shut \in {"joining", "closing", "returned"}
  /\ result => drained /\ CoordinatorOver /\ shut = "returned"
  /\ shut = "returned" => poolClosed

LEMMA HandlersFinite == IsFiniteSet(Handlers) /\ Cardinality(Handlers) \in Nat
BY AccessAssumption, FS_Subset, FS_CardinalityType DEF Handlers

\* A request that is being handled still is, or one that is not still is not.
LEMMA StillHandled ==
  ASSUME StopInv, UNCHANGED <<serving, inFlight, shut, drained, result>>, poolClosed' = poolClosed,
         NEW r \in Request, NEW place \in Place, Goto(r, place),
         Handling(r) <=> place \notin {"new", "done"}
  PROVE  StopInv'
<1>1. pc' = [pc EXCEPT ![r] = place] /\ r \in Thread /\ r # Coordinator /\ Coordinator \in Thread
  BY AccessAssumption DEF Goto, Thread
<1>2. Handlers' = Handlers
  BY <1>1 DEF StopInv, Handlers, Handling, Thread
<1>. QED
  BY <1>1, <1>2 DEF StopInv, CoordinatorOver

\* The thread of the coordinator goes on, or shutdown does.
LEMMA CoordinatorMoves ==
  ASSUME StopInv, UNCHANGED <<serving, inFlight, shut, drained, result>>, poolClosed' = poolClosed,
         NEW place \in Place, Goto(Coordinator, place), ~CoordinatorOver
  PROVE  StopInv'
<1>1. /\ pc' = [pc EXCEPT ![Coordinator] = place] /\ Coordinator \in Thread
      /\ \A r \in Request : r \in Thread /\ r # Coordinator
  BY AccessAssumption DEF Goto, Thread
<1>2. Handlers' = Handlers
  BY <1>1 DEF StopInv, Handlers, Handling
<1>. QED
  BY <1>1, <1>2 DEF StopInv, CoordinatorOver

LEMMA StopKept == ASSUME StopInv, [AccessNext]_accessVars PROVE StopInv'
<1>0. Request \subseteq Thread /\ Coordinator \in Thread \ Request
  BY AccessAssumption DEF Thread
<1>1. CASE UNCHANGED accessVars
  BY <1>1 DEF accessVars, serverVars, stopVars, poolVars, StopInv, Handlers, Handling, CoordinatorOver
<1>2. ASSUME NEW r \in Request, TurnAway(r) \/ HandlerStep(r) \/ LeaseTimesOut(r) \/ WriteTimesOut(r),
             ~Answer(r)
      PROVE  StopInv'
  <2>1. /\ UNCHANGED <<serving, inFlight, shut, drained, result>> /\ poolClosed' = poolClosed
        /\ \E place \in Place : Goto(r, place) /\ (Handling(r) <=> place \notin {"new", "done"})
    <3>1. CASE TurnAway(r) \/ Refuse(r) \/ EnterScope(r) \/ Lease(r) \/ Opened(r) \/ OpenFails(r)
      BY <3>1 DEF TurnAway, Refuse, EnterScope, Lease, Opened, OpenFails, serverVars, stopVars,
                  poolVars, Handling, Place
    <3>2. CASE QueueWrite(r) \/ TakeTurn(r) \/ Commit(r) \/ RollBack(r) \/ Read(r) \/ LeaseTimesOut(r)
               \/ WriteTimesOut(r)
      BY <3>2 DEF QueueWrite, TakeTurn, Commit, RollBack, Read, EndTurn, LeaseTimesOut, WriteTimesOut,
                  TurnTimesOut, serverVars, stopVars, poolVars, Handling, Place
    <3>3. CASE ReadFails(r) \/ EndLease(r) \/ Discard(r) \/ ExitScope(r) \/ CloseHandle(r)
      BY <3>3 DEF ReadFails, EndLease, Discard, ExitScope, CloseHandle, serverVars, stopVars, poolVars,
                  Handling, Place
    <3>. QED
      BY <1>2, <3>1, <3>2, <3>3 DEF HandlerStep
  <2>. QED
    BY <2>1, StillHandled
<1>3. ASSUME NEW r \in Request, Admit(r) PROVE StopInv'
  <2>1. /\ ~Handling(r) /\ serving = "serving" /\ inFlight' = inFlight + 1
        /\ pc' = [pc EXCEPT ![r] = "admitted"]
        /\ UNCHANGED <<serving, shut, drained, result, poolClosed>>
    BY <1>3 DEF Admit, Goto, Handling, stopVars, poolVars
  <2>2. Handlers' = Handlers \cup {r} /\ r \notin Handlers
    BY <1>0, <2>1 DEF StopInv, Handlers, Handling
  <2>3. inFlight' = Cardinality(Handlers')
    BY <2>1, <2>2, HandlersFinite, FS_AddElement DEF StopInv
  <2>4. ~drained /\ shut = "idle"
    BY <2>1 DEF StopInv
  <2>. QED
    BY <1>0, <2>1, <2>3, <2>4 DEF StopInv, CoordinatorOver, Place
<1>4. ASSUME NEW r \in Request, Answer(r) PROVE StopInv'
  <2>1. /\ Handling(r) /\ inFlight' = inFlight - 1 /\ pc' = [pc EXCEPT ![r] = "done"]
        /\ UNCHANGED <<serving, shut, drained, result, poolClosed>>
    BY <1>4 DEF Answer, Goto, Handling, stopVars, poolVars
  <2>2. Handlers' = Handlers \ {r} /\ r \in Handlers
    BY <1>0, <2>1 DEF StopInv, Handlers, Handling
  <2>3. inFlight' = Cardinality(Handlers') /\ inFlight \in Nat \ {0}
    BY <2>1, <2>2, HandlersFinite, FS_RemoveElement, FS_EmptySet DEF StopInv
  <2>. QED
    BY <1>0, <2>1, <2>3 DEF StopInv, CoordinatorOver, Place
<1>5. CASE CoordinatorStep \/ TickTimesOut
  <2>1. /\ UNCHANGED <<serving, inFlight, shut, drained, result>> /\ poolClosed' = poolClosed
        /\ ~CoordinatorOver /\ \E place \in Place : Goto(Coordinator, place)
    BY <1>5 DEF CoordinatorStep, CoordinatorLoop, TakeTurn, Tick, TickTimesOut, TurnTimesOut, EndTurn,
                CoordinatorOver, serverVars, stopVars, poolVars, Place
  <2>. QED
    BY <2>1, CoordinatorMoves
<1>6. CASE Start
  <2>1. /\ serving = "new" /\ serving' = "serving" /\ pc' = [pc EXCEPT ![Coordinator] = "loop"]
        /\ UNCHANGED <<inFlight, shut, drained, result, poolClosed>>
    BY <1>6 DEF Start, Goto, stopVars, poolVars
  <2>2. Handlers' = Handlers
    BY <1>0, <2>1 DEF StopInv, Handlers, Handling
  <2>. QED
    BY <1>0, <2>1, <2>2 DEF StopInv, Place
<1>7. CASE BeginShutdown \/ ShutdownStep \/ DrainExpires \/ JoinExpires
  <2>1. pc' = pc /\ UNCHANGED inFlight /\ Handlers' = Handlers
    BY <1>7 DEF BeginShutdown, ShutdownStep, Drain, DrainExpires, Join, JoinExpires, ClosePool,
                serverVars, Handlers, Handling
  <2>2. CASE BeginShutdown
    <3>1. ~drained /\ ~result
      BY <2>2 DEF BeginShutdown, StopInv
    <3>2. /\ shut' = "draining" /\ serving' = "ended"
          /\ UNCHANGED <<pc, inFlight, poolClosed, drained, result>>
      BY <2>2 DEF BeginShutdown, poolVars
    <3>. QED
      BY <2>1, <3>1, <3>2 DEF StopInv
  <2>3. CASE Drain \/ DrainExpires
    <3>1. shut = "draining" /\ ~result
      BY <2>3 DEF Drain, DrainExpires, StopInv
    <3>2. /\ shut' = "joining" /\ drained' \in BOOLEAN /\ (drained' => inFlight = 0)
          /\ UNCHANGED <<pc, serving, inFlight, poolClosed, result>>
      BY <2>3 DEF Drain, DrainExpires, DrainGivesUp, serverVars, poolVars
    <3>. QED
      BY <2>1, <3>1, <3>2 DEF StopInv
  <2>4. CASE Join \/ JoinExpires
    BY <2>1, <2>4 DEF Join, JoinExpires, serverVars, poolVars, StopInv, CoordinatorOver
  <2>5. CASE ClosePool
    BY <2>1, <2>5 DEF ClosePool, serverVars, StopInv, CoordinatorOver
  <2>. QED
    BY <1>7, <2>2, <2>3, <2>4, <2>5 DEF ShutdownStep
<1>. QED
  BY <1>1, <1>2, <1>3, <1>4, <1>5, <1>6, <1>7 DEF AccessNext, ShutdownStep, Expires

(* Writers *)

WriterInv ==
  /\ pc \in [Thread -> Place]
  /\ tickets \in Seq(Thread) /\ Once(tickets)
  /\ OneWriter

\* The line of writers as a thread joins it, is first in it, or leaves it.
LEMMA QueuesUp ==
  ASSUME WriterInv, NEW x \in Thread, pc[x] \notin {"queued", "writing"}, Enqueue(x), Goto(x, "queued")
  PROVE  WriterInv'
<1>1. x \notin ToSet(tickets) /\ tickets' = Append(tickets, x) /\ pc' = [pc EXCEPT ![x] = "queued"]
  BY DEF WriterInv, OneWriter, Enqueue, Goto
<1>2. /\ Append(tickets, x) \in Seq(Thread) /\ Once(Append(tickets, x))
      /\ ToSet(Append(tickets, x)) = ToSet(tickets) \cup {x}
      /\ Len(Append(tickets, x)) = Len(tickets) + 1 /\ Len(tickets) \in Nat
      /\ tickets # <<>> => Head(Append(tickets, x)) = Head(tickets)
  BY <1>1, Joining, LenProperties DEF WriterInv
<1>3. tickets' # <<>>
  BY <1>1, <1>2, EmptySeq
<1>. QED
  BY <1>1, <1>2, <1>3 DEF WriterInv, OneWriter, Place

LEMMA GivesUp ==
  ASSUME WriterInv, NEW x \in Thread, NEW place \in Place \ {"queued", "writing"}, TurnTimesOut(x, place)
  PROVE  WriterInv'
<1>1. /\ x \in ToSet(tickets) /\ x # Head(tickets) /\ tickets' = Without(tickets, x)
      /\ pc' = [pc EXCEPT ![x] = place]
  BY DEF WriterInv, OneWriter, TurnTimesOut, MayWrite, WithoutTicket, Goto
<1>2. /\ Without(tickets, x) \in Seq(Thread) /\ Once(Without(tickets, x))
      /\ ToSet(Without(tickets, x)) = ToSet(tickets) \ {x}
      /\ Without(tickets, x) # <<>> /\ Head(Without(tickets, x)) = Head(tickets)
  BY <1>1, GivingUp DEF WriterInv
<1>. QED
  BY <1>1, <1>2 DEF WriterInv, OneWriter

LEMMA TurnEnds ==
  ASSUME WriterInv, NEW x \in Thread, NEW place \in Place \ {"queued", "writing"}, EndTurn(x, place)
  PROVE  WriterInv'
<1>1. /\ tickets # <<>> /\ x = Head(tickets) /\ tickets' = Tail(tickets)
      /\ pc' = [pc EXCEPT ![x] = place]
  BY DEF WriterInv, OneWriter, EndTurn, Goto
<1>2. /\ Tail(tickets) \in Seq(Thread) /\ Once(Tail(tickets))
      /\ ToSet(Tail(tickets)) = ToSet(tickets) \ {x}
  BY <1>1, Leaving DEF WriterInv
<1>3. \A y \in Thread \ {x} : pc[y] # "writing"
  BY <1>1 DEF WriterInv, OneWriter
<1>. QED
  BY <1>1, <1>2, <1>3 DEF WriterInv, OneWriter

LEMMA TurnBegins == ASSUME WriterInv, NEW x \in Thread, TakeTurn(x) PROVE WriterInv'
<1>1. /\ pc[x] = "queued" /\ x = Head(tickets) /\ x \in ToSet(tickets)
      /\ pc' = [pc EXCEPT ![x] = "writing"] /\ tickets' = tickets
  BY DEF WriterInv, OneWriter, TakeTurn, MayWrite, Goto
<1>2. tickets # <<>>
  BY <1>1 DEF ToSet
<1>. QED
  BY <1>1, <1>2 DEF WriterInv, OneWriter, Place

\* What does not concern writers.
LEMMA OtherPlaces ==
  ASSUME WriterInv, tickets' = tickets, NEW x \in Thread, NEW place \in Place \ {"queued", "writing"},
         pc[x] \notin {"queued", "writing"}, Goto(x, place)
  PROVE  WriterInv'
BY DEF WriterInv, OneWriter, Goto

LEMMA WriterKept == ASSUME StopInv, WriterInv, [AccessNext]_accessVars PROVE WriterInv'
<1>0. Request \subseteq Thread /\ Coordinator \in Thread
  BY DEF Thread
<1>1. CASE UNCHANGED <<pc, tickets>>
  BY <1>1 DEF WriterInv, OneWriter
<1>2. ASSUME NEW r \in Request,
             \/ Admit(r) \/ TurnAway(r) \/ Answer(r) \/ Refuse(r) \/ EnterScope(r) \/ LeaseTimesOut(r)
             \/ Lease(r) \/ Opened(r) \/ OpenFails(r) \/ EndLease(r) \/ Discard(r) \/ ExitScope(r)
             \/ CloseHandle(r) \/ Read(r) \/ ReadFails(r)
      PROVE  WriterInv'
  <2>1. /\ tickets' = tickets /\ pc[r] \notin {"queued", "writing"}
        /\ \E place \in Place \ {"queued", "writing"} : Goto(r, place)
    BY <1>2 DEF Admit, TurnAway, Answer, Refuse, EnterScope, LeaseTimesOut, Lease, Opened, OpenFails,
                EndLease, Discard, ExitScope, CloseHandle, Read, ReadFails, Place
  <2>. QED
    BY <1>0, <2>1, OtherPlaces
<1>3. ASSUME NEW r \in Request, QueueWrite(r) PROVE WriterInv'
  BY <1>0, <1>3, QueuesUp DEF QueueWrite
<1>4. ASSUME NEW x \in Thread, TakeTurn(x) PROVE WriterInv'
  BY <1>4, TurnBegins
<1>5. ASSUME NEW r \in Request, WriteTimesOut(r) \/ Commit(r) \/ RollBack(r) PROVE WriterInv'
  BY <1>0, <1>5, GivesUp, TurnEnds DEF WriteTimesOut, Commit, RollBack, Place
<1>6. CASE CoordinatorLoop
  <2>1. pc[Coordinator] = "loop" /\ {"ended"} \subseteq Place \ {"queued", "writing"}
    BY <1>6 DEF CoordinatorLoop, Place
  <2>. QED
    BY <1>0, <1>6, <2>1, QueuesUp, OtherPlaces DEF CoordinatorLoop
<1>7. CASE Tick \/ TickTimesOut
  BY <1>0, <1>7, GivesUp, TurnEnds DEF Tick, TickTimesOut, Place
<1>8. CASE Start
  BY <1>0, <1>8, OtherPlaces DEF Start, StopInv, Place
<1>9. CASE BeginShutdown \/ ShutdownStep \/ DrainExpires \/ JoinExpires
  BY <1>1, <1>9 DEF BeginShutdown, ShutdownStep, Drain, DrainExpires, Join, JoinExpires, ClosePool
<1>. QED
  BY <1>0, <1>1, <1>2, <1>3, <1>4, <1>5, <1>6, <1>7, <1>8, <1>9
     DEF AccessNext, HandlerStep, CoordinatorStep, Expires, accessVars

(* Answers *)

Undecided == Before \cup {"opening", "leased", "queued", "writing"}

\* Before a write may have been committed.
Unwritten == Before \cup {"queued", "writing"}

AnswerInv ==
  /\ pc \in [Thread -> Place] /\ DOMAIN outcome = Request /\ committed \subseteq Request
  /\ \A r \in Request : pc[r] \in Undecided => outcome[r] = "none"
  /\ \A r \in committed : pc[r] \notin Unwritten
  /\ AnswersAreTrue

LEMMA AnswerKept == ASSUME AnswerInv, [AccessNext]_accessVars PROVE AnswerInv'
<1>0. Writes \subseteq Request /\ Request \subseteq Thread /\ Coordinator \in Thread \ Request
  BY AccessAssumption DEF Thread
<1>. USE DEF AnswerInv, AnswersAreTrue, Undecided, Unwritten, Before
<1>1. CASE UNCHANGED <<pc, outcome, committed>>
  BY <1>1
<1>2. ASSUME NEW r \in Request, UNCHANGED <<outcome, committed>>, NEW place \in Place, Goto(r, place),
             place \in Unwritten => pc[r] \in Unwritten \/ r \notin committed,
             place \in Undecided => pc[r] \in Undecided \/ outcome[r] = "none"
      PROVE  AnswerInv'
  BY <1>0, <1>2 DEF Goto
<1>3. ASSUME NEW r \in Request, committed' = committed, NEW place \in Place, Goto(r, place),
             place \notin Undecided, NEW answer, Say(r, answer),
             answer \in {"ok", "oversized"} /\ r \in Writes => r \in committed,
             answer \in {"turned away", "refused"} /\ r \in Writes => r \notin committed
      PROVE  AnswerInv'
  BY <1>0, <1>3 DEF Goto, Say
<1>4. ASSUME NEW r \in Request, \/ Admit(r) \/ EnterScope(r) \/ Lease(r) \/ Opened(r)
                                \/ EndLease(r) \/ ExitScope(r) \/ CloseHandle(r) \/ QueueWrite(r)
                                \/ TakeTurn(r)
      PROVE  AnswerInv'
  <2>1. /\ UNCHANGED <<outcome, committed>>
        /\ \E place \in Place : /\ Goto(r, place)
                                /\ place \in Unwritten => pc[r] \in Unwritten \/ r \notin committed
                                /\ place \in Undecided => pc[r] \in Undecided \/ outcome[r] = "none"
    BY <1>4 DEF Admit, EnterScope, Lease, Opened, EndLease, ExitScope, CloseHandle, QueueWrite, Reading,
                TakeTurn, answerVars, Place
  <2>. QED
    BY <1>2, <2>1
<1>5. ASSUME NEW r \in Request, \/ TurnAway(r) \/ Refuse(r) \/ LeaseTimesOut(r) \/ OpenFails(r)
                                \/ Discard(r) \/ WriteTimesOut(r) \/ RollBack(r)
                                \/ Read(r) \/ ReadFails(r)
      PROVE  AnswerInv'
  <2>1. /\ committed' = committed
        /\ \E place \in Place \ Undecided, answer \in {"ok", "unavailable", "turned away", "refused"} :
             /\ Goto(r, place) /\ Say(r, answer)
             /\ answer = "ok" => Reading(r)
             /\ answer \in {"turned away", "refused"} => pc[r] \in Unwritten \/ r \notin committed
    <3>1. CASE TurnAway(r) \/ Refuse(r) \/ LeaseTimesOut(r) \/ OpenFails(r) \/ Discard(r)
      BY <3>1 DEF TurnAway, Refuse, LeaseTimesOut, OpenFails, Discard, Place
    <3>2. CASE WriteTimesOut(r) \/ RollBack(r)
      BY <3>2 DEF WriteTimesOut, TurnTimesOut, RollBack, EndTurn, Errors, Place
    <3>3. CASE Read(r) \/ ReadFails(r)
      BY <3>3 DEF Read, ReadFails, ReadErrors, Errors, Place
    <3>. QED
      BY <1>5, <3>1, <3>2, <3>3
  <2>. QED
    BY <1>3, <2>1 DEF Reading
<1>6. ASSUME NEW r \in Request, Answer(r) PROVE AnswerInv'
  <2>1. /\ committed' = committed /\ Goto(r, "done")
        /\ \E answer \in Response(r) : Say(r, answer)
    BY <1>6 DEF Answer
  <2>2. PICK answer \in Response(r) : Say(r, answer)
    BY <2>1
  <2>3. answer = outcome[r] \/ (answer = "oversized" /\ outcome[r] = "ok")
    BY DEF Response
  <2>4. /\ answer \in {"ok", "oversized"} /\ r \in Writes => r \in committed
        /\ answer \in {"turned away", "refused"} /\ r \in Writes => r \notin committed
    BY <2>3
  <2>5. "done" \in Place \ Undecided
    BY DEF Place
  <2>. QED
    BY <1>3, <2>1, <2>2, <2>4, <2>5
<1>7. ASSUME NEW r \in Request, Commit(r) PROVE AnswerInv'
  <2>1. /\ pc[r] = "writing" /\ pc' = [pc EXCEPT ![r] = "leaving"] /\ outcome' = outcome
        /\ committed' = committed \cup {r}
    BY <1>7 DEF Commit, EndTurn, Goto
  <2>. QED
    BY <1>0, <2>1 DEF Place
<1>8. CASE CoordinatorStep \/ TickTimesOut \/ Start
  <2>1. UNCHANGED <<outcome, committed>> /\ \E place \in Place : Goto(Coordinator, place)
    BY <1>8 DEF CoordinatorStep, CoordinatorLoop, TakeTurn, Tick, TickTimesOut, TurnTimesOut, EndTurn,
                Start, answerVars, Place
  <2>. QED
    BY <1>0, <2>1 DEF Goto
<1>9. CASE BeginShutdown \/ ShutdownStep \/ DrainExpires \/ JoinExpires
  BY <1>1, <1>9 DEF BeginShutdown, ShutdownStep, Drain, DrainExpires, Join, JoinExpires, ClosePool,
                    answerVars
<1>. QED
  BY <1>0, <1>1, <1>4, <1>5, <1>6, <1>7, <1>8, <1>9
     DEF AccessNext, HandlerStep, Expires, accessVars, answerVars

(* The theorems *)

LEMMA InitialInv == AccessInit => PoolInv /\ StopInv /\ WriterInv /\ AnswerInv
<1>. SUFFICES ASSUME AccessInit PROVE PoolInv /\ StopInv /\ WriterInv /\ AnswerInv
  OBVIOUS
<1>. USE AccessAssumption DEF AccessInit
<1>1. <<>> \in Seq(Request) /\ <<>> \in Seq(Thread) /\ Len(<<>>) = 0 /\ ToSet(<<>>) = {} /\ Once(<<>>)
  BY DEF ToSet, Once
<1>2. pc \in [Thread -> Place] /\ \A r \in Request : pc[r] = "new"
  BY DEF Thread, Place
<1>3. PoolInv
  <2>1. Leasers = {}
    BY <1>2 DEF Leasers, Leasing
  <2>2. Cardinality(Leasers) = 0 /\ Capacity \in Nat
    BY <2>1, FS_EmptySet
  <2>. QED
    <3>1. PoolTypes /\ HandlesFit
      BY <1>1, <1>2 DEF PoolTypes, HandlesFit, Using
    <3>2. OnePlaceEach
      BY <1>1 DEF OnePlaceEach
    <3>3. leases = Cardinality(Leasers) /\ leases + Len(idle) <= Capacity
      BY <1>1, <2>2
    <3>. QED
      BY <3>1, <3>2, <3>3 DEF PoolInv
<1>4. StopInv
  <2>1. Handlers = {}
    BY <1>2 DEF Handlers, Handling
  <2>2. Cardinality(Handlers) = 0
    BY <2>1, FS_EmptySet
  <2>. QED
    BY <1>2, <2>2 DEF StopInv, Thread
<1>5. WriterInv
  <2>1. \A x \in Thread : pc[x] \notin {"queued", "writing"}
    BY DEF Thread
  <2>. QED
    BY <1>1, <1>2, <2>1 DEF WriterInv, OneWriter
<1>6. AnswerInv
  BY <1>2 DEF AnswerInv, AnswersAreTrue
<1>. QED
  BY <1>3, <1>4, <1>5, <1>6

LEMMA PoolIsSound == PoolInv => LeasesBounded /\ HandlesExclusive /\ NothingLeftOpen
<1>. SUFFICES ASSUME PoolInv PROVE LeasesBounded /\ HandlesExclusive /\ NothingLeftOpen
  OBVIOUS
<1>1. LeasesBounded
  BY DEF PoolInv, LeasesBounded, Leasers
<1>2. HandlesExclusive
  BY Counting DEF PoolInv, PoolTypes, OnePlaceEach, HandlesExclusive
<1>3. NothingLeftOpen
  <2>. SUFFICES ASSUME poolClosed, \A r \in Request : ~Handling(r), NEW c \in open PROVE FALSE
    BY DEF NothingLeftOpen
  <2>1. ToSet(idle) = {}
    BY DEF PoolInv, ToSet
  <2>2. PICK r \in Request : handle[r] = c
    BY <2>1 DEF PoolInv, OnePlaceEach
  <2>3. c # NoHandle
    BY AccessAssumption DEF PoolInv, PoolTypes
  <2>. QED
    BY <2>2, <2>3 DEF PoolInv, HandlesFit, Handling, Using
<1>. QED
  BY <1>1, <1>2, <1>3

\* Connections are counted, exclusive and never left open, and writers take
\* turns (_ConnectionPool, _writer_slot), however requests fail or give up.
THEOREM ResourcesAreSoundAlways == AccessSpec => []ResourcesAreSound
<1>1. AccessInit => PoolInv /\ StopInv /\ WriterInv
  BY InitialInv
<1>2. PoolInv /\ StopInv /\ WriterInv /\ [AccessNext]_accessVars => (PoolInv /\ StopInv /\ WriterInv)'
  BY PoolKept, StopKept, WriterKept
<1>3. PoolInv /\ StopInv /\ WriterInv => ResourcesAreSound
  BY PoolIsSound DEF ResourcesAreSound, WriterInv
<1>. QED
  BY <1>1, <1>2, <1>3, PTL DEF AccessSpec

\* shutdown of the management service says True only when all of it is over.
THEOREM ShutdownIsCompleteAlways == AccessSpec => []ShutdownIsComplete
<1>1. AccessInit => PoolInv /\ StopInv
  BY InitialInv
<1>2. PoolInv /\ StopInv /\ [AccessNext]_accessVars => (PoolInv /\ StopInv)'
  BY PoolKept, StopKept
<1>3. ASSUME PoolInv, StopInv PROVE ShutdownIsComplete
  <2>. SUFFICES ASSUME result PROVE ShutdownIsComplete
    BY DEF ShutdownIsComplete
  <2>1. CoordinatorOver /\ poolClosed /\ Cardinality(Handlers) = 0
    BY <1>3 DEF StopInv
  <2>2. Handlers = {}
    BY <2>1, HandlersFinite, FS_EmptySet
  <2>3. \A r \in Request : ~Handling(r)
    BY <2>2 DEF Handlers
  <2>. QED
    BY <1>3, <2>1, <2>3, PoolIsSound DEF NothingLeftOpen, ShutdownIsComplete
<1>. QED
  BY <1>1, <1>2, <1>3, PTL DEF AccessSpec

\* The answer to a write (_dispatch) agrees with what the database holds.
THEOREM AnswersAreTrueAlways == AccessSpec => []AnswersAreTrue
<1>1. AccessInit => AnswerInv
  BY InitialInv
<1>2. AnswerInv /\ [AccessNext]_accessVars => AnswerInv'
  BY AnswerKept
<1>3. AnswerInv => AnswersAreTrue
  BY DEF AnswerInv
<1>. QED
  BY <1>1, <1>2, <1>3, PTL DEF AccessSpec
=============================================================================
