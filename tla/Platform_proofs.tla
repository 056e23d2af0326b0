--------------------------- MODULE Platform_proofs ---------------------------
(***************************************************************************)
(* The rate limiter, the target directory, and the platform's five         *)
(* mechanisms side by side.                                                *)
(*                                                                         *)
(* The limiter's window bound is not inductive: a trim forgets moments, so *)
(* the invariant keeps the deque as the end of everything admitted and     *)
(* says that the request Limit places after another came a whole Window    *)
(* later (Spread).  The target directory's says which deliveries are under *)
(* way and what may be half copied while no two of them met.               *)
(***************************************************************************)
EXTENDS MCPlatform, RiskRecords_proofs, ReportFiles_proofs, ProgressStream_proofs,
        FiniteSetTheorems, SequenceTheorems

-----------------------------------------------------------------------------
(* RateLimiter *)

\* The popleft loop stops at the first entry that is not stale.
LEMMA TrimmedStops ==
  ASSUME NEW s \in Seq(Nat), clock \in Nat
  PROVE  \E k \in 0..Len(s) :
           /\ Trimmed(s) = SubSeq(s, k + 1, Len(s))
           /\ \A i \in 1..k : s[i] <= clock - Window
           /\ k < Len(s) => s[k + 1] > clock - Window
<1> DEFINE Stop(k) == k < Len(s) => s[k + 1] > clock - Window
           Gone(k) == (\A i \in 1..k : s[i] <= clock - Window) /\ Stop(k)
<1>0. Len(s) \in Nat /\ \A i \in 1..Len(s) : s[i] \in Nat
  BY LenProperties, ElementOfSeq
<1>00. Window \in Nat
  BY LimiterConstants
<1>1. \E k \in 0..Len(s) : Gone(k)
  <2> DEFINE S == {k \in 0..Len(s) : Stop(k)}
  <2>1. Len(s) \in S
    BY <1>0
  <2>2. PICK k \in S : \A n \in S : k <= n
    <3>1. S \in SUBSET Nat /\ S # {}
      BY <1>0, <2>1
    <3>2. QED
      BY <3>1, LeastNat
  <2>3. ASSUME NEW i \in 1..k PROVE s[i] <= clock - Window
    <3>1. i - 1 \in 0..Len(s) /\ i - 1 < k /\ (i - 1) + 1 = i /\ i - 1 < Len(s)
      BY <1>0, <2>2
    <3>2. i - 1 \notin S
      BY <3>1, <2>2
    <3>3. QED
      BY <1>0, <1>00, <3>1, <3>2
  <2>4. QED
    BY <2>2, <2>3
<1>2. Trimmed(s) = SubSeq(s, (CHOOSE k \in 0..Len(s) : Gone(k)) + 1, Len(s))
  BY DEF Trimmed, PopThrough
<1>3. PICK k \in 0..Len(s) : k = (CHOOSE j \in 0..Len(s) : Gone(j)) /\ Gone(k)
  BY <1>1
<1>4. QED
  BY <1>2, <1>3

-----------------------------------------------------------------------------
\* How many of a host's admitted requests the deque has forgotten.
Dropped(h) == Len(admitted[h]) - Len(requests[h])

\* The deque is the end of what was admitted, and what it forgot is too old.
DequeIsTheEnd(h) ==
  /\ Len(requests[h]) <= Len(admitted[h]) /\ Len(requests[h]) <= Limit
  /\ \A j \in 1..Len(requests[h]) : requests[h][j] = admitted[h][Dropped(h) + j]
  /\ \A i \in 1..Dropped(h) : admitted[h][i] <= clock - Window

\* Admitted requests are in the order of their moments, and the one Limit
\* places on is a whole window later.
Spread(h) ==
  /\ \A i \in 1..Len(admitted[h]) : admitted[h][i] <= clock
  /\ \A i, j \in 1..Len(admitted[h]) : i <= j => admitted[h][i] <= admitted[h][j]
  /\ \A i \in 1..(Len(admitted[h]) - Limit) : admitted[h][i + Limit] >= admitted[h][i] + Window

\* Who was refused at this moment has a deque full of requests in the window.
Full(h) == Len(requests[h]) = Limit /\ \A j \in 1..Limit : requests[h][j] > clock - Window

LimiterInv ==
  /\ clock \in 0..MaxTime
  /\ requests \in [Hosts -> Seq(Nat)] /\ admitted \in [Hosts -> Seq(Nat)] /\ refused \subseteq Hosts
  /\ \A h \in Hosts : DequeIsTheEnd(h) /\ Spread(h) /\ (h \in refused => Full(h))

LEMMA LimiterInvInit == LimiterInit => LimiterInv
<1> SUFFICES ASSUME LimiterInit PROVE LimiterInv
  OBVIOUS
<1>1. << >> \in Seq(Nat) /\ Len(<< >>) = 0
  BY EmptySeq
<1>2. Limit \in Nat /\ MaxTime \in Nat
  BY LimiterConstants
<1>3. ASSUME NEW h \in Hosts PROVE DequeIsTheEnd(h) /\ Spread(h) /\ h \notin refused
  <2>1. requests[h] = << >> /\ admitted[h] = << >>
    BY DEF LimiterInit
  <2>2. Len(requests[h]) = 0 /\ Len(admitted[h]) = 0 /\ Dropped(h) = 0
    BY <2>1, <1>1 DEF Dropped
  <2>3. QED
    BY <2>2, <1>2 DEF LimiterInit, DequeIsTheEnd, Spread
<1>4. QED
  BY <1>1, <1>2, <1>3 DEF LimiterInit, LimiterInv

\* A host's deque after the trim, before anything is appended.
LEMMA TrimmedDeque ==
  ASSUME LimiterInv, NEW h \in Hosts
  PROVE  \E t \in Seq(Nat) :
           /\ Trimmed(requests[h]) = t
           /\ Len(t) <= Len(requests[h])
           /\ \A j \in 1..Len(t) : t[j] = admitted[h][Len(admitted[h]) - Len(t) + j]
           /\ \A i \in 1..(Len(admitted[h]) - Len(t)) : admitted[h][i] <= clock - Window
           /\ \A j \in 1..Len(t) : t[j] > clock - Window
           /\ h \in refused => Len(t) = Limit
<1> DEFINE s == requests[h]
           a == admitted[h]
<1>1. /\ s \in Seq(Nat) /\ a \in Seq(Nat) /\ clock \in Nat /\ Limit \in Nat /\ Window \in Nat
      /\ DequeIsTheEnd(h) /\ Spread(h) /\ (h \in refused => Full(h))
  BY LimiterConstants DEF LimiterInv
<1>2. /\ Len(s) \in Nat /\ Len(a) \in Nat /\ Len(s) <= Len(a)
      /\ \A i \in 1..Len(a) : a[i] \in Nat
      /\ \A i \in 1..Len(s) : s[i] \in Nat
  BY <1>1, LenProperties, ElementOfSeq DEF DequeIsTheEnd
<1>3. PICK k \in 0..Len(s) :
        /\ Trimmed(s) = SubSeq(s, k + 1, Len(s))
        /\ \A i \in 1..k : s[i] <= clock - Window
        /\ k < Len(s) => s[k + 1] > clock - Window
  BY <1>1, TrimmedStops
<1>4. PICK t \in Seq(Nat) : Trimmed(s) = t /\ Len(t) = Len(s) - k /\ \A j \in 1..Len(t) : t[j] = s[k + j]
  <2>1. k + 1 \in 1..(Len(s) + 1) /\ Len(s) \in k..Len(s)
    BY <1>2, <1>3
  <2>2. SubSeq(s, k + 1, Len(s)) \in Seq(Nat) /\ Len(SubSeq(s, k + 1, Len(s))) = Len(s) - k
        /\ \A j \in 1..(Len(s) - k) : SubSeq(s, k + 1, Len(s))[j] = s[k + j]
    BY <1>1, <1>2, <1>3, <2>1, SubSeqProperties
  <2>3. QED
    BY <2>2, <1>3
<1>sizes. /\ Len(s) \in Nat /\ Len(a) \in Nat /\ Len(s) <= Len(a)
         /\ k \in 0..Len(s) /\ Len(t) \in Nat /\ Len(t) = Len(s) - k
  <2>1. k \in 0..Len(s) /\ Len(t) = Len(s) - k
    BY <1>3, <1>4
  <2>2. Len(s) \in Nat /\ Len(a) \in Nat /\ Len(s) <= Len(a)
    BY <1>2
  <2>3. QED
    BY <2>1, <2>2
<1>5. ASSUME NEW j \in 1..Len(s) PROVE s[j] = a[(Len(a) - Len(s)) + j]
  BY <1>1 DEF DequeIsTheEnd, Dropped
<1> HIDE DEF s, a
<1>6. ASSUME NEW j \in 1..Len(t) PROVE t[j] = a[Len(a) - Len(t) + j]
  <2>1. k + j \in 1..Len(s) /\ (Len(a) - Len(s)) + (k + j) = Len(a) - Len(t) + j
    BY <1>sizes
  <2>2. QED
    BY <2>1, <1>4, <1>5
<1>7. ASSUME NEW i \in 1..(Len(a) - Len(t)) PROVE a[i] <= clock - Window
  <2>1. CASE i <= Len(a) - Len(s)
    <3>1. i \in 1..(Len(a) - Len(s))
      BY <2>1, <1>sizes
    <3>2. QED
      BY <3>1, <1>1 DEF DequeIsTheEnd, Dropped, s, a
  <2>2. CASE i > Len(a) - Len(s)
    <3> DEFINE j == i - (Len(a) - Len(s))
    <3>1. j \in 1..k /\ j \in 1..Len(s) /\ (Len(a) - Len(s)) + j = i
      BY <2>2, <1>sizes
    <3>2. QED
      BY <3>1, <1>3, <1>5
  <2>3. QED
    BY <2>1, <2>2, <1>sizes
<1>8. ASSUME NEW j \in 1..Len(t) PROVE t[j] > clock - Window
  <2>1. k < Len(s) /\ k + 1 \in 1..Len(s) /\ k + j \in 1..Len(s) /\ k + 1 <= k + j
    BY <1>sizes
  <2>2. s[k + 1] = a[(Len(a) - Len(s)) + (k + 1)] /\ s[k + j] = a[(Len(a) - Len(s)) + (k + j)]
    BY <2>1, <1>5
  <2>3. s[k + 1] <= s[k + j]
    <3>1. /\ (Len(a) - Len(s)) + (k + 1) \in 1..Len(a) /\ (Len(a) - Len(s)) + (k + j) \in 1..Len(a)
          /\ (Len(a) - Len(s)) + (k + 1) <= (Len(a) - Len(s)) + (k + j)
      BY <2>1, <1>sizes
    <3>2. QED
      BY <3>1, <2>2, <1>1 DEF Spread, a
  <2>4. s[k + 1] \in Nat /\ s[k + j] \in Nat /\ s[k + 1] > clock - Window
    BY <2>1, <1>2, <1>3
  <2>5. t[j] = s[k + j]
    BY <1>4
  <2>6. QED
    BY <2>3, <2>4, <2>5, <1>1
<1>9. ASSUME h \in refused PROVE Len(t) = Limit
  <2>1. Len(s) = Limit /\ \A j \in 1..Limit : s[j] > clock - Window
    BY <1>1, <1>9 DEF Full, s
  <2>2. k = 0
    <3>1. SUFFICES ASSUME k >= 1 PROVE FALSE
      BY <1>sizes
    <3>2. 1 \in 1..k /\ 1 \in 1..Limit
      <4>1. Len(s) = Limit
        BY <2>1
      <4>2. QED
        BY <4>1, <3>1, <1>sizes
    <3>3. s[1] <= clock - Window /\ s[1] > clock - Window /\ s[1] \in Nat
      BY <3>2, <2>1, <1>2, <1>3
    <3>4. QED
      BY <3>3, <1>1
  <2>3. QED
    BY <2>1, <2>2, <1>sizes
<1>10. QED
  <2>1. Len(t) <= Len(s)
    BY <1>sizes
  <2>2. QED
    BY <2>1, <1>4, <1>6, <1>7, <1>8, <1>9 DEF s, a

LEMMA LimiterInvStep == LimiterInv /\ [LimiterNext]_limiterVars => LimiterInv'
<1> SUFFICES ASSUME LimiterInv, [LimiterNext]_limiterVars PROVE LimiterInv'
  OBVIOUS
<1>0. /\ clock \in 0..MaxTime /\ clock \in Nat /\ MaxTime \in Nat
      /\ Limit \in Nat /\ Limit >= 1 /\ Window \in Nat /\ Window >= 1
      /\ requests \in [Hosts -> Seq(Nat)] /\ admitted \in [Hosts -> Seq(Nat)] /\ refused \subseteq Hosts
  BY LimiterConstants DEF LimiterInv
<1>00. ASSUME NEW g \in Hosts PROVE DequeIsTheEnd(g) /\ Spread(g) /\ (g \in refused => Full(g))
  BY DEF LimiterInv
<1>000. ASSUME NEW g \in Hosts
        PROVE  /\ Len(requests[g]) \in Nat /\ Len(admitted[g]) \in Nat
               /\ \A i \in 1..Len(admitted[g]) : admitted[g][i] \in Nat
  BY <1>0, LenProperties, ElementOfSeq
<1>1. CASE Passes
  <2>1. clock' = clock + 1 /\ clock' \in 0..MaxTime /\ refused' = {}
        /\ requests' = requests /\ admitted' = admitted
    BY <1>0, <1>1 DEF Passes
  <2>2. ASSUME NEW g \in Hosts PROVE DequeIsTheEnd(g)' /\ Spread(g)'
    <3>1. DequeIsTheEnd(g)'
      <4>1. \A i \in 1..Dropped(g) : admitted[g][i] <= clock' - Window
        BY <1>0, <1>00, <1>000, <2>1 DEF DequeIsTheEnd, Dropped
      <4>2. Dropped(g)' = Dropped(g)
        BY <2>1 DEF Dropped
      <4>3. QED
        BY <4>1, <4>2, <2>1, <1>00 DEF DequeIsTheEnd
    <3>2. Spread(g)'
      <4>1. \A i \in 1..Len(admitted[g]) : admitted[g][i] <= clock'
        BY <1>0, <1>00, <1>000, <2>1 DEF Spread
      <4>2. QED
        BY <4>1, <2>1, <1>00 DEF Spread
    <3>3. QED
      BY <3>1, <3>2
  <2>3. QED
    BY <2>1, <2>2, <1>0 DEF LimiterInv
<1>2. ASSUME NEW h \in Hosts, Admit(h) PROVE LimiterInv'
  <2>1. PICK t \in Seq(Nat) :
           /\ Trimmed(requests[h]) = t
           /\ Len(t) <= Len(requests[h])
           /\ \A j \in 1..Len(t) : t[j] = admitted[h][Len(admitted[h]) - Len(t) + j]
           /\ \A i \in 1..(Len(admitted[h]) - Len(t)) : admitted[h][i] <= clock - Window
           /\ \A j \in 1..Len(t) : t[j] > clock - Window
           /\ h \in refused => Len(t) = Limit
    BY TrimmedDeque
  <2> DEFINE a == admitted[h]
             n == Len(a)
             m == Len(t)
  <2>2. /\ m < Limit /\ clock' = clock /\ refused' = refused
        /\ requests' = [requests EXCEPT ![h] = Append(t, clock)]
        /\ admitted' = [admitted EXCEPT ![h] = Append(a, clock)]
    BY <1>2, <2>1 DEF Admit
  <2>3. /\ requests'[h] = Append(t, clock) /\ admitted'[h] = Append(a, clock)
        /\ requests' \in [Hosts -> Seq(Nat)] /\ admitted' \in [Hosts -> Seq(Nat)]
        /\ \A g \in Hosts \ {h} : requests'[g] = requests[g] /\ admitted'[g] = admitted[g]
    <3>1. Append(t, clock) \in Seq(Nat) /\ Append(a, clock) \in Seq(Nat)
      BY <1>0, <2>1
    <3>2. QED
      BY <3>1, <2>2, <1>0
  <2>4. /\ m \in Nat /\ n \in Nat /\ m <= n
        /\ Len(requests'[h]) = m + 1 /\ Len(admitted'[h]) = n + 1
        /\ requests'[h][m + 1] = clock /\ admitted'[h][n + 1] = clock
        /\ \A j \in 1..m : requests'[h][j] = t[j]
        /\ \A i \in 1..n : admitted'[h][i] = a[i]
    <3>1. a \in Seq(Nat) /\ m \in Nat /\ n \in Nat
      BY <1>0, <2>1, LenProperties
    <3>2. m <= n
      BY <3>1, <2>1, <1>00, <1>000 DEF DequeIsTheEnd
    <3>3. QED
      BY <3>1, <3>2, <2>1, <2>3, <1>0, AppendProperties
  <2>sizes. /\ m \in Nat /\ n \in Nat /\ m <= n /\ m < Limit /\ clock \in Nat
            /\ Limit \in Nat /\ Limit >= 1 /\ Window \in Nat /\ Window >= 1
    BY <2>2, <2>4, <1>0
  <2>5. h \notin refused
    BY <2>1, <2>sizes
  <2>6. DequeIsTheEnd(h)'
    <3>1. Dropped(h)' = n - m
      BY <2>4 DEF Dropped
    <3>2. ASSUME NEW j \in 1..(m + 1) PROVE requests'[h][j] = admitted'[h][(n - m) + j]
      <4>1. CASE j = m + 1
        <5> HIDE DEF n, m
        <5>1. (n - m) + j = n + 1
          BY <4>1, <2>sizes
        <5>2. QED
          BY <5>1, <4>1, <2>4 DEF n, m
      <4>2. CASE j \in 1..m
        <5>1. (n - m) + j \in 1..n
          BY <4>2, <2>sizes
        <5>2. QED
          BY <5>1, <4>2, <2>1, <2>4
      <4>3. QED
        BY <4>1, <4>2, <2>sizes
    <3>3. ASSUME NEW i \in 1..(n - m) PROVE admitted'[h][i] <= clock' - Window
      BY <2>1, <2>2, <2>4
    <3>4. QED
      <4>1. /\ Len(requests'[h]) <= Len(admitted'[h]) /\ Len(requests'[h]) <= Limit
            /\ Len(requests'[h]) = m + 1
        BY <2>4, <2>sizes
      <4>2. QED
        BY <3>1, <3>2, <3>3, <4>1 DEF DequeIsTheEnd
  <2>7. Spread(h)'
    <3>1. ASSUME NEW i \in 1..(n + 1) PROVE admitted'[h][i] <= clock /\ admitted'[h][i] \in Nat
      <4>1. CASE i = n + 1
        BY <4>1, <2>4, <1>0
      <4>2. CASE i \in 1..n
        BY <4>2, <2>4, <1>00, <1>000 DEF Spread
      <4>3. QED
        BY <4>1, <4>2, <2>sizes
    <3>2. ASSUME NEW i \in 1..(n + 1), NEW j \in 1..(n + 1), i <= j
          PROVE  admitted'[h][i] <= admitted'[h][j]
      <4>1. CASE j = n + 1
        BY <4>1, <3>1, <2>4
      <4>2. CASE j \in 1..n
        <5>1. i \in 1..n
          BY <4>2, <3>2
        <5>2. QED
          BY <5>1, <4>2, <3>2, <2>4, <1>00 DEF Spread
      <4>3. QED
        BY <4>1, <4>2, <2>sizes
    <3>3. ASSUME NEW i \in 1..(n + 1 - Limit) PROVE admitted'[h][i + Limit] >= admitted'[h][i] + Window
      <4>1. CASE i = n + 1 - Limit
        <5>1. i \in 1..(n - m) /\ i + Limit = n + 1 /\ i \in 1..n
          BY <4>1, <2>sizes
        <5>2. a[i] <= clock - Window /\ a[i] \in Nat
          BY <5>1, <2>1, <1>000
        <5>3. admitted'[h][i + Limit] = clock /\ admitted'[h][i] = a[i]
          BY <5>1, <2>4
        <5>4. QED
          BY <5>2, <5>3, <2>sizes
      <4>2. CASE i \in 1..(n - Limit)
        <5>1. i \in 1..n /\ i + Limit \in 1..n
          BY <4>2, <2>sizes
        <5>2. a[i + Limit] >= a[i] + Window
          BY <4>2, <1>00 DEF Spread
        <5>3. QED
          BY <5>1, <5>2, <2>4
      <4>3. QED
        BY <4>1, <4>2, <2>sizes
    <3>4. QED
      <4> HIDE DEF n
      <4>1. Len(admitted'[h]) = n + 1 /\ clock' = clock
        BY <2>2, <2>4
      <4>2. \A i \in 1..(n + 1) : admitted'[h][i] <= clock
        BY <3>1
      <4>3. ASSUME NEW i \in 1..(Len(admitted'[h]) - Limit)
            PROVE  admitted'[h][i + Limit] >= admitted'[h][i] + Window
        <5>1. i \in 1..(n + 1 - Limit)
          BY <4>1, <2>sizes
        <5>2. QED
          BY <5>1, <3>3
      <4>4. \A i, j \in 1..(n + 1) : i <= j => admitted'[h][i] <= admitted'[h][j]
        BY <3>2
      <4>5. QED
        BY <4>1, <4>2, <4>3, <4>4 DEF Spread
  <2>8. ASSUME NEW g \in Hosts \ {h} PROVE DequeIsTheEnd(g)' /\ Spread(g)' /\ (g \in refused => Full(g)')
    BY <1>00, <2>2, <2>3 DEF DequeIsTheEnd, Dropped, Spread, Full
  <2>9. QED
    BY <2>2, <2>3, <2>5, <2>6, <2>7, <2>8, <1>0 DEF LimiterInv
<1>3. ASSUME NEW h \in Hosts, Refuse(h) PROVE LimiterInv'
  <2>1. PICK t \in Seq(Nat) :
           /\ Trimmed(requests[h]) = t
           /\ Len(t) <= Len(requests[h])
           /\ \A j \in 1..Len(t) : t[j] = admitted[h][Len(admitted[h]) - Len(t) + j]
           /\ \A i \in 1..(Len(admitted[h]) - Len(t)) : admitted[h][i] <= clock - Window
           /\ \A j \in 1..Len(t) : t[j] > clock - Window
           /\ h \in refused => Len(t) = Limit
    BY TrimmedDeque
  <2>2. /\ Len(t) >= Limit /\ clock' = clock /\ refused' = refused \cup {h}
        /\ requests' = [requests EXCEPT ![h] = t] /\ admitted' = admitted
    BY <1>3, <2>1 DEF Refuse
  <2>3. /\ requests'[h] = t /\ requests' \in [Hosts -> Seq(Nat)]
        /\ \A g \in Hosts \ {h} : requests'[g] = requests[g]
    BY <2>1, <2>2, <1>0
  <2>4. Len(t) = Limit /\ Len(t) <= Len(admitted[h])
    <3>1. Len(requests[h]) <= Limit /\ Len(requests[h]) <= Len(admitted[h])
      BY <1>00 DEF DequeIsTheEnd
    <3>2. Len(t) \in Nat
      BY <2>1, LenProperties
    <3>3. QED
      BY <3>1, <3>2, <2>1, <2>2, <1>0, <1>000
  <2>5. DequeIsTheEnd(h)' /\ Spread(h)' /\ Full(h)'
    <3>1. Dropped(h)' = Len(admitted[h]) - Len(t)
      BY <2>2, <2>3 DEF Dropped
    <3>2. DequeIsTheEnd(h)'
      BY <3>1, <2>1, <2>2, <2>3, <2>4, <1>0 DEF DequeIsTheEnd
    <3>3. Spread(h)'
      BY <2>2, <1>00 DEF Spread
    <3>4. Full(h)'
      BY <2>1, <2>2, <2>3, <2>4 DEF Full
    <3>5. QED
      BY <3>2, <3>3, <3>4
  <2>6. ASSUME NEW g \in Hosts \ {h} PROVE DequeIsTheEnd(g)' /\ Spread(g)' /\ (g \in refused => Full(g)')
    BY <1>00, <2>2, <2>3 DEF DequeIsTheEnd, Dropped, Spread, Full
  <2>7. QED
    BY <2>2, <2>3, <2>5, <2>6, <1>0 DEF LimiterInv
<1>4. CASE UNCHANGED limiterVars
  BY <1>4 DEF LimiterInv, limiterVars, DequeIsTheEnd, Dropped, Spread, Full
<1>5. QED
  BY <1>1, <1>2, <1>3, <1>4 DEF LimiterNext

-----------------------------------------------------------------------------
\* No window holds more than Limit of a spread sequence: from its first one
\* on, the one Limit places later lies behind the window.
LEMMA WindowHolds ==
  ASSUME LimiterInv, NEW h \in Hosts, NEW last \in Nat
  PROVE  /\ IsFiniteSet({i \in DOMAIN admitted[h] : admitted[h][i] \in (last - Window + 1)..last})
         /\ AdmittedIn(h, last) <= Limit
<1> DEFINE a == admitted[h]
           S == {i \in DOMAIN a : a[i] \in (last - Window + 1)..last}
<1>1. /\ Limit \in Nat /\ Limit >= 1 /\ Window \in Nat /\ a \in Seq(Nat) /\ Len(a) \in Nat /\ DOMAIN a = 1..Len(a)
      /\ \A i \in 1..Len(a) : a[i] \in Nat
  BY LimiterConstants, LenProperties, ElementOfSeq DEF LimiterInv
<1>2. /\ \A i, j \in 1..Len(a) : i <= j => a[i] <= a[j]
      /\ \A i \in 1..(Len(a) - Limit) : a[i + Limit] >= a[i] + Window
  BY DEF LimiterInv, Spread
<1>sizes. Limit \in Nat /\ Limit >= 1 /\ Window \in Nat /\ Len(a) \in Nat
  BY <1>1
<1>3. CASE S = {}
  <2>1. AdmittedIn(h, last) = Cardinality(S)
    BY DEF AdmittedIn
  <2> HIDE DEF S
  <2>2. IsFiniteSet(S) /\ Cardinality(S) = 0
    BY <1>3, FS_EmptySet
  <2>3. QED
    BY <2>1, <2>2, <1>sizes DEF S
<1>4. CASE S # {}
  <2>1. PICK m \in S : \A i \in S : m <= i
    <3>1. S \in SUBSET Nat
      BY <1>1
    <3>2. QED
      BY <3>1, <1>4, LeastNat
  <2>2. m \in 1..Len(a) /\ a[m] >= last - Window + 1
    BY <2>1, <1>1
  <2>3. ASSUME NEW i \in S, i >= m + Limit PROVE FALSE
    <3>1. i \in 1..Len(a) /\ a[i] <= last
      BY <1>1
    <3>2. m \in 1..(Len(a) - Limit) /\ m + Limit \in 1..Len(a)
      <4>1. m \in 1..Len(a) /\ i \in 1..Len(a) /\ i >= m + Limit
        BY <3>1, <2>2, <2>3
      <4>2. QED
        BY <4>1, <1>sizes
    <3>3. a[m + Limit] >= a[m] + Window /\ a[m + Limit] <= a[i]
      BY <3>1, <3>2, <1>2, <2>3
    <3>4. a[m + Limit] \in Nat /\ a[m] \in Nat /\ a[i] \in Nat /\ a[m] >= last - Window + 1
      BY <3>1, <3>2, <2>2, <1>1
    <3>5. a[i] <= last
      BY <3>1
    <3>6. QED
      BY <3>3, <3>4, <3>5, <1>sizes
  <2>4. S \in SUBSET (m..(m + Limit - 1))
    <3>1. ASSUME NEW i \in S PROVE i \in m..(m + Limit - 1)
      <4>1. m <= i /\ ~(i >= m + Limit)
        BY <2>1, <2>3
      <4>2. i \in 1..Len(a) /\ m \in 1..Len(a)
        BY <2>2, <1>1
      <4>3. QED
        BY <4>1, <4>2, <1>sizes
    <3>2. QED
      BY <3>1
  <2>5. IsFiniteSet(m..(m + Limit - 1)) /\ Cardinality(m..(m + Limit - 1)) = Limit
    <3>1. m \in Int /\ m + Limit - 1 \in Int /\ ~(m > m + Limit - 1) /\ (m + Limit - 1) - m + 1 = Limit
      <4>1. m \in 1..Len(a)
        BY <2>2
      <4>2. QED
        BY <4>1, <1>sizes
    <3>2. QED
      BY <3>1, FS_Interval
  <2>6. IsFiniteSet(S) /\ Cardinality(S) <= Limit
    <3> HIDE DEF S
    <3>1. IsFiniteSet(S) /\ Cardinality(S) <= Cardinality(m..(m + Limit - 1))
      BY <2>4, <2>5, FS_Subset
    <3>2. QED
      BY <3>1, <2>5
  <2>7. QED
    BY <2>6 DEF AdmittedIn
<1>5. QED
  BY <1>3, <1>4

LEMMA RefusedIsFull ==
  ASSUME LimiterInv, NEW h \in refused
  PROVE  AdmittedIn(h, clock) = Limit
<1> DEFINE a == admitted[h]
           S == {i \in DOMAIN a : a[i] \in (clock - Window + 1)..clock}
           d == Dropped(h)
<1>1. /\ h \in Hosts /\ clock \in Nat /\ Limit \in Nat /\ Limit >= 1 /\ Window \in Nat /\ a \in Seq(Nat)
      /\ Len(a) \in Nat /\ DOMAIN a = 1..Len(a) /\ \A i \in 1..Len(a) : a[i] \in Nat
  BY LimiterConstants, LenProperties, ElementOfSeq DEF LimiterInv
<1>2. DequeIsTheEnd(h) /\ Spread(h) /\ Full(h)
  BY <1>1 DEF LimiterInv
<1>3. Len(requests[h]) = Limit /\ d = Len(a) - Limit /\ d \in Nat /\ d + Limit = Len(a)
  BY <1>1, <1>2 DEF Full, Dropped, DequeIsTheEnd
<1>sizes. Limit \in Nat /\ Len(a) \in Nat /\ d \in Nat /\ d + Limit = Len(a)
  BY <1>1, <1>3
<1>4. ASSUME NEW i \in (d + 1)..Len(a) PROVE i \in S
  <2>1. i - d \in 1..Limit /\ d + (i - d) = i /\ i \in 1..Len(a)
    BY <1>sizes
  <2>2. a[i] > clock - Window
    BY <2>1, <1>2, <1>3 DEF Full, DequeIsTheEnd
  <2>3. a[i] <= clock
    BY <2>1, <1>2 DEF Spread
  <2>4. QED
    BY <2>1, <2>2, <2>3, <1>1
<1>5. ((d + 1)..Len(a)) \in SUBSET S
  BY <1>4
<1>6. Cardinality((d + 1)..Len(a)) = Limit
  <2>1. d + 1 \in Int /\ Len(a) \in Int /\ ~(d + 1 > Len(a)) /\ Len(a) - (d + 1) + 1 = Limit
    <3>1. Limit >= 1
      BY <1>1
    <3>2. QED
      BY <3>1, <1>sizes
  <2>2. QED
    BY <2>1, FS_Interval
<1>7. IsFiniteSet(S) /\ Cardinality(S) <= Limit /\ AdmittedIn(h, clock) = Cardinality(S)
  BY <1>1, WindowHolds DEF AdmittedIn
<1>8. Limit <= Cardinality(S)
  BY <1>5, <1>6, <1>7, FS_Subset
<1>9. Cardinality(S) \in Nat
  BY <1>7, FS_CardinalityType
<1>10. QED
  BY <1>7, <1>8, <1>9, <1>1

(* The clock keeps to its bound and no deque outgrows the limit.           *)
THEOREM LimiterTyped == LimiterSpec => []LimiterTypeOK
<1>1. LimiterInv => LimiterTypeOK
  BY DEF LimiterInv, LimiterTypeOK, DequeIsTheEnd
<1>2. QED
  BY <1>1, LimiterInvInit, LimiterInvStep, PTL DEF LimiterSpec

(* Any number of hosts, any limit and window: no window of the limiter's   *)
(* length ever holds more than Limit admitted requests of one host, and    *)
(* whoever is refused has exactly Limit in the window that ends now.       *)
THEOREM LimitHolds == LimiterSpec => []LimitHoldsInEveryWindow
<1>1. LimiterInv => LimitHoldsInEveryWindow
  <2> SUFFICES ASSUME LimiterInv PROVE LimitHoldsInEveryWindow
    OBVIOUS
  <2>1. clock \in Nat /\ refused \subseteq Hosts
    BY DEF LimiterInv
  <2>2. ASSUME NEW h \in Hosts, NEW last \in 0..clock PROVE AdmittedIn(h, last) <= Limit
    <3>1. last \in Nat
      BY <2>1
    <3>2. QED
      BY <3>1, WindowHolds
  <2>3. ASSUME NEW h \in Hosts, h \in refused PROVE AdmittedIn(h, clock) = Limit
    BY <2>3, RefusedIsFull
  <2>4. QED
    BY <2>2, <2>3 DEF LimitHoldsInEveryWindow
<1>2. QED
  BY <1>1, LimiterInvInit, LimiterInvStep, PTL DEF LimiterSpec

-----------------------------------------------------------------------------
(* TargetDirectory *)

TargetTyped ==
  /\ source \in [kind : {"git", "local"}, ref : {"wanted", "default"}, exists : BOOLEAN]
  /\ source.kind = "local" => source.ref = "default"
  /\ tree \in [state : {"absent", "half", "whole"}, ref : {"wanted", "default"}, by : Tasks \cup {NoTask}]
  /\ task \in [Tasks -> [pc : {"idle", "started", "copying", "ready", "scanned", "raised"} \cup Attempts,
                         failed : SUBSET Attempts]]
  /\ overlapped \in BOOLEAN /\ torn \in BOOLEAN
  /\ source.kind = "local" => tree.ref = "default"

\* Repositories are cloned and local paths copied; an attempt is the one that
\* the failures so far leave.
OwnSteps(t) ==
  /\ task[t].pc \in Attempts => source.kind = "git"
  /\ task[t].pc = "copying" => source.kind = "local" /\ source.exists
  /\ task[t].pc \in {"branch", "checkout"} => source.ref = "wanted"
  /\ task[t].pc = "default" => source.ref = "default" \/ {"branch", "checkout"} \subseteq task[t].failed

\* While no two deliveries ever met, one at a time is under way, a clone's
\* directory is its own, and only an interrupted or a running copy is half.
Alone == \A t, u \in Tasks : Underway(t) /\ Underway(u) => t = u
Cloning(t) == task[t].pc \in Attempts => tree.by = t
HalfCopied ==
  source.kind = "local" /\ tree.state = "half" =>
    torn \/ CopyRaised \/ \E t \in Tasks : task[t].pc = "copying"
WholeWhenReady(t) ==
  ~torn /\ ~CopyRaised /\ task[t].pc = "ready" =>
    /\ tree.state = "whole"
    /\ tree.ref = source.ref \/ {"branch", "checkout"} \subseteq task[t].failed

TargetInv ==
  /\ TargetTyped
  /\ \A t \in Tasks : OwnSteps(t)
  /\ ~overlapped => Alone /\ HalfCopied /\ \A t \in Tasks : Cloning(t) /\ WholeWhenReady(t)

LEMMA TargetInvInit == TargetInit => TargetInv
<1> SUFFICES ASSUME TargetInit PROVE TargetInv
  OBVIOUS
<1>1. TargetTyped
  BY DEF TargetInit, TargetTyped
<1>2. \A t \in Tasks : task[t].pc = "idle"
  BY DEF TargetInit
<1>3. QED
  BY <1>1, <1>2 DEF TargetInit, TargetInv, OwnSteps, Alone, HalfCopied, Cloning, WholeWhenReady, Underway, Attempts

LEMMA TargetInvStep == TargetInv /\ [TargetNext]_targetVars => TargetInv'
<1> SUFFICES ASSUME TargetInv, [TargetNext]_targetVars PROVE TargetInv'
  OBVIOUS
<1> USE DEF TargetInv, TargetTyped, OwnSteps, Alone, HalfCopied, Cloning, WholeWhenReady, Underway, Attempts, CopyRaised
<1>1. ASSUME NEW t \in Tasks, Start(t) PROVE TargetInv'
  <2>1. TargetTyped' /\ \A u \in Tasks : OwnSteps(u)'
    BY <1>1 DEF Start
  <2>2. ~overlapped' => ~overlapped /\ \A u \in Tasks \ {t} : ~Underway(u)
    BY <1>1 DEF Start
  <2>3. /\ task[t].pc = "idle" /\ task'[t].pc = "started" /\ UNCHANGED <<source, tree, torn>>
        /\ \A u \in Tasks \ {t} : task'[u] = task[u]
    BY <1>1 DEF Start
  <2>4. ~overlapped' => Alone'
    BY <2>2, <2>3
  <2>5. ~overlapped' => HalfCopied'
    BY <2>2, <2>3
  <2>6. ~overlapped' => \A u \in Tasks : Cloning(u)' /\ WholeWhenReady(u)'
    BY <2>2, <2>3
  <2>7. QED
    BY <2>1, <2>4, <2>5, <2>6
<1>2. ASSUME NEW t \in Tasks, ReuseTree(t) PROVE TargetInv'
  BY <1>2 DEF ReuseTree, Reuses, SetTask
<1>3. ASSUME NEW t \in Tasks, BeginClone(t) PROVE TargetInv'
  BY <1>3 DEF BeginClone, Reuses, SetTask, Half, NextAttempt
<1>4. ASSUME NEW t \in Tasks, FinishClone(t) PROVE TargetInv'
  <2>1. /\ task' = [task EXCEPT ![t].pc = "ready"] /\ task[t].pc \in Attempts /\ source.kind = "git"
        /\ UNCHANGED <<source, overlapped, torn>>
    BY <1>4 DEF FinishClone, SetTask
  <2>2. /\ task[t].pc \in Attempts /\ task'[t].pc = "ready" /\ task'[t].failed = task[t].failed
        /\ UNCHANGED <<source, overlapped, torn>> /\ \A u \in Tasks \ {t} : task'[u] = task[u]
    BY <2>1
  <2>tree. tree' \in [state : {"absent", "half", "whole"}, ref : {"wanted", "default"}, by : Tasks \cup {NoTask}]
    <3>1. \E ref \in {"wanted", "default"} : tree' \in {tree, [tree EXCEPT !.state = "whole", !.ref = ref]}
      BY <1>4 DEF FinishClone
    <3>2. QED
      BY <3>1
  <2>typed. TargetTyped' /\ \A u \in Tasks : OwnSteps(u)'
    BY <2>1, <2>2, <2>tree
  <2>3. ~overlapped' => Alone' /\ HalfCopied'
    BY <2>2
  <2>4. ~overlapped' => tree.by = t /\ \A u \in Tasks \ {t} : ~Underway(u)
    BY <2>2
  <2>5. tree.by = t => tree'.state = "whole"
                       /\ tree'.ref = IF task[t].pc = "default" THEN "default" ELSE source.ref
    BY <1>4 DEF FinishClone
  <2>6. tree'.ref = source.ref \/ {"branch", "checkout"} \subseteq task[t].failed \/ overlapped'
    BY <2>2, <2>4, <2>5
  <2>7. ~overlapped' => \A u \in Tasks : Cloning(u)' /\ WholeWhenReady(u)'
    BY <2>2, <2>4, <2>5, <2>6
  <2>8. QED
    BY <2>typed, <2>3, <2>7
<1>5. ASSUME NEW t \in Tasks, CloneFails(t) PROVE TargetInv'
  BY <1>5 DEF CloneFails
<1>6. ASSUME NEW t \in Tasks, BeginCopy(t) PROVE TargetInv'
  BY <1>6 DEF BeginCopy, Reuses, SetTask, Half
<1>7. ASSUME NEW t \in Tasks, FinishCopy(t) PROVE TargetInv'
  BY <1>7 DEF FinishCopy, SetTask
<1>8. ASSUME NEW t \in Tasks, CannotCopy(t) PROVE TargetInv'
  BY <1>8 DEF CannotCopy, Reuses, SetTask
<1>9. ASSUME NEW t \in Tasks, ScannerReads(t) PROVE TargetInv'
  BY <1>9 DEF ScannerReads, SetTask
<1>10. ASSUME NEW t \in Tasks, TaskCrashes(t) PROVE TargetInv'
  BY <1>10 DEF TaskCrashes, SetTask
<1>11. CASE UNCHANGED targetVars
  BY <1>11 DEF targetVars
<1>12. QED
  BY <1>1, <1>2, <1>3, <1>4, <1>5, <1>6, <1>7, <1>8, <1>9, <1>10, <1>11 DEF TargetNext

(* The directory, the tasks and the two flags keep their types. *)
THEOREM TargetKeepsItsTypes == TargetSpec => []TargetTypeOK
<1>1. TargetInv => TargetTypeOK
  BY DEF TargetInv, TargetTyped, TargetTypeOK
<1>2. QED
  BY <1>1, TargetInvInit, TargetInvStep, PTL DEF TargetSpec

(* Any number of deliveries and crashes: while no two deliveries met and   *)
(* no copy was cut short, the scanner is pointed at a complete tree, at    *)
(* the wanted reference unless both ways of getting it failed.             *)
THEOREM TreesAreWhole == TargetSpec => []PreparedTreesAreWhole
<1>1. TargetInv => PreparedTreesAreWhole
  BY DEF TargetInv, WholeWhenReady, PreparedTreesAreWhole
<1>2. QED
  BY <1>1, TargetInvInit, TargetInvStep, PTL DEF TargetSpec

-----------------------------------------------------------------------------
(* The platform *)

LEMMA SubjectMoves ==
  ASSUME Next
  PROVE  /\ [RecordsNext]_recordVars /\ [ReportsNext]_reportVars /\ [StreamNext]_streamVars
         /\ [LimiterNext]_limiterVars /\ [TargetNext]_targetVars
BY DEF Next

LEMMA OthersStand ==
  ASSUME UNCHANGED platformVars
  PROVE  /\ UNCHANGED recordVars /\ UNCHANGED reportVars /\ UNCHANGED streamVars
         /\ UNCHANGED limiterVars /\ UNCHANGED targetVars
BY DEF platformVars

(* A behaviour of the platform is one of each of its mechanisms. *)
LEMMA PlatformRuns == Spec => RecordsSpec /\ ReportsSpec /\ StreamSpec /\ LimiterSpec /\ TargetSpec
<1>1. Init => RecordsInit /\ ReportsInit /\ StreamInit /\ LimiterInit /\ TargetInit
  BY DEF Init
<1>2. [Next]_platformVars => /\ [RecordsNext]_recordVars /\ [ReportsNext]_reportVars /\ [StreamNext]_streamVars
                             /\ [LimiterNext]_limiterVars /\ [TargetNext]_targetVars
  BY SubjectMoves, OthersStand
<1>3. Spec => RecordsSpec /\ ReportsSpec /\ LimiterSpec /\ TargetSpec
  BY <1>1, <1>2, PTL DEF Spec, RecordsSpec, ReportsSpec, LimiterSpec, TargetSpec
<1>4. Spec => StreamSpec
  BY <1>1, <1>2, PTL DEF Spec, StreamSpec
<1>5. QED
  BY <1>3, <1>4, PTL

(* The five mechanisms side by side keep their types. *)
THEOREM PlatformKeepsItsTypes == Spec => []PlatformTyped
<1>1. RecordsTypeOK /\ ReportsTypeOK /\ StreamTypeOK /\ LimiterTypeOK /\ TargetTypeOK => PlatformTyped
  BY DEF PlatformTyped
<1>2. QED
  BY <1>1, PlatformRuns, RecordsKeepTheirTypes, ReportTypes, StreamTypes, LimiterTyped, TargetKeepsItsTypes, PTL

(* What each mechanism promises alone it promises next to the others:      *)
(* settled verdicts and one preset, whole reports, streams without a gap,  *)
(* the request limit, and complete target trees.                           *)
THEOREM PlatformPromises ==
  Spec => [](/\ QuietRecordsAgree /\ OnePresetInForce /\ AnswersAreDownloadable
             /\ NoEventSkipped /\ LimitHoldsInEveryWindow /\ PreparedTreesAreWhole)
BY PlatformRuns, QuietRecords, PresetInForce, AnsweredReportsDownload, StreamsSkipNothing, LimitHolds,
   TreesAreWhole, PTL
=============================================================================
