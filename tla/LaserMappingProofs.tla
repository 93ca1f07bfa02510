-------------------------- MODULE LaserMappingProofs --------------------------
(***************************************************************************)
(* Proofs about LaserMapping for every scan length, depth of the queues    *)
(* and start-up.  The odometry is of its scan and of its time because the  *)
(* samples that UndistortPcl propagates over telescope: they add up to the *)
(* time from the last scan's end to this one's, provided that every sample *)
(* left in the buffer is past the last end and none before it is taken     *)
(* twice; the stamps increase because scans follow each other by at least  *)
(* their length and a scan that is published had a known length.           *)
(***************************************************************************)
EXTENDS LaserMapping, SequenceTheorems, WellFoundedInduction, TLAPS

\* Two multiples of a period are a period apart.
LEMMA MultiplesApart ==
    ASSUME NEW x \in Nat, NEW y \in Nat, NEW b \in Nat \ {0},
           x % b = 0, y % b = 0, x < y
    PROVE  x + b <= y
<1>1. PICK q1 \in Int : x = b * q1
  <2>1. x \div b \in Int /\ x = b * (x \div b) + (x % b)
    OBVIOUS
  <2>2. x = b * (x \div b)
    BY <2>1
  <2> QED
    BY <2>1, <2>2
<1>2. PICK q2 \in Int : y = b * q2
  <2>1. y \div b \in Int /\ y = b * (y \div b) + (y % b)
    OBVIOUS
  <2>2. y = b * (y \div b)
    BY <2>1
  <2> QED
    BY <2>1, <2>2
<1>3. PICK d \in Int : d = q2 - q1
  OBVIOUS
<1>4. b * d = b * q2 - b * q1
  BY <1>3
<1>5. b * d = y - x
  BY <1>1, <1>2, <1>4
<1>6. (d >= 1 => b * d >= b) /\ (d <= 0 => b * d <= 0)
  OBVIOUS
<1> QED
  BY <1>5, <1>6

\* A set of indices has a least one.
LEMMA LeastExists ==
    ASSUME NEW S, S \subseteq Nat, S # {}
    PROVE  \E l \in S : \A k \in S : l <= k
<1>1. PICK l \in S : \A k \in S : ~ (<<k, l>> \in OpToRel(<, Nat))
  BY WFMin, NatLessThanWellFounded
<1>2. \A k \in S : ~(k < l)
  BY <1>1 DEF OpToRel
<1> QED
  BY <1>2

-----------------------------------------------------------------------------
\* Propagation.
Sorted(s) == \A i, j \in 1..Len(s) : i <= j => s[i] <= s[j]

\* A time, not before the end of the scan before.
Clamped(t) == IF t < last_lidar_end_time THEN last_lidar_end_time ELSE t

LEMMA StepTelescopes ==
    ASSUME NEW h \in Nat, NEW t \in Nat, last_lidar_end_time \in Nat
    PROVE  /\ Clamped(h) \in Nat /\ step(h, t) \in Int
           /\ h <= t => step(h, t) = Clamped(t) - Clamped(h)
BY DEF Clamped, step

\* A first term and then the differences of c; and their sums.
Differences(n, d, c) ==
    /\ d[1] \in Int
    /\ \A i \in 1..n : c[i] \in Nat
    /\ \A i \in 1..n : i # 1 => d[i] = c[i] - c[i - 1]

Sums(n, d, total) == total = [i \in 0..n |-> IF i = 0 THEN 0 ELSE total[i - 1] + d[i]]

\* A sum of differences telescopes.
LEMMA Telescopes ==
    ASSUME NEW n \in Nat \ {0}, NEW total, NEW d, NEW c,
           Differences(n, d, c), Sums(n, d, total)
    PROVE  total[n] = d[1] + c[n] - c[1]
<1>0. /\ total[0] = 0 /\ \A i \in 1..n : total[i] = total[i - 1] + d[i]
      /\ d[1] \in Int /\ \A i \in 1..n : c[i] \in Nat
      /\ \A i \in 1..n : i # 1 => d[i] = c[i] - c[i - 1]
  BY DEF Sums, Differences
<1> DEFINE S == {i \in 1..n : total[i] # d[1] + c[i] - c[1]}
<1> SUFFICES ASSUME S # {} PROVE FALSE
  OBVIOUS
<1>1. PICK i \in S : \A k \in S : i <= k
  <2>1. S \subseteq Nat
    OBVIOUS
  <2> QED
    BY <2>1, LeastExists
<1>2. i \in 1..n /\ total[i] # d[1] + c[i] - c[1] /\ total[i] = total[i - 1] + d[i]
  BY <1>0, <1>1
<1>3. CASE i = 1
  BY <1>0, <1>2, <1>3
<1>4. CASE i # 1
  <2>1. i - 1 \in 1..n /\ i - 1 \notin S
    BY <1>1, <1>2, <1>4
  <2>2. total[i - 1] = d[1] + c[i - 1] - c[1]
    BY <2>1
  <2>3. d[i] = c[i] - c[i - 1]
    BY <1>0, <1>2, <1>4
  <2>4. c[i] \in Nat /\ c[i - 1] \in Nat /\ c[1] \in Nat
    BY <1>0, <1>2, <2>1
  <2> QED
    BY <1>0, <1>2, <2>2, <2>3, <2>4
<1> QED
  BY <1>3, <1>4

\* The function that the loop of UndistortPcl computes exists.
LEMMA LoopIsDefined ==
    ASSUME NEW n \in Nat \ {0}, NEW d, NEW c, Differences(n, d, c)
    PROVE  \E w : Sums(n, d, w)
<1>0. /\ d[1] \in Int /\ \A i \in 1..n : c[i] \in Nat
      /\ \A i \in 1..n : i # 1 => d[i] = c[i] - c[i - 1]
  BY DEF Differences
<1>1. PICK w : w = [i \in 0..n |-> IF i = 0 THEN 0 ELSE d[1] + c[i] - c[1]]
  OBVIOUS
<1>2. ASSUME NEW i \in 0..n
      PROVE  w[i] = IF i = 0 THEN 0 ELSE w[i - 1] + d[i]
  <2>1. CASE i = 0
    BY <1>1, <2>1
  <2>2. CASE i = 1
    <3>1. w[1] = d[1] + c[1] - c[1] /\ w[0] = 0 /\ c[1] \in Nat
      BY <1>0, <1>1
    <3> QED
      BY <1>0, <2>2, <3>1
  <2>3. CASE i # 0 /\ i # 1
    <3>1. i \in 1..n /\ i - 1 \in 1..n
      BY <2>3
    <3>2. w[i] = d[1] + c[i] - c[1] /\ w[i - 1] = d[1] + c[i - 1] - c[1]
      BY <1>1, <3>1
    <3>3. d[i] = c[i] - c[i - 1]
      BY <1>0, <2>3, <3>1
    <3>4. c[i] \in Nat /\ c[i - 1] \in Nat /\ c[1] \in Nat
      BY <1>0, <3>1
    <3> QED
      BY <1>0, <2>3, <3>2, <3>3, <3>4
  <2> QED
    BY <2>1, <2>2, <2>3
<1>3. w = [i \in 0..n |-> w[i]]
  BY <1>1
<1>4. Sums(n, d, w)
  BY <1>2, <1>3, Zenon DEF Sums
<1> QED
  BY <1>4

\* UndistortPcl over samples in order: all steps but the first telescope.
LEMMA PropagatedValue ==
    ASSUME NEW imu \in Seq(Nat), imu # <<>>, Sorted(imu),
           last_imu \in Nat, last_lidar_end_time \in Nat, NEW end \in Nat
    PROVE  /\ Len(imu) \in Nat \ {0} /\ imu[1] \in Nat
           /\ Last(imu) \in Nat /\ Last(imu) = imu[Len(imu)]
           /\ Propagated(imu, end) =
                step(last_imu, imu[1]) + Clamped(Last(imu)) - Clamped(imu[1])
                  + Absolute(end - Last(imu))
<1>1. PICK n : n = Len(imu)
  OBVIOUS
<1>2. n \in Nat \ {0} /\ \A i \in 1..n : imu[i] \in Nat
  BY <1>1, EmptySeq, ElementOfSeq
<1>3. PICK v : v = <<last_imu>> \o imu
  OBVIOUS
<1>4. v[1] = last_imu /\ \A i \in 1..n : v[i + 1] = imu[i]
  <2>1. <<last_imu>> \in Seq(Nat) /\ Len(<<last_imu>>) = 1 /\ <<last_imu>>[1] = last_imu
    OBVIOUS
  <2>2. \A i \in 1..1 + n : v[i] = IF i <= 1 THEN <<last_imu>>[i] ELSE imu[i - 1]
    BY <1>1, <1>3, <2>1, ConcatProperties
  <2>3. v[1] = last_imu
    BY <1>2, <2>1, <2>2
  <2>4. ASSUME NEW i \in 1..n PROVE v[i + 1] = imu[i]
    <3>1. i + 1 \in 1..1 + n /\ ~(i + 1 <= 1) /\ (i + 1) - 1 = i
      BY <1>2
    <3> QED
      BY <2>2, <3>1
  <2> QED
    BY <2>3, <2>4
<1>5. PICK c : c = [i \in 1..n |-> Clamped(imu[i])]
  OBVIOUS
<1>6. \A i \in 1..n : c[i] = Clamped(imu[i]) /\ c[i] \in Nat
  <2> TAKE i \in 1..n
  <2>1. imu[i] \in Nat /\ c[i] = Clamped(imu[i])
    BY <1>2, <1>5
  <2> QED
    BY <2>1, StepTelescopes
<1>7. PICK d : d = [i \in 1..n |-> step(v[i], v[i + 1])]
  OBVIOUS
<1>8. d[1] = step(last_imu, imu[1]) /\ d[1] \in Int
  <2>1. d[1] = step(v[1], v[1 + 1])
    BY <1>2, <1>7
  <2>2. v[1 + 1] = imu[1] /\ imu[1] \in Nat
    BY <1>2, <1>4
  <2>3. step(last_imu, imu[1]) \in Int
    BY <2>2, StepTelescopes
  <2> QED
    BY <1>4, <2>1, <2>2, <2>3
<1>9. ASSUME NEW i \in 1..n, i # 1 PROVE d[i] = c[i] - c[i - 1]
  <2>1. i - 1 \in 1..n /\ (i - 1) + 1 = i
    BY <1>2, <1>9
  <2>2. v[i] = imu[i - 1] /\ v[i + 1] = imu[i]
    BY <1>4, <2>1
  <2>3. imu[i] \in Nat /\ imu[i - 1] \in Nat /\ imu[i - 1] <= imu[i]
    BY <1>1, <1>2, <2>1 DEF Sorted
  <2>4. step(imu[i - 1], imu[i]) = Clamped(imu[i]) - Clamped(imu[i - 1])
    BY <2>3, StepTelescopes
  <2>5. d[i] = step(v[i], v[i + 1])
    BY <1>7
  <2> QED
    BY <1>6, <2>1, <2>2, <2>4, <2>5
<1>10. PICK m : m = CHOOSE t : t = [i \in 0..n |-> IF i = 0 THEN 0 ELSE t[i - 1] + d[i]]
  OBVIOUS
<1>11. m[n] = d[1] + c[n] - c[1]
  <2>1. Differences(n, d, c)
    <3>1. \A i \in 1..n : i # 1 => d[i] = c[i] - c[i - 1]
      BY <1>9
    <3> QED
      BY <1>6, <1>8, <3>1 DEF Differences
  <2>2. \E w : Sums(n, d, w)
    BY <1>2, <2>1, LoopIsDefined, Zenon
  <2>3. m = CHOOSE t : Sums(n, d, t)
    BY <1>10 DEF Sums
  <2>4. Sums(n, d, m)
    BY <2>2, <2>3, Zenon
  <2> QED
    BY <1>2, <2>1, <2>4, Telescopes, SMT
<1>12. Propagated(imu, end) = m[n] + Absolute(end - Last(imu))
  <2>1. ASSUME NEW t
        PROVE  [i \in 0..n |-> IF i = 0 THEN 0 ELSE t[i - 1] + d[i]]
                 = [i \in 0..n |-> IF i = 0 THEN 0 ELSE t[i - 1] + step(v[i], v[i + 1])]
    <3>1. ASSUME NEW i \in 0..n
          PROVE  (IF i = 0 THEN 0 ELSE t[i - 1] + d[i])
                   = (IF i = 0 THEN 0 ELSE t[i - 1] + step(v[i], v[i + 1]))
      <4>1. CASE i = 0
        BY <4>1
      <4>2. CASE i # 0
        <5>1. i \in 1..n
          BY <1>2, <4>2
        <5>2. d[i] = step(v[i], v[i + 1])
          BY <1>7, <5>1
        <5> QED
          BY <5>2
      <4> QED
        BY <4>1, <4>2
    <3> QED
      BY <3>1, Zenon
  <2>2. m = CHOOSE t : t = [i \in 0..n |-> IF i = 0 THEN 0 ELSE t[i - 1] + step(v[i], v[i + 1])]
    BY <1>10, <2>1, Zenon
  <2> QED
    BY <1>1, <1>3, <2>2 DEF Propagated
<1>13. Last(imu) = imu[n] /\ Last(imu) \in Nat
  BY <1>1, <1>2 DEF Last
<1>14. c[n] = Clamped(Last(imu)) /\ c[1] = Clamped(imu[1]) /\ imu[1] \in Nat
  BY <1>2, <1>6, <1>13
<1>15. c[n] \in Nat /\ c[1] \in Nat
  BY <1>2, <1>6
<1>16. Absolute(end - Last(imu)) \in Int
  BY <1>13 DEF Absolute
<1>17. Propagated(imu, end) = d[1] + c[n] - c[1] + Absolute(end - Last(imu))
  BY <1>11, <1>12
<1> QED
  BY <1>1, <1>2, <1>8, <1>13, <1>14, <1>17

LEMMA PropagatedType ==
    ASSUME NEW imu \in Seq(Nat), imu # <<>>, Sorted(imu),
           last_imu \in Nat, last_lidar_end_time \in Nat, NEW end \in Nat
    PROVE  Propagated(imu, end) \in Int
<1>1. /\ imu[1] \in Nat /\ Last(imu) \in Nat
      /\ Propagated(imu, end) = step(last_imu, imu[1]) + Clamped(Last(imu)) - Clamped(imu[1])
                                  + Absolute(end - Last(imu))
  BY PropagatedValue
<1>2. /\ step(last_imu, imu[1]) \in Int /\ Clamped(imu[1]) \in Nat
      /\ Clamped(Last(imu)) \in Nat
  BY <1>1, StepTelescopes
<1>3. Absolute(end - Last(imu)) \in Int
  BY <1>1 DEF Absolute
<1> QED
  BY <1>1, <1>2, <1>3

LEMMA Cancels ==
    ASSUME NEW a \in Nat, NEW b \in Nat, NEW l \in Nat, NEW e \in Nat
    PROVE  a - l + b - a + (e - b) = e - l
OBVIOUS

\* Samples that follow the last one, none before the end of the scan before and none past
\* the end of this one: the filter is propagated from the one end to the other.
LEMMA PropagatedToEnd ==
    ASSUME NEW imu \in Seq(Nat), imu # <<>>, Sorted(imu),
           last_imu \in Nat, last_lidar_end_time \in Nat, NEW end \in Nat,
           last_imu <= last_lidar_end_time,
           last_lidar_end_time <= imu[1], Last(imu) <= end
    PROVE  Propagated(imu, end) = end - last_lidar_end_time
<1>1. /\ imu[1] \in Nat /\ Last(imu) \in Nat /\ Last(imu) = imu[Len(imu)]
      /\ Len(imu) \in Nat \ {0}
      /\ Propagated(imu, end) = step(last_imu, imu[1]) + Clamped(Last(imu)) - Clamped(imu[1])
                                  + Absolute(end - Last(imu))
  BY PropagatedValue
<1>2. imu[1] <= Last(imu)
  BY <1>1 DEF Sorted
<1>3. step(last_imu, imu[1]) = imu[1] - last_lidar_end_time
  BY <1>1 DEF step
<1>4. Clamped(Last(imu)) = Last(imu) /\ Clamped(imu[1]) = imu[1]
  BY <1>1, <1>2 DEF Clamped
<1>5. Absolute(end - Last(imu)) = end - Last(imu)
  BY <1>1 DEF Absolute
<1>6. Propagated(imu, end) = imu[1] - last_lidar_end_time + Last(imu) - imu[1] + (end - Last(imu))
  BY <1>1, <1>3, <1>4, <1>5
<1>7. imu[1] - last_lidar_end_time + Last(imu) - imu[1] + (end - Last(imu)) = end - last_lidar_end_time
  BY <1>1, Cancels
<1> QED
  BY <1>6, <1>7, Zenon

-----------------------------------------------------------------------------
\* Sequences: t is s without its first k elements; t is s and one element more.
Drops(t, s, k) ==
    /\ Len(t) = Len(s) - k
    /\ \A i \in 1..Len(t) : t[i] = s[i + k]

Adds(t, s, e) ==
    /\ Len(t) = Len(s) + 1
    /\ \A i \in 1..Len(s) : t[i] = s[i]
    /\ t[Len(s) + 1] = e

LEMMA TailDrops ==
    ASSUME NEW S, NEW s \in Seq(S), s # <<>>
    PROVE  /\ Len(s) \in Nat \ {0} /\ Head(s) \in S /\ Head(s) = s[1]
           /\ Tail(s) \in Seq(S) /\ Drops(Tail(s), s, 1)
<1>1. Len(s) \in Nat \ {0}
  BY EmptySeq
<1>2. Head(s) = s[1]
  BY <1>1
<1> QED
  BY <1>1, <1>2, HeadTailProperties DEF Drops

LEMMA AppendAdds ==
    ASSUME NEW S, NEW s \in Seq(S), NEW e \in S
    PROVE  /\ Append(s, e) \in Seq(S) /\ Adds(Append(s, e), s, e)
           /\ <<e>> \in Seq(S) /\ Len(<<e>>) = 1 /\ <<e>>[1] = e
<1>1. Len(s) \in Nat
  BY LenProperties
<1>2. <<e>> \in Seq(S) /\ Len(<<e>>) = 1 /\ <<e>>[1] = e
  OBVIOUS
<1>3. Append(s, e) \in Seq(S) /\ Len(Append(s, e)) = Len(s) + 1
  OBVIOUS
<1>4. \A i \in 1..Len(s) : Append(s, e)[i] = s[i]
  BY <1>1
<1>5. Append(s, e)[Len(s) + 1] = e
  BY <1>1
<1> QED
  BY <1>2, <1>3, <1>4, <1>5 DEF Adds

\* A topic that keeps the last messages: some of the old ones, in order, and the new one.
LEMMA KeepLastFacts ==
    ASSUME NEW S, NEW s \in Seq(S), NEW e \in S, NEW depth \in Nat \ {0}, Len(s) <= depth
    PROVE  /\ KeepLast(s, e, depth) \in Seq(S) /\ Len(KeepLast(s, e, depth)) <= depth
           /\ \E u \in Seq(S), k \in 0..1 :
                 k <= Len(s) /\ Drops(u, s, k) /\ Adds(KeepLast(s, e, depth), u, e)
<1>1. Len(s) \in Nat
  BY LenProperties
<1>2. CASE Len(s) < depth
  <2>1. KeepLast(s, e, depth) = Append(s, e)
    BY <1>2 DEF KeepLast
  <2>2. Drops(s, s, 0)
    BY <1>1 DEF Drops
  <2>3. Append(s, e) \in Seq(S) /\ Adds(Append(s, e), s, e)
    BY AppendAdds
  <2>4. Len(Append(s, e)) <= depth
    BY <1>1, <1>2, <2>3 DEF Adds
  <2> QED
    BY <1>1, <2>1, <2>2, <2>3, <2>4
<1>3. CASE ~(Len(s) < depth)
  <2>1. KeepLast(s, e, depth) = Append(Tail(s), e)
    BY <1>3 DEF KeepLast
  <2>2. s # <<>>
    BY <1>1, <1>3
  <2>3. Tail(s) \in Seq(S) /\ Drops(Tail(s), s, 1)
    BY <2>2, TailDrops
  <2>4. Append(Tail(s), e) \in Seq(S) /\ Adds(Append(Tail(s), e), Tail(s), e)
    BY <2>3, AppendAdds
  <2>5. Len(Append(Tail(s), e)) <= depth
    BY <1>1, <2>3, <2>4 DEF Adds, Drops
  <2>6. 1 \in 0..1 /\ 1 <= Len(s)
    BY <1>1, <1>3
  <2> QED
    BY <2>1, <2>3, <2>4, <2>5, <2>6
<1> QED
  BY <1>2, <1>3

LEMMA SplitFacts ==
    ASSUME NEW S, NEW s \in Seq(S), NEW n \in 0..Len(s)
    PROVE  /\ SubSeq(s, 1, n) \in Seq(S) /\ Len(SubSeq(s, 1, n)) = n
           /\ \A i \in 1..n : SubSeq(s, 1, n)[i] = s[i]
           /\ SubSeq(s, n + 1, Len(s)) \in Seq(S) /\ Drops(SubSeq(s, n + 1, Len(s)), s, n)
<1>1. Len(s) \in Nat /\ \A i \in 1..Len(s) : s[i] \in S
  BY LenProperties, ElementOfSeq
<1>2. /\ SubSeq(s, 1, n) \in Seq(S) /\ Len(SubSeq(s, 1, n)) = (IF 1 <= n THEN n - 1 + 1 ELSE 0)
      /\ \A i \in 1..n - 1 + 1 : SubSeq(s, 1, n)[i] = s[1 + i - 1]
  <2>1. \A i \in 1..n : s[i] \in S
    BY <1>1
  <2>2. 1 \in Int /\ n \in Int
    BY <1>1
  <2> QED
    BY <2>1, <2>2, SubSeqProperties
<1>3. /\ SubSeq(s, n + 1, Len(s)) \in Seq(S)
      /\ Len(SubSeq(s, n + 1, Len(s))) = (IF n + 1 <= Len(s) THEN Len(s) - (n + 1) + 1 ELSE 0)
      /\ \A i \in 1..Len(s) - (n + 1) + 1 : SubSeq(s, n + 1, Len(s))[i] = s[n + 1 + i - 1]
  <2>1. \A i \in n + 1..Len(s) : s[i] \in S
    BY <1>1
  <2>2. n + 1 \in Int /\ Len(s) \in Int
    BY <1>1
  <2> QED
    BY <2>1, <2>2, SubSeqProperties
<1>4. Len(SubSeq(s, 1, n)) = n /\ \A i \in 1..n : SubSeq(s, 1, n)[i] = s[i]
  BY <1>1, <1>2
<1>5. Drops(SubSeq(s, n + 1, Len(s)), s, n)
  BY <1>1, <1>3 DEF Drops
<1> QED
  BY <1>2, <1>3, <1>4, <1>5

-----------------------------------------------------------------------------
\* Records.
Ends == 0..MaxTime + ScanLen
Measures == [lidar : Scan, beg : Time, end : Ends]
Odometry == [stamp : Ends, scan : Scan, of : Scan, at : Int, fresh : BOOLEAN]

LEMMA Parameters ==
    /\ ScanLen \in Nat \ {0} /\ LidarDepth \in Nat \ {0} /\ ImuDepth \in Nat \ {0}
    /\ MaxTime \in Nat /\ MaxEpoch \in Nat /\ MaxTimeAgain \in Nat /\ MaxTimeAgain <= MaxTime
    /\ Uninitialised \subseteq Nat
BY LaserMappingAssumption

LEMMA Times ==
    /\ Time \subseteq Nat /\ Ends \subseteq Nat /\ 0 \in Time /\ 0 \in Ends
    /\ \A t \in Time : t <= MaxTime /\ t \in Ends /\ t + ScanLen \in Ends
BY Parameters DEF Time, Ends

LEMMA ScanFacts ==
    /\ \A s \in Scan : s.beg \in Time /\ s.points \in Points
    /\ \A e \in 0..MaxEpoch, b \in Time, p \in Points :
          LET s == [epoch |-> e, beg |-> b, points |-> p]
          IN  s \in Scan /\ s.beg = b /\ s.points = p
    /\ NoScan \in Scan /\ NoScan.points = "none"
<1>1. 0 \in 0..MaxEpoch /\ 0 \in Time /\ "none" \in Points
  BY Parameters, Times DEF Points
<1> QED
  BY <1>1 DEF Scan, NoScan

LEMMA MeasuresFacts ==
    /\ \A m \in Measures : m.lidar \in Scan /\ m.beg \in Time /\ m.end \in Ends
    /\ \A l \in Scan, b \in Time, e \in Ends :
          LET m == [lidar |-> l, beg |-> b, end |-> e]
          IN  m \in Measures /\ m.lidar = l /\ m.beg = b /\ m.end = e
BY DEF Measures

LEMMA OdometryFacts ==
    /\ \A o \in Odometry : o.stamp \in Ends
    /\ \A t \in Ends, s \in Scan, f \in Scan, a \in Int, b \in BOOLEAN :
          LET o == [stamp |-> t, scan |-> s, of |-> f, at |-> a, fresh |-> b]
          IN  /\ o \in Odometry /\ o.stamp = t /\ o.scan = s /\ o.of = f /\ o.at = a
              /\ o.fresh = b
BY DEF Odometry

-----------------------------------------------------------------------------
\* Types, with what they rest on: the times are never fewer than the scans, and the samples
\* that are buffered are in order.
SensorTypes ==
    /\ now \in Time /\ epoch \in 0..MaxEpoch
    /\ lidar_topic \in Seq(Scan) /\ Len(lidar_topic) <= LidarDepth
    /\ imu_topic \in Seq(Time) /\ Len(imu_topic) <= ImuDepth

ScanTypes ==
    /\ lidar_buffer \in Seq(Scan) /\ time_buffer \in Seq(Time)
    /\ Len(lidar_buffer) <= Len(time_buffer)
    /\ last_timestamp_lidar \in Time

ImuTypes ==
    /\ imu_buffer \in Seq(Time)
    /\ last_timestamp_imu \in Time \/ last_timestamp_imu = -1
    /\ Sorted(imu_buffer)
    /\ \A i \in 1..Len(imu_buffer) : imu_buffer[i] <= last_timestamp_imu

PairTypes ==
    /\ lidar_pushed \in BOOLEAN
    /\ lidar_mean_scantime = 0 \/ lidar_mean_scantime = ScanLen
    /\ meas \in Measures

ProcessTypes ==
    /\ flg_first_scan \in BOOLEAN
    /\ init_iter_num \in Nat /\ last_imu \in Time
    /\ last_lidar_end_time \in Uninitialised \union Ends
    /\ filter_time \in Int
    /\ feats_undistort \in Scan /\ ikdtree \in BOOLEAN
    /\ odom \in Odometry

Types == SensorTypes /\ ScanTypes /\ ImuTypes /\ PairTypes /\ ProcessTypes

LEMMA TypesAreTypeOK == Types => TypeOK
<1> SUFFICES ASSUME Types PROVE TypeOK
  OBVIOUS
<1>1. last_timestamp_imu \in Time \union {-1} /\ lidar_mean_scantime \in {0, ScanLen}
  BY DEF Types, ImuTypes, PairTypes
<1>2. /\ meas \in [lidar : Scan, beg : Time, end : 0..MaxTime + ScanLen]
      /\ odom \in [stamp : 0..MaxTime + ScanLen, scan : Scan, of : Scan, at : Int, fresh : BOOLEAN]
      /\ last_lidar_end_time \in Uninitialised \union 0..MaxTime + ScanLen
  BY Zenon DEF Types, PairTypes, ProcessTypes, Measures, Odometry, Ends
<1> QED
  BY <1>1, <1>2, Zenon DEF Types, SensorTypes, ScanTypes, ImuTypes, PairTypes, ProcessTypes, TypeOK

LEMMA InitTypes == Init => Types
<1> SUFFICES ASSUME Init PROVE Types
  OBVIOUS
<1>1. SensorTypes
  BY Parameters, Times DEF Init, SensorTypes
<1>2. ScanTypes
  BY Times DEF Init, ScanTypes
<1>3. ImuTypes
  BY DEF Init, ImuTypes, Sorted
<1>4. PairTypes
  <2>1. NoScan \in Scan /\ 0 \in Time /\ 0 \in Ends
    BY ScanFacts, Times
  <2> QED
    BY <2>1, MeasuresFacts DEF Init, PairTypes
<1>5. ProcessTypes
  <2>1. NoScan \in Scan /\ 0 \in Time /\ 0 \in Ends /\ 0 \in Int /\ FALSE \in BOOLEAN
    BY ScanFacts, Times
  <2>2. odom \in Odometry
    BY <2>1, OdometryFacts DEF Init
  <2> QED
    BY <2>1, <2>2, Zenon DEF Init, ProcessTypes
<1> QED
  BY <1>1, <1>2, <1>3, <1>4, <1>5 DEF Types

-----------------------------------------------------------------------------
\* What sync_packages pairs.
LEMMA PairedFacts ==
    ASSUME Types, CanSync
    PROVE  /\ Paired \in Measures /\ Paired.lidar \in Scan /\ Paired.end \in Ends
           /\ Paired.end \in Nat
           /\ lidar_buffer # <<>> /\ Head(lidar_buffer) \in Scan
           /\ time_buffer # <<>> /\ Head(time_buffer) \in Time
           /\ lidar_pushed => Paired = meas
           /\ ~lidar_pushed => /\ Paired.lidar = Head(lidar_buffer)
                               /\ Paired.end = Head(time_buffer) + scanTime(Head(lidar_buffer))
<1>1. lidar_buffer # <<>> /\ Len(lidar_buffer) \in Nat \ {0} /\ Head(lidar_buffer) \in Scan
  BY TailDrops DEF Types, ScanTypes, CanSync
<1>2. Len(time_buffer) >= Len(lidar_buffer) /\ time_buffer \in Seq(Time) /\ Len(time_buffer) \in Nat
  BY <1>1, LenProperties DEF Types, ScanTypes
<1>3. time_buffer # <<>>
  <2>1. Len(time_buffer) # 0
    BY <1>1, <1>2
  <2> QED
    BY <2>1, EmptySeq
<1>4. Head(time_buffer) \in Time
  BY <1>2, <1>3, TailDrops
<1>5. scanTime(Head(lidar_buffer)) = 0 \/ scanTime(Head(lidar_buffer)) = ScanLen
  BY DEF scanTime, Types, PairTypes
<1>6. Head(time_buffer) + scanTime(Head(lidar_buffer)) \in Ends
  <2>1. PICK t \in Nat : t = Head(time_buffer) /\ t \in Ends /\ t + ScanLen \in Ends
    BY <1>4, Times
  <2> QED
    BY <1>5, <2>1, Parameters
<1>7. Paired \in Measures
  BY <1>1, <1>4, <1>6, MeasuresFacts DEF Paired, Types, PairTypes
<1>8. Paired.lidar \in Scan /\ Paired.end \in Ends /\ Paired.end \in Nat
  BY <1>7, MeasuresFacts, Times
<1>9. lidar_pushed => Paired = meas
  BY DEF Paired
<1>10. ~lidar_pushed => /\ Paired.lidar = Head(lidar_buffer)
                        /\ Paired.end = Head(time_buffer) + scanTime(Head(lidar_buffer))
  BY <1>1, <1>4, <1>6, MeasuresFacts DEF Paired
<1> QED
  BY <1>1, <1>3, <1>4, <1>7, <1>8, <1>9, <1>10

\* The samples it takes are those that are not past the end, up to one that is equal to it:
\* what it leaves is not before the end.
LEMMA ImuUpToFacts ==
    ASSUME ImuTypes, NEW end \in Nat
    PROVE  \E n \in 0..Len(imu_buffer) :
              /\ ImuUpTo(end) = SubSeq(imu_buffer, 1, n)
              /\ \A i \in 1..n : imu_buffer[i] <= end
              /\ \A i \in n + 1..Len(imu_buffer) : end <= imu_buffer[i]
<1>1. Len(imu_buffer) \in Nat /\ \A i \in 1..Len(imu_buffer) : imu_buffer[i] \in Nat
  BY LenProperties, ElementOfSeq, Times DEF ImuTypes
<1> DEFINE P(k) == /\ \A i \in 1..k : Takes(i, end)
                   /\ k < Len(imu_buffer) => ~Takes(k + 1, end)
           S == {k \in 0..Len(imu_buffer) : k < Len(imu_buffer) => ~Takes(k + 1, end)}
<1>2. \E k \in 0..Len(imu_buffer) : P(k)
  <2>1. Len(imu_buffer) \in S /\ S \subseteq Nat
    BY <1>1
  <2>2. PICK k \in S : \A j \in S : k <= j
    BY <2>1, LeastExists
  <2>3. ASSUME NEW i \in 1..k PROVE Takes(i, end)
    <3>1. i - 1 \in 0..Len(imu_buffer) /\ i - 1 < k /\ i - 1 < Len(imu_buffer) /\ (i - 1) + 1 = i
      BY <1>1, <2>2
    <3>2. i - 1 \notin S
      BY <2>2, <3>1
    <3> QED
      BY <3>1, <3>2
  <2> QED
    BY <2>2, <2>3
<1>3. PICK n : n = CHOOSE k \in 0..Len(imu_buffer) : P(k)
  OBVIOUS
<1>4. n \in 0..Len(imu_buffer) /\ P(n)
  <2> HIDE DEF P
  <2> QED
    BY <1>2, <1>3, Zenon
<1>5. ImuUpTo(end) = SubSeq(imu_buffer, 1, n)
  BY <1>3 DEF ImuUpTo
<1>6. \A i \in 1..n : imu_buffer[i] <= end
  BY <1>4 DEF Takes
<1>7. ASSUME NEW i \in n + 1..Len(imu_buffer) PROVE end <= imu_buffer[i]
  <2>1. /\ n + 1 \in 1..Len(imu_buffer) /\ i \in 1..Len(imu_buffer) /\ n + 1 <= i
        /\ (n + 1) - 1 = n /\ n \in Nat
    BY <1>1, <1>4
  <2>2. ~Takes(n + 1, end)
    BY <1>4, <2>1
  <2>3. imu_buffer[n + 1] <= imu_buffer[i]
    BY <2>1 DEF ImuTypes, Sorted
  <2>4. imu_buffer[n + 1] \in Nat /\ imu_buffer[i] \in Nat
    BY <1>1, <2>1
  <2>5. CASE n = 0
    <3>1. ~(imu_buffer[n + 1] < end)
      BY <2>2, <2>4, <2>5 DEF Takes
    <3> QED
      BY <2>3, <2>4, <3>1
  <2>6. CASE n # 0
    <3>1. n \in 1..Len(imu_buffer) /\ imu_buffer[n] \in Nat
      BY <1>1, <1>4, <2>1, <2>6
    <3>2. imu_buffer[n] <= imu_buffer[n + 1]
      BY <2>1, <3>1 DEF ImuTypes, Sorted
    <3>3. ~(imu_buffer[n + 1] <= end /\ imu_buffer[n] < end)
      BY <2>1, <2>2, <2>6 DEF Takes
    <3> QED
      BY <2>3, <2>4, <3>1, <3>2, <3>3
  <2> QED
    BY <2>5, <2>6
<1> QED
  BY <1>4, <1>5, <1>6, <1>7

\* What is left of the buffers when a scan is handed over with its samples.
LEMMA DoneFacts ==
    ASSUME Types, CanSync, NEW imu, syncDone(imu)
    PROVE  /\ lidar_buffer' \in Seq(Scan) /\ Drops(lidar_buffer', lidar_buffer, 1)
           /\ time_buffer' \in Seq(Time) /\ Drops(time_buffer', time_buffer, 1)
           /\ imu_buffer' \in Seq(Time) /\ imu \in Seq(Time)
           /\ \A i \in 1..Len(imu_buffer') : Paired.end <= imu_buffer'[i]
           /\ \E n \in 0..Len(imu_buffer) :
                 /\ Drops(imu_buffer', imu_buffer, n) /\ Len(imu) = n
                 /\ \A i \in 1..n : imu[i] = imu_buffer[i] /\ imu[i] <= Paired.end
<1>1. PICK end \in Nat : end = Paired.end
  BY PairedFacts
<1>2. PICK n \in 0..Len(imu_buffer) :
        /\ ImuUpTo(end) = SubSeq(imu_buffer, 1, n)
        /\ \A i \in 1..n : imu_buffer[i] <= end
        /\ \A i \in n + 1..Len(imu_buffer) : end <= imu_buffer[i]
  BY ImuUpToFacts DEF Types
<1>3. imu_buffer \in Seq(Time) /\ Len(imu_buffer) \in Nat
  BY LenProperties DEF Types, ImuTypes
<1>4. imu = SubSeq(imu_buffer, 1, n)
  BY <1>1, <1>2 DEF syncDone
<1>5. /\ imu \in Seq(Time) /\ Len(imu) = n /\ \A i \in 1..n : imu[i] = imu_buffer[i]
      /\ SubSeq(imu_buffer, n + 1, Len(imu_buffer)) \in Seq(Time)
      /\ Drops(SubSeq(imu_buffer, n + 1, Len(imu_buffer)), imu_buffer, n)
  BY <1>3, <1>4, SplitFacts
<1>6. imu_buffer' = SubSeq(imu_buffer, n + 1, Len(imu_buffer))
  BY <1>5 DEF syncDone
<1>7. ASSUME NEW i \in 1..Len(imu_buffer') PROVE end <= imu_buffer'[i]
  <2>1. i + n \in n + 1..Len(imu_buffer)
    BY <1>3, <1>5, <1>6, <1>7 DEF Drops
  <2>2. imu_buffer'[i] = imu_buffer[i + n]
    BY <1>5, <1>6, <1>7 DEF Drops
  <2> QED
    BY <1>2, <2>1, <2>2
<1>8. \A i \in 1..n : imu[i] = imu_buffer[i] /\ imu[i] <= end
  BY <1>2, <1>5
<1>9. lidar_buffer' \in Seq(Scan) /\ Drops(lidar_buffer', lidar_buffer, 1)
  BY PairedFacts, TailDrops DEF Types, ScanTypes, syncDone
<1>10. time_buffer' \in Seq(Time) /\ Drops(time_buffer', time_buffer, 1)
  BY PairedFacts, TailDrops DEF Types, ScanTypes, syncDone, popTime
<1> QED
  BY <1>1, <1>5, <1>6, <1>7, <1>8, <1>9, <1>10

\* Which step writes what.
Done == CanSync /\ \E imu \in {ImuUpTo(Paired.end)} : syncDone(imu)

LEMMA Writers ==
    ASSUME [Next]_vars
    PROVE  /\ Tick \/ LoopBack \/ UNCHANGED sensors
           /\ Tick \/ livox_pcl_cbk \/ UNCHANGED lidar_topic
           /\ Tick \/ imu_cbk \/ UNCHANGED imu_topic
           /\ \/ livox_pcl_cbk \/ Done
              \/ UNCHANGED <<lidar_buffer, time_buffer, last_timestamp_lidar>>
           /\ imu_cbk \/ Done \/ UNCHANGED <<imu_buffer, last_timestamp_imu>>
           /\ syncWaits \/ Done \/ UNCHANGED pairing
           /\ timerFirstScan \/ timerScan \/ UNCHANGED process
<1>1. CASE Tick
  BY <1>1 DEF Tick, buffers
<1>2. CASE LoopBack
  BY <1>2 DEF LoopBack, buffers
<1>3. CASE livox_pcl_cbk
  BY <1>3 DEF livox_pcl_cbk
<1>4. CASE imu_cbk
  BY <1>4 DEF imu_cbk
<1>5. CASE syncWaits
  BY <1>5 DEF syncWaits, buffers
<1>6. CASE timerFirstScan
  BY <1>6 DEF timerFirstScan, Done, syncDone
<1>7. CASE timerScan
  BY <1>7 DEF timerScan, Done, syncDone
<1>8. CASE UNCHANGED vars
  BY <1>8 DEF vars, buffers
<1> QED
  BY <1>1, <1>2, <1>3, <1>4, <1>5, <1>6, <1>7, <1>8 DEF Next, timer_callback

-----------------------------------------------------------------------------
\* Types are kept, part by part.

\* A tick that ends a scan is at least a scan late.
LEMMA TickTimes ==
    ASSUME SensorTypes, Tick
    PROVE  /\ now' \in Time /\ now \in Nat /\ now' = now + 1
           /\ now' % ScanLen = 0 => now' - ScanLen \in Time
<1>1. now \in 0..MaxTime /\ now' = now + 1 /\ (now < MaxTime \/ now < MaxTimeAgain)
  BY DEF SensorTypes, Tick, Time
<1>2. now' \in Time /\ now \in Nat
  BY <1>1, Parameters DEF Time
<1>3. ASSUME now' % ScanLen = 0 PROVE now' - ScanLen \in Time
  <2>1. 0 % ScanLen = 0
    BY Parameters
  <2>2. 0 + ScanLen <= now'
    BY <1>1, <1>2, <1>3, <2>1, Parameters, MultiplesApart
  <2> QED
    BY <1>1, <1>2, <2>2, Parameters DEF Time
<1> QED
  BY <1>1, <1>2, <1>3

LEMMA SensorTypesStep == Types /\ [Next]_vars => SensorTypes'
<1> SUFFICES ASSUME Types, [Next]_vars PROVE SensorTypes'
  OBVIOUS
<1> USE DEF Types
<1>1. now' \in Time /\ epoch' \in 0..MaxEpoch
  <2>1. CASE Tick
    BY <2>1, TickTimes DEF SensorTypes, Tick
  <2>2. CASE LoopBack
    BY <2>2, Times, Parameters DEF SensorTypes, LoopBack
  <2>3. CASE UNCHANGED sensors
    BY <2>3 DEF SensorTypes, sensors
  <2> QED
    BY <2>1, <2>2, <2>3, Writers
<1>2. lidar_topic' \in Seq(Scan) /\ Len(lidar_topic') <= LidarDepth
  <2>1. CASE Tick
    <3>1. CASE now' % ScanLen # 0
      BY <2>1, <3>1 DEF SensorTypes, Tick
    <3>2. CASE now' % ScanLen = 0
      <4>1. PICK p \in Points :
              lidar_topic' = KeepLast(lidar_topic, [epoch |-> epoch, beg |-> now' - ScanLen,
                                                    points |-> p], LidarDepth)
        BY <2>1, <3>2 DEF Tick
      <4>2. PICK s \in Scan : s = [epoch |-> epoch, beg |-> now' - ScanLen, points |-> p]
        <5>1. now' - ScanLen \in Time /\ epoch \in 0..MaxEpoch
          BY <2>1, <3>2, TickTimes DEF SensorTypes
        <5> QED
          BY <5>1, ScanFacts
      <4>3. lidar_topic' = KeepLast(lidar_topic, s, LidarDepth)
        BY <4>1, <4>2
      <4> QED
        BY <4>3, KeepLastFacts, Parameters DEF SensorTypes
    <3> QED
      BY <3>1, <3>2
  <2>2. CASE livox_pcl_cbk
    <3>1. lidar_topic # <<>> /\ lidar_topic' = Tail(lidar_topic)
      BY <2>2 DEF livox_pcl_cbk
    <3>2. /\ Len(lidar_topic) \in Nat \ {0} /\ Tail(lidar_topic) \in Seq(Scan)
          /\ Drops(Tail(lidar_topic), lidar_topic, 1)
      BY <3>1, TailDrops DEF SensorTypes
    <3> QED
      BY <3>1, <3>2, Parameters DEF SensorTypes, Drops
  <2>3. CASE UNCHANGED lidar_topic
    BY <2>3 DEF SensorTypes
  <2> QED
    BY <2>1, <2>2, <2>3, Writers
<1>3. imu_topic' \in Seq(Time) /\ Len(imu_topic') <= ImuDepth
  <2>1. CASE Tick
    <3>1. CASE now' % ImuPeriod = 0
      <4>1. imu_topic' = KeepLast(imu_topic, now', ImuDepth) /\ now' \in Time
        BY <2>1, <3>1, TickTimes DEF Tick
      <4> QED
        BY <4>1, KeepLastFacts, Parameters DEF SensorTypes
    <3>2. CASE now' % ImuPeriod # 0
      BY <2>1, <3>2 DEF SensorTypes, Tick
    <3> QED
      BY <3>1, <3>2
  <2>2. CASE imu_cbk
    <3>1. imu_topic # <<>> /\ imu_topic' = Tail(imu_topic)
      BY <2>2 DEF imu_cbk
    <3>2. /\ Len(imu_topic) \in Nat \ {0} /\ Tail(imu_topic) \in Seq(Time)
          /\ Drops(Tail(imu_topic), imu_topic, 1)
      BY <3>1, TailDrops DEF SensorTypes
    <3> QED
      BY <3>1, <3>2, Parameters DEF SensorTypes, Drops
  <2>3. CASE UNCHANGED imu_topic
    BY <2>3 DEF SensorTypes
  <2> QED
    BY <2>1, <2>2, <2>3, Writers
<1> QED
  BY <1>1, <1>2, <1>3 DEF SensorTypes

\* A scan that is buffered comes with its time, whether or not the clock of the lidar went back.
LEMMA LidarArrives ==
    ASSUME Types, livox_pcl_cbk
    PROVE  \E s \in Scan :
              /\ s = Head(lidar_topic) /\ s = lidar_topic[1] /\ Len(lidar_topic) \in Nat \ {0}
              /\ Drops(lidar_topic', lidar_topic, 1)
              /\ lidar_buffer' = (IF s.beg < last_timestamp_lidar THEN <<s>>
                                  ELSE Append(lidar_buffer, s))
              /\ lidar_buffer' \in Seq(Scan)
              /\ time_buffer' \in Seq(Time) /\ Adds(time_buffer', time_buffer, s.beg)
              /\ last_timestamp_lidar' = s.beg
<1>1. PICK s \in Scan : s = Head(lidar_topic)
  BY TailDrops DEF Types, SensorTypes, livox_pcl_cbk
<1>2. /\ s = lidar_topic[1] /\ Len(lidar_topic) \in Nat \ {0}
      /\ Drops(lidar_topic', lidar_topic, 1)
  BY <1>1, TailDrops DEF Types, SensorTypes, livox_pcl_cbk
<1>3. lidar_buffer' = (IF s.beg < last_timestamp_lidar THEN <<s>> ELSE Append(lidar_buffer, s))
  BY <1>1 DEF livox_pcl_cbk
<1>4. <<s>> \in Seq(Scan) /\ Append(lidar_buffer, s) \in Seq(Scan)
  BY AppendAdds DEF Types, ScanTypes
<1>5. time_buffer' = Append(time_buffer, s.beg) /\ s.beg \in Time /\ last_timestamp_lidar' = s.beg
  BY <1>1, ScanFacts DEF livox_pcl_cbk
<1>6. time_buffer' \in Seq(Time) /\ Adds(time_buffer', time_buffer, s.beg)
  BY <1>5, AppendAdds DEF Types, ScanTypes
<1> QED
  BY <1>1, <1>2, <1>3, <1>4, <1>5, <1>6

LEMMA ScanTypesStep == Types /\ [Next]_vars => ScanTypes'
<1> SUFFICES ASSUME Types, [Next]_vars PROVE ScanTypes'
  OBVIOUS
<1>0. Len(lidar_buffer) \in Nat /\ Len(time_buffer) \in Nat /\ Len(lidar_buffer) <= Len(time_buffer)
  BY LenProperties DEF Types, ScanTypes
<1>1. CASE livox_pcl_cbk
  <2>1. PICK s \in Scan :
           /\ lidar_buffer' = (IF s.beg < last_timestamp_lidar THEN <<s>>
                               ELSE Append(lidar_buffer, s))
           /\ lidar_buffer' \in Seq(Scan)
           /\ time_buffer' \in Seq(Time) /\ Adds(time_buffer', time_buffer, s.beg)
           /\ last_timestamp_lidar' = s.beg
    BY <1>1, LidarArrives
  <2>2. Len(lidar_buffer') <= Len(lidar_buffer) + 1
    <3>1. Len(<<s>>) = 1 /\ Len(Append(lidar_buffer, s)) = Len(lidar_buffer) + 1
      BY AppendAdds DEF Types, ScanTypes, Adds
    <3> QED
      BY <1>0, <2>1, <3>1
  <2>3. Len(lidar_buffer') <= Len(time_buffer')
    <3>1. Len(lidar_buffer') \in Nat
      BY <2>1, LenProperties
    <3> QED
      BY <1>0, <2>1, <2>2, <3>1 DEF Adds
  <2> QED
    BY <2>1, <2>3, ScanFacts DEF ScanTypes
<1>2. CASE Done
  <2>1. /\ lidar_buffer' \in Seq(Scan) /\ Drops(lidar_buffer', lidar_buffer, 1)
        /\ time_buffer' \in Seq(Time) /\ Drops(time_buffer', time_buffer, 1)
    BY <1>2, DoneFacts DEF Done
  <2>2. Len(lidar_buffer') <= Len(time_buffer')
    BY <1>0, <2>1 DEF Drops
  <2>3. UNCHANGED last_timestamp_lidar
    BY <1>2 DEF Done, syncDone
  <2> QED
    BY <2>1, <2>2, <2>3 DEF Types, ScanTypes
<1>3. CASE UNCHANGED <<lidar_buffer, time_buffer, last_timestamp_lidar>>
  BY <1>3 DEF Types, ScanTypes
<1> QED
  BY <1>1, <1>2, <1>3, Writers

LEMMA ImuArrives ==
    ASSUME Types, imu_cbk
    PROVE  \E t \in Time :
              /\ t = imu_topic[1] /\ Len(imu_topic) \in Nat \ {0}
              /\ imu_topic' \in Seq(Time) /\ Drops(imu_topic', imu_topic, 1)
              /\ imu_buffer' \in Seq(Time)
              /\ last_timestamp_imu' = t
              /\ t < last_timestamp_imu => Len(imu_buffer') = 1 /\ imu_buffer'[1] = t
              /\ ~(t < last_timestamp_imu) => Adds(imu_buffer', imu_buffer, t)
<1>1. PICK t \in Time : t = Head(imu_topic)
  BY TailDrops DEF Types, SensorTypes, imu_cbk
<1>2. /\ t = imu_topic[1] /\ Len(imu_topic) \in Nat \ {0}
      /\ imu_topic' \in Seq(Time) /\ Drops(imu_topic', imu_topic, 1)
  BY <1>1, TailDrops DEF Types, SensorTypes, imu_cbk
<1>3. /\ imu_buffer' = (IF t < last_timestamp_imu THEN <<t>> ELSE Append(imu_buffer, t))
      /\ last_timestamp_imu' = t
  BY <1>1 DEF imu_cbk
<1>4. /\ <<t>> \in Seq(Time) /\ Len(<<t>>) = 1 /\ <<t>>[1] = t
      /\ Append(imu_buffer, t) \in Seq(Time) /\ Adds(Append(imu_buffer, t), imu_buffer, t)
  BY AppendAdds DEF Types, ImuTypes
<1> QED
  BY <1>1, <1>2, <1>3, <1>4

\* Sequences in order stay in order when elements are dropped, or one that is not less added.
LEMMA SortedDrops ==
    ASSUME NEW s \in Seq(Nat), NEW t \in Seq(Nat), NEW k \in Nat, Drops(t, s, k), Sorted(s)
    PROVE  Sorted(t)
<1>1. Len(s) \in Nat /\ Len(t) \in Nat
  BY LenProperties
<1> SUFFICES ASSUME NEW i \in 1..Len(t), NEW j \in 1..Len(t), i <= j PROVE t[i] <= t[j]
  BY DEF Sorted
<1>2. /\ i + k \in 1..Len(s) /\ j + k \in 1..Len(s) /\ i + k <= j + k
      /\ t[i] = s[i + k] /\ t[j] = s[j + k]
  BY <1>1 DEF Drops
<1> QED
  BY <1>2 DEF Sorted

LEMMA SortedAdds ==
    ASSUME NEW s \in Seq(Nat), NEW t \in Seq(Nat), NEW e \in Nat, Adds(t, s, e), Sorted(s),
           \A i \in 1..Len(s) : s[i] <= e
    PROVE  Sorted(t) /\ \A i \in 1..Len(t) : t[i] <= e
<1>1. Len(s) \in Nat /\ Len(t) = Len(s) + 1
  BY LenProperties DEF Adds
<1>2. ASSUME NEW i \in 1..Len(t)
      PROVE  \/ i \in 1..Len(s) /\ t[i] = s[i] /\ s[i] <= e
             \/ i = Len(s) + 1 /\ t[i] = e
  <2>1. i \in 1..Len(s) \/ i = Len(s) + 1
    BY <1>1
  <2> QED
    BY <2>1 DEF Adds
<1>3. ASSUME NEW i \in 1..Len(t), NEW j \in 1..Len(t), i <= j PROVE t[i] <= t[j]
  <2>1. CASE i \in 1..Len(s) /\ j \in 1..Len(s)
    BY <1>3, <2>1 DEF Adds, Sorted
  <2>2. CASE i = Len(s) + 1 /\ j = Len(s) + 1
    BY <2>2 DEF Adds
  <2>3. CASE i \in 1..Len(s) /\ j = Len(s) + 1
    BY <2>3 DEF Adds
  <2> QED
    BY <1>1, <1>3, <2>1, <2>2, <2>3
<1>4. \A i \in 1..Len(t) : t[i] <= e
  <2> TAKE i \in 1..Len(t)
  <2>1. CASE i \in 1..Len(s)
    BY <2>1 DEF Adds
  <2>2. CASE i = Len(s) + 1
    BY <2>2 DEF Adds
  <2> QED
    BY <1>2, <2>1, <2>2
<1> QED
  BY <1>3, <1>4 DEF Sorted

LEMMA NatTimes == ASSUME NEW s \in Seq(Time) PROVE s \in Seq(Nat)
BY Times, SeqMonotonic

LEMMA StampType == ASSUME ImuTypes PROVE last_timestamp_imu \in Int
<1>1. last_timestamp_imu \in Time \/ last_timestamp_imu = -1
  BY DEF ImuTypes
<1>2. Time \subseteq Nat /\ -1 \in Int
  BY Times
<1>3. \A t : t \in Nat => t \in Int
  OBVIOUS
<1> QED
  BY <1>1, <1>2, <1>3, Zenon

LEMMA ImuTypesStep == Types /\ [Next]_vars => ImuTypes'
<1> SUFFICES ASSUME Types, [Next]_vars PROVE ImuTypes'
  OBVIOUS
<1>0. /\ imu_buffer \in Seq(Time) /\ imu_buffer \in Seq(Nat) /\ Sorted(imu_buffer)
      /\ Len(imu_buffer) \in Nat /\ \A i \in 1..Len(imu_buffer) : imu_buffer[i] \in Nat
  BY NatTimes, LenProperties, ElementOfSeq DEF Types, ImuTypes
<1>1. CASE imu_cbk
  <2>1. PICK t \in Time :
           /\ imu_buffer' \in Seq(Time)
           /\ last_timestamp_imu' = t
           /\ t < last_timestamp_imu => Len(imu_buffer') = 1 /\ imu_buffer'[1] = t
           /\ ~(t < last_timestamp_imu) => Adds(imu_buffer', imu_buffer, t)
    BY <1>1, ImuArrives
  <2>2. t \in Nat /\ imu_buffer' \in Seq(Nat)
    BY <2>1, Times, NatTimes
  <2>3. Sorted(imu_buffer') /\ \A i \in 1..Len(imu_buffer') : imu_buffer'[i] <= t
    <3>1. CASE t < last_timestamp_imu
      BY <2>1, <2>2, <3>1 DEF Sorted
    <3>2. CASE ~(t < last_timestamp_imu)
      <4>1. \A i \in 1..Len(imu_buffer) : imu_buffer[i] <= t
        <5>1. PICK l \in Int : l = last_timestamp_imu
          BY StampType DEF Types
        <5>2. l <= t
          BY <2>2, <3>2, <5>1
        <5> TAKE i \in 1..Len(imu_buffer)
        <5>3. imu_buffer[i] <= l /\ imu_buffer[i] \in Nat
          BY <1>0, <5>1 DEF Types, ImuTypes
        <5> QED
          BY <2>2, <5>2, <5>3
      <4> QED
        BY <1>0, <2>1, <2>2, <3>2, <4>1, SortedAdds
    <3> QED
      BY <3>1, <3>2
  <2> QED
    BY <2>1, <2>3 DEF ImuTypes, Sorted
<1>2. CASE Done
  <2>1. PICK n \in 0..Len(imu_buffer) :
          imu_buffer' \in Seq(Time) /\ Drops(imu_buffer', imu_buffer, n)
    BY <1>2, DoneFacts DEF Done
  <2>2. n \in Nat /\ imu_buffer' \in Seq(Nat) /\ Len(imu_buffer') \in Nat
    BY <1>0, <2>1, NatTimes, LenProperties
  <2>3. Sorted(imu_buffer')
    BY <1>0, <2>1, <2>2, SortedDrops
  <2>4. UNCHANGED last_timestamp_imu
    BY <1>2 DEF Done, syncDone
  <2>5. \A i \in 1..Len(imu_buffer') : imu_buffer'[i] <= last_timestamp_imu
    <3> TAKE i \in 1..Len(imu_buffer')
    <3>1. i + n \in 1..Len(imu_buffer) /\ imu_buffer'[i] = imu_buffer[i + n]
      BY <1>0, <2>1, <2>2 DEF Drops
    <3> QED
      BY <3>1 DEF Types, ImuTypes
  <2> QED
    BY <2>1, <2>3, <2>4, <2>5 DEF Types, ImuTypes, Sorted
<1>3. CASE UNCHANGED <<imu_buffer, last_timestamp_imu>>
  BY <1>3 DEF Types, ImuTypes, Sorted
<1> QED
  BY <1>1, <1>2, <1>3, Writers

LEMMA PairTypesStep == Types /\ [Next]_vars => PairTypes'
<1> SUFFICES ASSUME Types, [Next]_vars PROVE PairTypes'
  OBVIOUS
<1>1. CASE syncWaits
  <2>1. meas' \in Measures /\ lidar_pushed' \in BOOLEAN
    BY <1>1, PairedFacts DEF syncWaits
  <2>2. lidar_mean_scantime' = ScanLen \/ lidar_mean_scantime' = lidar_mean_scantime
    BY <1>1 DEF syncWaits, pushScan
  <2> QED
    BY <2>1, <2>2 DEF Types, PairTypes
<1>2. CASE Done
  <2>1. meas' \in Measures /\ lidar_pushed' \in BOOLEAN
    BY <1>2, PairedFacts DEF Done, syncDone, scanDone
  <2>2. lidar_mean_scantime' = ScanLen \/ lidar_mean_scantime' = lidar_mean_scantime
    BY <1>2 DEF Done, syncDone, pushScan
  <2> QED
    BY <2>1, <2>2 DEF Types, PairTypes
<1>3. CASE UNCHANGED pairing
  BY <1>3 DEF Types, PairTypes, pairing
<1> QED
  BY <1>1, <1>2, <1>3, Writers

\* The samples a step hands to Process.
LEMMA SampleFacts ==
    ASSUME Types, CanSync, NEW imu, syncDone(imu)
    PROVE  /\ imu \in Seq(Nat) /\ Len(imu) \in Nat /\ Sorted(imu)
           /\ imu # <<>> => /\ Len(imu) \in Nat \ {0}
                            /\ Last(imu) \in Time /\ Last(imu) = imu[Len(imu)]
                            /\ Last(imu) <= Paired.end
                            /\ imu[1] = imu_buffer[1] /\ 1 \in 1..Len(imu_buffer)
<1>1. PICK n \in 0..Len(imu_buffer) :
         /\ Len(imu) = n
         /\ \A i \in 1..n : imu[i] = imu_buffer[i] /\ imu[i] <= Paired.end
  BY DoneFacts
<1>2. /\ imu \in Seq(Time) /\ imu \in Seq(Nat) /\ Len(imu) \in Nat
      /\ \A i \in 1..Len(imu) : imu[i] \in Time
  BY DoneFacts, NatTimes, LenProperties, ElementOfSeq
<1>3. Len(imu_buffer) \in Nat /\ Sorted(imu_buffer)
  BY LenProperties DEF Types, ImuTypes
<1>4. Sorted(imu)
  <2> SUFFICES ASSUME NEW i \in 1..Len(imu), NEW j \in 1..Len(imu), i <= j PROVE imu[i] <= imu[j]
    BY DEF Sorted
  <2>1. /\ i \in 1..Len(imu_buffer) /\ j \in 1..Len(imu_buffer)
        /\ imu[i] = imu_buffer[i] /\ imu[j] = imu_buffer[j]
    BY <1>1, <1>3
  <2> QED
    BY <1>3, <2>1 DEF Sorted
<1>5. ASSUME imu # <<>>
      PROVE  /\ Len(imu) \in Nat \ {0}
             /\ Last(imu) \in Time /\ Last(imu) = imu[Len(imu)]
             /\ Last(imu) <= Paired.end
             /\ imu[1] = imu_buffer[1] /\ 1 \in 1..Len(imu_buffer)
  <2>1. Len(imu) \in Nat \ {0}
    BY <1>2, <1>5, EmptySeq
  <2>2. Last(imu) = imu[Len(imu)]
    BY DEF Last
  <2> QED
    BY <1>1, <1>2, <1>3, <2>1, <2>2
<1> QED
  BY <1>2, <1>4, <1>5

LEMMA ProcessTypesStep == Types /\ [Next]_vars => ProcessTypes'
<1> SUFFICES ASSUME Types, [Next]_vars PROVE ProcessTypes'
  OBVIOUS
<1>1. CASE timerFirstScan
  BY <1>1 DEF timerFirstScan, Types, ProcessTypes
<1>2. CASE timerScan
  <2>1. PICK imu : CanSync /\ syncDone(imu) /\ Process(imu) /\ register(imu)
    BY <1>2 DEF timerScan
  <2>2. Paired.lidar \in Scan /\ Paired.end \in Ends /\ Paired.end \in Nat
    BY <2>1, PairedFacts
  <2>3. /\ last_lidar_end_time \in Uninitialised \union Ends /\ last_lidar_end_time \in Nat
        /\ last_imu \in Time /\ last_imu \in Nat
    BY Times, Parameters DEF Types, ProcessTypes
  <2>4. /\ init_iter_num' \in Nat /\ last_imu' \in Time
        /\ last_lidar_end_time' \in Uninitialised \union Ends
        /\ filter_time' \in Int /\ feats_undistort' \in Scan
    <3>1. CASE noSamples(imu)
      BY <3>1 DEF noSamples, Types, ProcessTypes
    <3>2. CASE IMU_init(imu)
      <4>1. Len(imu) \in Nat /\ Last(imu) \in Time
        BY <2>1, <3>2, SampleFacts DEF IMU_init
      <4> QED
        BY <3>2, <4>1 DEF IMU_init, Types, ProcessTypes
    <3>3. CASE UndistortPcl(imu)
      <4>1. imu # <<>> /\ imu \in Seq(Nat) /\ Sorted(imu) /\ Last(imu) \in Time
        BY <2>1, <3>3, SampleFacts DEF UndistortPcl
      <4>2. Propagated(imu, Paired.end) \in Int
        BY <2>2, <2>3, <4>1, PropagatedType
      <4>3. filter_time' \in Int
        BY <2>2, <3>3, <4>2 DEF UndistortPcl, Types, ProcessTypes
      <4> QED
        BY <2>2, <3>3, <4>1, <4>3 DEF UndistortPcl, Types, ProcessTypes
    <3> QED
      BY <2>1, <3>1, <3>2, <3>3 DEF Process
  <2>5. ikdtree' \in BOOLEAN /\ odom' \in Odometry
    <3>1. CASE UNCHANGED <<ikdtree, odom>>
      BY <3>1 DEF Types, ProcessTypes
    <3>2. CASE ikdtree' = TRUE /\ UNCHANGED odom
      BY <3>2 DEF Types, ProcessTypes
    <3>3. CASE /\ odom' = [stamp |-> Paired.end, scan |-> feats_undistort', of |-> Paired.lidar,
                           at |-> filter_time', fresh |-> imu # <<>>]
               /\ UNCHANGED ikdtree
      <4>1. (imu # <<>>) \in BOOLEAN
        OBVIOUS
      <4>2. odom' \in Odometry
        BY <2>2, <2>4, <3>3, <4>1, OdometryFacts, Zenon
      <4> QED
        BY <3>3, <4>2 DEF Types, ProcessTypes
    <3> QED
      BY <2>1, <3>1, <3>2, <3>3 DEF register
  <2>6. flg_first_scan' \in BOOLEAN
    BY <1>2 DEF timerScan, Types, ProcessTypes
  <2> QED
    BY <2>4, <2>5, <2>6 DEF ProcessTypes
<1>3. CASE UNCHANGED process
  BY <1>3 DEF Types, ProcessTypes, process
<1> QED
  BY <1>1, <1>2, <1>3, Writers

LEMMA TypesStep == Types /\ [Next]_vars => Types'
BY SensorTypesStep, ScanTypesStep, ImuTypesStep, PairTypesStep, ProcessTypesStep DEF Types

LEMMA TypesCorrect == Spec => []Types
BY InitTypes, TypesStep, PTL DEF Spec

\* Every variable keeps its type, whatever arrives and whenever the clocks go back: there is a
\* time to pair with every scan that is buffered, and the mean scan time is that of a scan.
THEOREM TypeCorrect == Spec => []TypeOK
BY TypesCorrect, TypesAreTypeOK, PTL

-----------------------------------------------------------------------------
\* As long as the clock has not gone back, everything is in order: the samples and the scans
\* that wait follow the last ones buffered.
LEMMA FirstEpoch ==
    ASSUME Types, [Next]_vars, epoch' = 0
    PROVE  epoch = 0 /\ (Tick \/ UNCHANGED now)
<1>1. epoch \in Nat
  BY Parameters DEF Types, SensorTypes
<1>2. ~LoopBack
  BY <1>1 DEF LoopBack
<1>3. CASE Tick
  BY <1>3 DEF Tick
<1>4. CASE UNCHANGED sensors
  BY <1>4 DEF sensors
<1> QED
  BY <1>2, <1>3, <1>4, Writers

ImuOrder ==
    epoch = 0 =>
       /\ last_timestamp_imu <= now
       /\ Sorted(imu_topic)
       /\ \A i \in 1..Len(imu_topic) : last_timestamp_imu <= imu_topic[i] /\ imu_topic[i] <= now

LEMMA ImuOrderStep == Types /\ ImuOrder /\ [Next]_vars => ImuOrder'
<1> SUFFICES ASSUME Types, ImuOrder, [Next]_vars, epoch' = 0
             PROVE  /\ last_timestamp_imu' <= now'
                    /\ Sorted(imu_topic')
                    /\ \A i \in 1..Len(imu_topic') :
                          last_timestamp_imu' <= imu_topic'[i] /\ imu_topic'[i] <= now'
  BY DEF ImuOrder, Sorted
<1>1. epoch = 0 /\ (Tick \/ UNCHANGED now)
  BY FirstEpoch
<1>2. PICK l \in Int : l = last_timestamp_imu
  BY StampType DEF Types
<1>3. /\ imu_topic \in Seq(Time) /\ imu_topic \in Seq(Nat) /\ Len(imu_topic) \in Nat
      /\ \A i \in 1..Len(imu_topic) : imu_topic[i] \in Nat
      /\ Len(imu_topic) <= ImuDepth /\ now \in Nat
  BY NatTimes, LenProperties, ElementOfSeq, Times DEF Types, SensorTypes
<1>4. /\ l <= now /\ Sorted(imu_topic)
      /\ \A i \in 1..Len(imu_topic) : l <= imu_topic[i] /\ imu_topic[i] <= now
  BY <1>1, <1>2 DEF ImuOrder
<1>5. CASE Tick
  <2>1. last_timestamp_imu' = l /\ now' = now + 1 /\ now' \in Time /\ now' \in Nat
    BY <1>2, <1>5, TickTimes, Times DEF Tick, buffers, Types
  <2>2. CASE now' % ImuPeriod = 0
    <3>1. imu_topic' = KeepLast(imu_topic, now', ImuDepth)
      BY <1>5, <2>2 DEF Tick
    <3>2. PICK u \in Seq(Time), k \in 0..1 :
             k <= Len(imu_topic) /\ Drops(u, imu_topic, k) /\ Adds(imu_topic', u, now')
      BY <1>3, <2>1, <3>1, KeepLastFacts, Parameters
    <3>3. k \in Nat /\ u \in Seq(Nat) /\ Len(u) \in Nat
      BY <3>2, NatTimes, LenProperties
    <3>4. Sorted(u)
      BY <1>3, <1>4, <3>2, <3>3, SortedDrops
    <3>5. \A i \in 1..Len(u) : l <= u[i] /\ u[i] <= now'
      <4> TAKE i \in 1..Len(u)
      <4>1. i + k \in 1..Len(imu_topic) /\ u[i] = imu_topic[i + k]
        BY <1>3, <3>2, <3>3 DEF Drops
      <4>2. l <= imu_topic[i + k] /\ imu_topic[i + k] <= now /\ imu_topic[i + k] \in Nat
        BY <1>3, <1>4, <4>1
      <4> QED
        BY <1>3, <2>1, <4>1, <4>2
    <3>6. imu_topic' \in Seq(Nat)
      BY SensorTypesStep, NatTimes DEF SensorTypes
    <3>7. Sorted(imu_topic') /\ \A i \in 1..Len(imu_topic') : imu_topic'[i] <= now'
      BY <2>1, <3>2, <3>3, <3>4, <3>5, <3>6, SortedAdds
    <3>8. ASSUME NEW i \in 1..Len(imu_topic') PROVE l <= imu_topic'[i]
      <4>1. CASE i \in 1..Len(u)
        BY <3>2, <3>5, <4>1 DEF Adds
      <4>2. CASE i = Len(u) + 1
        <5>1. imu_topic'[i] = now'
          BY <3>2, <4>2 DEF Adds
        <5> QED
          BY <1>3, <1>4, <2>1, <5>1
      <4> QED
        BY <3>2, <3>3, <4>1, <4>2 DEF Adds
    <3> QED
      BY <1>3, <1>4, <2>1, <3>7, <3>8
  <2>3. CASE now' % ImuPeriod # 0
    <3>1. imu_topic' = imu_topic
      BY <1>5, <2>3 DEF Tick
    <3>2. \A i \in 1..Len(imu_topic) : imu_topic[i] <= now'
      BY <1>3, <1>4, <2>1
    <3> QED
      BY <1>3, <1>4, <2>1, <3>1, <3>2
  <2> QED
    BY <2>2, <2>3
<1>6. CASE imu_cbk
  <2>1. PICK t \in Time :
           /\ t = imu_topic[1] /\ Len(imu_topic) \in Nat \ {0}
           /\ imu_topic' \in Seq(Time) /\ Drops(imu_topic', imu_topic, 1)
           /\ last_timestamp_imu' = t
    BY <1>6, ImuArrives
  <2>2. now' = now
    BY <1>6 DEF imu_cbk, sensors
  <2>3. t \in Nat /\ t <= now
    BY <1>4, <2>1, Times
  <2>4. Sorted(imu_topic')
    BY <1>3, <1>4, <2>1, NatTimes, SortedDrops
  <2>5. ASSUME NEW i \in 1..Len(imu_topic') PROVE t <= imu_topic'[i] /\ imu_topic'[i] <= now
    <3>1. i + 1 \in 1..Len(imu_topic) /\ imu_topic'[i] = imu_topic[i + 1]
      BY <1>3, <2>1 DEF Drops
    <3>2. 1 \in 1..Len(imu_topic) /\ 1 <= i + 1
      BY <2>1
    <3> QED
      BY <1>4, <2>1, <3>1, <3>2 DEF Sorted
  <2> QED
    BY <2>1, <2>2, <2>3, <2>4, <2>5
<1>7. CASE UNCHANGED <<imu_topic, last_timestamp_imu, now>>
  BY <1>2, <1>4, <1>7
<1>8. Tick \/ imu_cbk \/ UNCHANGED <<imu_topic, last_timestamp_imu, now>>
  BY <1>1, Writers DEF Done, syncDone
<1> QED
  BY <1>5, <1>6, <1>7, <1>8

-----------------------------------------------------------------------------
\* A scan whose odometry may be published has a known length: it has points, or the scan
\* before it had.
Known(points) == points # "none"

MeanInv ==
    /\ Known(feats_undistort.points) => lidar_mean_scantime = ScanLen
    /\ lidar_pushed /\ Known(meas.lidar.points) => lidar_mean_scantime = ScanLen
    /\ epoch = 0 /\ lidar_pushed
          /\ (Known(feats_undistort.points) \/ Known(meas.lidar.points))
       => meas.end = meas.lidar.beg + ScanLen

\* The pair that is made of the front of the buffers.
LEMMA PairedEnd ==
    ASSUME Types, MeanInv, OwnTimes, epoch = 0, CanSync,
           Known(feats_undistort.points) \/ Known(Paired.lidar.points)
    PROVE  Paired.end = lidar_buffer[1].beg + ScanLen
<1>1. CASE lidar_pushed
  <2>1. Paired = meas /\ meas.lidar = Head(lidar_buffer)
    BY <1>1, PairedFacts DEF OwnTimes
  <2>2. Paired.end = meas.lidar.beg + ScanLen
    BY <1>1, <2>1 DEF MeanInv
  <2> QED
    BY <2>1, <2>2, PairedFacts, TailDrops DEF Types, ScanTypes
<1>2. CASE ~lidar_pushed
  <2>1. /\ Paired.lidar = Head(lidar_buffer)
        /\ Paired.end = Head(time_buffer) + scanTime(Head(lidar_buffer))
    BY <1>2, PairedFacts
  <2>2. /\ Head(lidar_buffer) = lidar_buffer[1] /\ Head(time_buffer) = time_buffer[1]
        /\ 1 \in DOMAIN lidar_buffer
    BY PairedFacts, TailDrops, LenProperties DEF Types, ScanTypes
  <2>3. time_buffer[1] = lidar_buffer[1].beg
    BY <2>2 DEF OwnTimes
  <2>4. scanTime(Head(lidar_buffer)) = ScanLen
    BY <2>1 DEF scanTime, Known, MeanInv
  <2> QED
    BY <2>1, <2>2, <2>3, <2>4
<1> QED
  BY <1>1, <1>2

LEMMA MeanAfter ==
    ASSUME Types, MeanInv, CanSync, pushScan
    PROVE  /\ lidar_mean_scantime = ScanLen => lidar_mean_scantime' = ScanLen
           /\ Known(Paired.lidar.points) => lidar_mean_scantime' = ScanLen
<1>1. CASE lidar_pushed
  BY <1>1, PairedFacts DEF pushScan, MeanInv
<1>2. CASE ~lidar_pushed
  BY <1>2, PairedFacts DEF pushScan, Known
<1> QED
  BY <1>1, <1>2

LEMMA MeanStep == Types /\ MeanInv /\ (epoch = 0 => OwnTimes) /\ [Next]_vars => MeanInv'
<1> SUFFICES ASSUME Types, MeanInv, epoch = 0 => OwnTimes, [Next]_vars PROVE MeanInv'
  OBVIOUS
<1>1. epoch' = 0 => epoch = 0
  BY FirstEpoch
<1>2. CASE syncWaits
  <2>1. /\ CanSync /\ ~lidar_pushed /\ pushScan /\ meas' = Paired /\ lidar_pushed' = TRUE
        /\ feats_undistort' = feats_undistort
    BY <1>2 DEF syncWaits, process
  <2>2. /\ lidar_mean_scantime = ScanLen => lidar_mean_scantime' = ScanLen
        /\ Known(Paired.lidar.points) => lidar_mean_scantime' = ScanLen
    BY <2>1, MeanAfter
  <2>3. ASSUME epoch = 0, Known(feats_undistort.points) \/ Known(Paired.lidar.points)
        PROVE  Paired.end = Paired.lidar.beg + ScanLen
    <3>1. Paired.end = lidar_buffer[1].beg + ScanLen
      BY <1>1, <2>1, <2>3, PairedEnd
    <3>2. Paired.lidar = lidar_buffer[1]
      BY <2>1, PairedFacts, TailDrops DEF Types, ScanTypes
    <3> QED
      BY <3>1, <3>2
  <2> QED
    BY <1>1, <2>1, <2>2, <2>3 DEF MeanInv
<1>3. CASE timerFirstScan
  <2>1. PICK imu : CanSync /\ syncDone(imu) /\ feats_undistort' = feats_undistort
    BY <1>3 DEF timerFirstScan
  <2>2. ~lidar_pushed' /\ pushScan
    BY <2>1 DEF syncDone, scanDone
  <2> QED
    BY <2>1, <2>2, MeanAfter DEF MeanInv
<1>4. CASE timerScan
  <2>1. PICK imu : CanSync /\ syncDone(imu) /\ Process(imu)
    BY <1>4 DEF timerScan
  <2>2. ~lidar_pushed' /\ pushScan
    BY <2>1 DEF syncDone, scanDone
  <2>3. feats_undistort' = feats_undistort \/ feats_undistort' = Paired.lidar
    BY <2>1 DEF Process, noSamples, IMU_init, UndistortPcl
  <2> QED
    BY <2>1, <2>2, <2>3, MeanAfter DEF MeanInv
<1>5. CASE UNCHANGED <<pairing, process>>
  BY <1>1, <1>5 DEF pairing, process, MeanInv
<1>6. syncWaits \/ timerFirstScan \/ timerScan \/ UNCHANGED <<pairing, process>>
  BY DEF Next, timer_callback, Tick, LoopBack, livox_pcl_cbk, imu_cbk, vars
<1> QED
  BY <1>2, <1>3, <1>4, <1>5, <1>6

LEMMA InitMean == Init => MeanInv
BY ScanFacts DEF Init, MeanInv, Known

\* Only a scan of known length is published, under its end, which is that of the front scan.
LEMMA Published ==
    ASSUME Types, MeanInv, OwnTimes, epoch = 0, [Next]_vars, odom' # odom
    PROVE  /\ Done /\ odom'.stamp = Paired.end
           /\ odom'.stamp = lidar_buffer[1].beg + ScanLen
<1>1. timerScan
  <2>1. timerFirstScan => odom' = odom
    BY DEF timerFirstScan
  <2>2. UNCHANGED process => odom' = odom
    BY DEF process
  <2> QED
    BY <2>1, <2>2, Writers
<1>2. PICK imu : CanSync /\ syncDone(imu) /\ Process(imu) /\ register(imu) /\ imu \in {ImuUpTo(Paired.end)}
  BY <1>1 DEF timerScan
<1>3. /\ feats_undistort'.points = "many"
      /\ odom' = [stamp |-> Paired.end, scan |-> feats_undistort', of |-> Paired.lidar,
                  at |-> filter_time', fresh |-> imu # <<>>]
  BY <1>2 DEF register
<1>4. feats_undistort' = feats_undistort \/ feats_undistort' = Paired.lidar
  BY <1>2 DEF Process, noSamples, IMU_init, UndistortPcl
<1>5. Known(feats_undistort.points) \/ Known(Paired.lidar.points)
  BY <1>3, <1>4 DEF Known
<1>6. Paired.end = lidar_buffer[1].beg + ScanLen
  BY <1>2, <1>5, PairedEnd
<1>7. odom'.stamp = Paired.end
  BY <1>3
<1> QED
  BY <1>2, <1>6, <1>7 DEF Done

-----------------------------------------------------------------------------
\* Scans follow each other by their length at least, are over when they arrive, end on the
\* beat of the lidar, and none that waits begins before the odometry published last.
Spaced(s) == \A i, j \in 1..Len(s) : i < j => s[i].beg + ScanLen <= s[j].beg

Before(s, t) == \A i \in 1..Len(s), j \in 1..Len(t) : s[i].beg + ScanLen <= t[j].beg

Within(s, from, to) ==
    \A i \in 1..Len(s) :
       from <= s[i].beg /\ s[i].beg + ScanLen <= to /\ (s[i].beg + ScanLen) % ScanLen = 0

ScanOrder ==
    epoch = 0 =>
       /\ OwnTimes
       /\ Spaced(lidar_buffer) /\ Spaced(lidar_topic) /\ Before(lidar_buffer, lidar_topic)
       /\ \A i \in 1..Len(lidar_topic) : last_timestamp_lidar <= lidar_topic[i].beg
       /\ last_timestamp_lidar = 0 \/ last_timestamp_lidar + ScanLen <= now
       /\ Within(lidar_buffer, odom.stamp, now) /\ Within(lidar_topic, odom.stamp, now)
       /\ odom.stamp <= now /\ odom.stamp % ScanLen = 0

LEMMA BegFacts ==
    ASSUME NEW s \in Seq(Scan)
    PROVE  Len(s) \in Nat /\ \A i \in 1..Len(s) : s[i] \in Scan /\ s[i].beg \in Nat
<1>1. Len(s) \in Nat /\ \A i \in 1..Len(s) : s[i] \in Scan
  BY LenProperties, ElementOfSeq
<1> QED
  BY <1>1, ScanFacts, Times

LEMMA ScanDrops ==
    ASSUME NEW s \in Seq(Scan), NEW t \in Seq(Scan), NEW k \in Nat, Drops(t, s, k),
           NEW from, NEW to
    PROVE  /\ \A i \in 1..Len(t) : i + k \in 1..Len(s) /\ t[i] = s[i + k]
           /\ Spaced(s) => Spaced(t)
           /\ Within(s, from, to) => Within(t, from, to)
<1>1. Len(s) \in Nat /\ Len(t) \in Nat /\ Len(t) = Len(s) - k
  BY BegFacts DEF Drops
<1>2. \A i \in 1..Len(t) : i + k \in 1..Len(s) /\ t[i] = s[i + k]
  BY <1>1 DEF Drops
<1>3. ASSUME Spaced(s), NEW i \in 1..Len(t), NEW j \in 1..Len(t), i < j
      PROVE  t[i].beg + ScanLen <= t[j].beg
  <2>1. /\ i + k \in 1..Len(s) /\ j + k \in 1..Len(s) /\ i + k < j + k
        /\ t[i] = s[i + k] /\ t[j] = s[j + k]
    BY <1>1, <1>2, <1>3
  <2> QED
    BY <1>3, <2>1 DEF Spaced
<1>4. Within(s, from, to) => Within(t, from, to)
  BY <1>2 DEF Within
<1>5. Spaced(s) => Spaced(t)
  BY <1>3 DEF Spaced
<1> QED
  BY <1>2, <1>4, <1>5

LEMMA AddedAt ==
    ASSUME NEW s \in Seq(Scan), NEW t, NEW e, Adds(t, s, e), NEW i \in 1..Len(t)
    PROVE  \/ i \in 1..Len(s) /\ t[i] = s[i]
           \/ i = Len(s) + 1 /\ t[i] = e
<1>1. Len(s) \in Nat /\ Len(t) = Len(s) + 1
  BY BegFacts DEF Adds
<1>2. i \in 1..Len(s) \/ i = Len(s) + 1
  BY <1>1
<1>3. CASE i \in 1..Len(s)
  BY <1>3 DEF Adds
<1>4. CASE i = Len(s) + 1
  BY <1>4 DEF Adds
<1> QED
  BY <1>2, <1>3, <1>4

LEMMA ScanAdds ==
    ASSUME NEW s \in Seq(Scan), NEW t, NEW e \in Scan, Adds(t, s, e),
           Spaced(s), \A i \in 1..Len(s) : s[i].beg + ScanLen <= e.beg,
           NEW from, NEW to, Within(s, from, to),
           from <= e.beg, e.beg + ScanLen <= to, (e.beg + ScanLen) % ScanLen = 0
    PROVE  Spaced(t) /\ Within(t, from, to)
<1>1. Len(s) \in Nat
  BY BegFacts
<1>2. Within(t, from, to)
  BY AddedAt DEF Within
<1>3. ASSUME NEW i \in 1..Len(t), NEW j \in 1..Len(t), i < j
      PROVE  t[i].beg + ScanLen <= t[j].beg
  <2>1. \/ i \in 1..Len(s) /\ t[i] = s[i]
        \/ i = Len(s) + 1 /\ t[i] = e
    BY AddedAt
  <2>2. \/ j \in 1..Len(s) /\ t[j] = s[j]
        \/ j = Len(s) + 1 /\ t[j] = e
    BY AddedAt
  <2>3. i \in 1..Len(s)
    BY <1>1, <1>3, <2>1, <2>2
  <2>4. t[i] = s[i]
    BY <2>3 DEF Adds
  <2>5. CASE j \in 1..Len(s) /\ t[j] = s[j]
    BY <1>3, <2>3, <2>4, <2>5 DEF Spaced
  <2>6. CASE t[j] = e
    BY <2>3, <2>4, <2>6
  <2> QED
    BY <2>2, <2>5, <2>6
<1> QED
  BY <1>2, <1>3 DEF Spaced

LEMMA InitScanOrder == Init => ScanOrder
<1> SUFFICES ASSUME Init PROVE ScanOrder
  OBVIOUS
<1>1. Len(<<>>) = 0
  OBVIOUS
<1>2. odom.stamp = 0 /\ 0 % ScanLen = 0
  <2>1. 0 % ScanLen = 0
    BY Parameters
  <2>2. odom.stamp = 0
    BY DEF Init
  <2> QED
    BY <2>1, <2>2
<1>3. OwnTimes
  BY <1>1 DEF Init, OwnTimes
<1>4. /\ Spaced(lidar_buffer) /\ Spaced(lidar_topic) /\ Before(lidar_buffer, lidar_topic)
      /\ Within(lidar_buffer, odom.stamp, now) /\ Within(lidar_topic, odom.stamp, now)
  BY <1>1 DEF Init, Spaced, Before, Within
<1> QED
  BY <1>1, <1>2, <1>3, <1>4 DEF Init, ScanOrder

\* What the new scan of a tick comes after.
LEMMA NewScan ==
    ASSUME Types, ScanOrder, Tick, epoch = 0, now' % ScanLen = 0
    PROVE  \E e \in Scan, u \in Seq(Scan), k \in Nat :
              /\ Drops(u, lidar_topic, k) /\ Adds(lidar_topic', u, e)
              /\ (e.beg + ScanLen) % ScanLen = 0 /\ e.beg + ScanLen <= now' /\ odom.stamp <= e.beg
              /\ last_timestamp_lidar <= e.beg
              /\ \A i \in 1..Len(lidar_topic) : lidar_topic[i].beg + ScanLen <= e.beg
              /\ \A i \in 1..Len(lidar_buffer) : lidar_buffer[i].beg + ScanLen <= e.beg
<1>1. /\ now' \in Nat /\ now \in Nat /\ now' = now + 1
      /\ now' - ScanLen \in Time /\ now' - ScanLen \in Nat
  BY TickTimes, Times DEF Types
<1>2. PICK p \in Points :
        lidar_topic' = KeepLast(lidar_topic, [epoch |-> epoch, beg |-> now' - ScanLen,
                                              points |-> p], LidarDepth)
  BY DEF Tick
<1>3. PICK e \in Scan : e = [epoch |-> epoch, beg |-> now' - ScanLen, points |-> p]
                          /\ e.beg = now' - ScanLen
  <2>1. PICK b \in Time : b = now' - ScanLen
    BY <1>1
  <2>2. epoch \in 0..MaxEpoch
    BY DEF Types, SensorTypes
  <2>3. PICK c \in 0..MaxEpoch : c = epoch
    BY <2>2
  <2>4. PICK e : e = [epoch |-> c, beg |-> b, points |-> p]
    OBVIOUS
  <2>5. e \in Scan /\ e.beg = b
    BY <2>4, ScanFacts
  <2> QED
    BY <2>1, <2>3, <2>4, <2>5
<1>4. lidar_topic' = KeepLast(lidar_topic, e, LidarDepth)
  BY <1>2, <1>3
<1>5. PICK u \in Seq(Scan), k \in 0..1 : Drops(u, lidar_topic, k) /\ Adds(lidar_topic', u, e)
  BY <1>4, KeepLastFacts, Parameters DEF Types, SensorTypes
<1>6. e.beg + ScanLen = now' /\ e.beg \in Nat
  BY <1>1, <1>3, Parameters
<1>7. ASSUME NEW x \in Nat, x % ScanLen = 0, x <= now PROVE x <= e.beg
  <2>1. x < now'
    BY <1>1, <1>7
  <2>2. x + ScanLen <= now'
    BY <1>1, <1>7, <2>1, Parameters, MultiplesApart
  <2> QED
    BY <1>6, <1>7, <2>2, Parameters
<1>8. odom.stamp <= e.beg
  <2>1. odom.stamp \in Nat
    BY OdometryFacts, Times DEF Types, ProcessTypes
  <2> QED
    BY <1>7, <2>1 DEF ScanOrder
<1>9. last_timestamp_lidar <= e.beg
  <2>1. last_timestamp_lidar \in Nat
    BY Times DEF Types, ScanTypes
  <2>2. last_timestamp_lidar = 0 \/ last_timestamp_lidar + ScanLen <= now
    BY DEF ScanOrder
  <2> QED
    BY <1>1, <1>6, <2>1, <2>2, Parameters
<1>10. ASSUME NEW s \in Seq(Scan), Within(s, odom.stamp, now), NEW i \in 1..Len(s)
       PROVE  s[i].beg + ScanLen <= e.beg
  <2>1. s[i].beg \in Nat
    BY BegFacts
  <2>2. (s[i].beg + ScanLen) % ScanLen = 0 /\ s[i].beg + ScanLen <= now
    BY <1>10 DEF Within
  <2>3. s[i].beg + ScanLen \in Nat
    BY <2>1, Parameters
  <2> QED
    BY <1>7, <2>2, <2>3
<1>11. /\ \A i \in 1..Len(lidar_topic) : lidar_topic[i].beg + ScanLen <= e.beg
       /\ \A i \in 1..Len(lidar_buffer) : lidar_buffer[i].beg + ScanLen <= e.beg
  BY <1>10 DEF Types, SensorTypes, ScanTypes, ScanOrder
<1>12. k \in Nat /\ e.beg + ScanLen <= now' /\ (e.beg + ScanLen) % ScanLen = 0
  <2>1. e.beg + ScanLen = now' /\ now' <= now'
    BY <1>1, <1>6
  <2>2. (e.beg + ScanLen) % ScanLen = 0
    BY <2>1, Zenon
  <2> QED
    BY <2>1, <2>2
<1> QED
  BY <1>5, <1>8, <1>9, <1>11, <1>12

\* OwnTimes by index.
OwnTimesAt(lidar, time, pushed, scan) ==
    /\ Len(time) = Len(lidar)
    /\ \A i \in 1..Len(lidar) : time[i] = lidar[i].beg
    /\ pushed => 1 \in 1..Len(lidar) /\ scan = lidar[1]

LEMMA OwnTimesByIndex ==
    ASSUME NEW lidar \in Seq(Scan), NEW time, NEW pushed, NEW scan
    PROVE  OwnTimesAt(lidar, time, pushed, scan)
             <=> /\ Len(time) = Len(lidar)
                 /\ \A i \in DOMAIN lidar : time[i] = lidar[i].beg
                 /\ pushed => lidar # <<>> /\ scan = Head(lidar)
<1>1. DOMAIN lidar = 1..Len(lidar) /\ Len(lidar) \in Nat
  BY LenProperties
<1>2. lidar # <<>> => 1 \in 1..Len(lidar) /\ Head(lidar) = lidar[1]
  <2>1. lidar # <<>> => Len(lidar) \in Nat \ {0} /\ Head(lidar) = lidar[1]
    BY TailDrops
  <2> QED
    BY <2>1
<1>3. 1 \in 1..Len(lidar) => lidar # <<>>
  BY EmptySeq
<1> QED
  BY <1>1, <1>2, <1>3 DEF OwnTimesAt

LEMMA OwnTimesNow ==
    ASSUME Types
    PROVE  OwnTimes <=> OwnTimesAt(lidar_buffer, time_buffer, lidar_pushed, meas.lidar)
BY OwnTimesByIndex DEF OwnTimes, Types, ScanTypes

LEMMA OwnTimesNext ==
    ASSUME lidar_buffer' \in Seq(Scan)
    PROVE  OwnTimes' <=> OwnTimesAt(lidar_buffer', time_buffer', lidar_pushed', meas'.lidar)
BY OwnTimesByIndex DEF OwnTimes

LEMMA OwnTimesStep ==
    ASSUME Types, [Next]_vars, OwnTimes,
           livox_pcl_cbk => last_timestamp_lidar <= Head(lidar_topic).beg
    PROVE  OwnTimes'
<1>1. /\ OwnTimesAt(lidar_buffer, time_buffer, lidar_pushed, meas.lidar)
      /\ lidar_buffer \in Seq(Scan) /\ Len(lidar_buffer) \in Nat
      /\ lidar_buffer' \in Seq(Scan) /\ Len(lidar_buffer') \in Nat
  BY OwnTimesNow, TypesStep, BegFacts DEF Types, ScanTypes
<1> SUFFICES OwnTimesAt(lidar_buffer', time_buffer', lidar_pushed', meas'.lidar)
  BY <1>1, OwnTimesNext
<1>2. CASE livox_pcl_cbk
  <2>1. PICK s \in Scan :
           /\ s = Head(lidar_topic)
           /\ lidar_buffer' = (IF s.beg < last_timestamp_lidar THEN <<s>>
                               ELSE Append(lidar_buffer, s))
           /\ Adds(time_buffer', time_buffer, s.beg)
    BY <1>2, LidarArrives
  <2>2. s.beg \in Nat /\ last_timestamp_lidar \in Nat
    BY ScanFacts, Times DEF Types, ScanTypes
  <2>3. lidar_buffer' = Append(lidar_buffer, s)
    BY <1>2, <2>1, <2>2
  <2>4. Adds(lidar_buffer', lidar_buffer, s)
    BY <1>1, <2>3, AppendAdds
  <2>5. UNCHANGED <<lidar_pushed, meas>>
    BY <1>2 DEF livox_pcl_cbk, pairing
  <2>6. ASSUME NEW i \in 1..Len(lidar_buffer') PROVE time_buffer'[i] = lidar_buffer'[i].beg
    <3>1. \/ i \in 1..Len(lidar_buffer) /\ lidar_buffer'[i] = lidar_buffer[i]
          \/ i = Len(lidar_buffer) + 1 /\ lidar_buffer'[i] = s
      BY <1>1, <2>4, AddedAt
    <3> QED
      BY <1>1, <2>1, <3>1 DEF Adds, OwnTimesAt
  <2>7. Len(time_buffer') = Len(lidar_buffer')
    BY <1>1, <2>1, <2>4 DEF Adds, OwnTimesAt
  <2>8. lidar_pushed => 1 \in 1..Len(lidar_buffer') /\ meas.lidar = lidar_buffer'[1]
    BY <1>1, <2>4 DEF Adds, OwnTimesAt
  <2> QED
    BY <2>5, <2>6, <2>7, <2>8 DEF OwnTimesAt
<1>3. CASE Done
  <2>1. Drops(lidar_buffer', lidar_buffer, 1) /\ Drops(time_buffer', time_buffer, 1)
    BY <1>3, DoneFacts DEF Done
  <2>2. lidar_pushed' = FALSE
    BY <1>3 DEF Done, syncDone, scanDone
  <2>3. Len(time_buffer') = Len(lidar_buffer')
    BY <1>1, <2>1 DEF Drops, OwnTimesAt
  <2>4. ASSUME NEW i \in 1..Len(lidar_buffer') PROVE time_buffer'[i] = lidar_buffer'[i].beg
    <3>1. i + 1 \in 1..Len(lidar_buffer) /\ i \in 1..Len(time_buffer')
      BY <1>1, <2>1, <2>3 DEF Drops
    <3> QED
      BY <1>1, <2>1, <3>1 DEF Drops, OwnTimesAt
  <2> QED
    BY <2>2, <2>3, <2>4 DEF OwnTimesAt
<1>4. CASE syncWaits
  <2>1. UNCHANGED <<lidar_buffer, time_buffer>> /\ CanSync /\ ~lidar_pushed /\ meas' = Paired
    BY <1>4 DEF syncWaits, buffers
  <2>2. meas'.lidar = lidar_buffer[1] /\ 1 \in 1..Len(lidar_buffer)
    BY <1>1, <2>1, PairedFacts, TailDrops
  <2> QED
    BY <1>1, <2>1, <2>2 DEF OwnTimesAt
<1>5. CASE UNCHANGED <<lidar_buffer, time_buffer, lidar_pushed, meas>>
  BY <1>1, <1>5 DEF OwnTimesAt
<1>6. livox_pcl_cbk \/ Done \/ syncWaits \/ UNCHANGED <<lidar_buffer, time_buffer, lidar_pushed, meas>>
  BY Writers DEF pairing
<1> QED
  BY <1>2, <1>3, <1>4, <1>5, <1>6

LEMMA WithinLater ==
    ASSUME NEW s \in Seq(Scan), NEW from, NEW to \in Nat, Within(s, from, to)
    PROVE  Within(s, from, to + 1)
<1> SUFFICES ASSUME NEW i \in 1..Len(s) PROVE s[i].beg + ScanLen <= to + 1
  BY DEF Within
<1>1. s[i].beg \in Nat /\ s[i].beg + ScanLen <= to
  BY BegFacts DEF Within
<1> QED
  BY <1>1, Parameters

LEMMA ScanOrderStep == Types /\ MeanInv /\ ScanOrder /\ [Next]_vars => ScanOrder'
<1> SUFFICES ASSUME Types, MeanInv, ScanOrder, [Next]_vars, epoch' = 0
             PROVE  /\ OwnTimes'
                    /\ Spaced(lidar_buffer') /\ Spaced(lidar_topic')
                    /\ Before(lidar_buffer', lidar_topic')
                    /\ \A i \in 1..Len(lidar_topic') : last_timestamp_lidar' <= lidar_topic'[i].beg
                    /\ last_timestamp_lidar' = 0 \/ last_timestamp_lidar' + ScanLen <= now'
                    /\ Within(lidar_buffer', odom'.stamp, now')
                    /\ Within(lidar_topic', odom'.stamp, now')
                    /\ odom'.stamp <= now' /\ odom'.stamp % ScanLen = 0
  BY DEF ScanOrder, Spaced, Before, Within
<1>1. epoch = 0 /\ (Tick \/ UNCHANGED now)
  BY FirstEpoch
<1>2. /\ OwnTimes
      /\ Spaced(lidar_buffer) /\ Spaced(lidar_topic) /\ Before(lidar_buffer, lidar_topic)
      /\ \A i \in 1..Len(lidar_topic) : last_timestamp_lidar <= lidar_topic[i].beg
      /\ last_timestamp_lidar = 0 \/ last_timestamp_lidar + ScanLen <= now
      /\ Within(lidar_buffer, odom.stamp, now) /\ Within(lidar_topic, odom.stamp, now)
      /\ odom.stamp <= now /\ odom.stamp % ScanLen = 0
  BY <1>1 DEF ScanOrder
<1>3. /\ lidar_buffer \in Seq(Scan) /\ lidar_topic \in Seq(Scan)
      /\ lidar_buffer' \in Seq(Scan) /\ lidar_topic' \in Seq(Scan)
  BY TypesStep DEF Types, ScanTypes, SensorTypes
<1>4. /\ Len(lidar_topic) \in Nat /\ \A i \in 1..Len(lidar_topic) : lidar_topic[i].beg \in Nat
      /\ Len(lidar_buffer) \in Nat /\ \A i \in 1..Len(lidar_buffer) : lidar_buffer[i].beg \in Nat
  BY <1>3, BegFacts
<1>5. odom.stamp \in Nat /\ last_timestamp_lidar \in Nat /\ now \in Nat /\ ScanLen \in Nat
  BY OdometryFacts, Times, Parameters DEF Types, SensorTypes, ScanTypes, ProcessTypes
<1>6. OwnTimes'
  <2>1. livox_pcl_cbk => last_timestamp_lidar <= Head(lidar_topic).beg
    <3>1. livox_pcl_cbk => Len(lidar_topic) \in Nat \ {0} /\ Head(lidar_topic) = lidar_topic[1]
      BY LidarArrives
    <3> QED
      BY <1>2, <3>1
  <2> QED
    BY <1>2, <2>1, OwnTimesStep
<1>7. CASE Tick
  <2>1. /\ UNCHANGED <<lidar_buffer, last_timestamp_lidar, odom>>
        /\ now' = now + 1
    BY <1>7 DEF Tick, buffers, process
  <2>2. /\ last_timestamp_lidar = 0 \/ last_timestamp_lidar + ScanLen <= now'
        /\ odom.stamp <= now'
    BY <1>2, <1>5, <2>1
  <2>3. Within(lidar_buffer, odom.stamp, now') /\ Within(lidar_topic, odom.stamp, now')
    BY <1>2, <1>3, <1>5, <2>1, WithinLater
  <2>4. CASE now' % ScanLen # 0
    <3>1. lidar_topic' = lidar_topic
      BY <1>7, <2>4 DEF Tick
    <3> QED
      BY <1>2, <1>6, <2>1, <2>2, <2>3, <3>1
  <2>5. CASE now' % ScanLen = 0
    <3>1. PICK e \in Scan, u \in Seq(Scan), k \in Nat :
             /\ Drops(u, lidar_topic, k) /\ Adds(lidar_topic', u, e)
             /\ (e.beg + ScanLen) % ScanLen = 0 /\ e.beg + ScanLen <= now' /\ odom.stamp <= e.beg
             /\ last_timestamp_lidar <= e.beg
             /\ \A i \in 1..Len(lidar_topic) : lidar_topic[i].beg + ScanLen <= e.beg
             /\ \A i \in 1..Len(lidar_buffer) : lidar_buffer[i].beg + ScanLen <= e.beg
      BY <1>1, <1>7, <2>5, NewScan
    <3>2. /\ Spaced(u) /\ Within(u, odom.stamp, now')
          /\ \A i \in 1..Len(u) : i + k \in 1..Len(lidar_topic) /\ u[i] = lidar_topic[i + k]
      BY <1>2, <1>3, <2>3, <3>1, ScanDrops
    <3>3. \A i \in 1..Len(u) : u[i].beg + ScanLen <= e.beg
      BY <3>1, <3>2
    <3>4. Spaced(lidar_topic') /\ Within(lidar_topic', odom.stamp, now')
      BY <3>1, <3>2, <3>3, ScanAdds
    <3>5. ASSUME NEW j \in 1..Len(lidar_topic')
          PROVE  lidar_topic'[j] = e \/ \E i \in 1..Len(lidar_topic) : lidar_topic'[j] = lidar_topic[i]
      BY <3>1, <3>2, AddedAt
    <3>6. \A i \in 1..Len(lidar_topic') : last_timestamp_lidar <= lidar_topic'[i].beg
      BY <1>2, <3>1, <3>5
    <3>7. Before(lidar_buffer, lidar_topic')
      <4> SUFFICES ASSUME NEW i \in 1..Len(lidar_buffer), NEW j \in 1..Len(lidar_topic')
                   PROVE  lidar_buffer[i].beg + ScanLen <= lidar_topic'[j].beg
        BY DEF Before
      <4> QED
        BY <1>2, <3>1, <3>5 DEF Before
    <3> QED
      BY <1>2, <1>6, <2>1, <2>2, <2>3, <3>4, <3>6, <3>7
  <2> QED
    BY <2>4, <2>5
<1>8. CASE livox_pcl_cbk
  <2>1. PICK s \in Scan :
           /\ s = lidar_topic[1] /\ Len(lidar_topic) \in Nat \ {0}
           /\ Drops(lidar_topic', lidar_topic, 1)
           /\ lidar_buffer' = (IF s.beg < last_timestamp_lidar THEN <<s>>
                               ELSE Append(lidar_buffer, s))
           /\ last_timestamp_lidar' = s.beg
    BY <1>8, LidarArrives
  <2>2. UNCHANGED <<now, odom>>
    BY <1>8 DEF livox_pcl_cbk, sensors, process
  <2>3. 1 \in 1..Len(lidar_topic) /\ s.beg \in Nat /\ last_timestamp_lidar <= s.beg
    BY <1>2, <1>4, <2>1
  <2>4. Adds(lidar_buffer', lidar_buffer, s)
    BY <1>3, <1>5, <2>1, <2>3, AppendAdds
  <2>5. /\ odom.stamp <= s.beg /\ s.beg + ScanLen <= now /\ (s.beg + ScanLen) % ScanLen = 0
        /\ \A i \in 1..Len(lidar_buffer) : lidar_buffer[i].beg + ScanLen <= s.beg
    BY <1>2, <2>1, <2>3 DEF Within, Before
  <2>6. Spaced(lidar_buffer') /\ Within(lidar_buffer', odom.stamp, now)
    BY <1>2, <1>3, <2>4, <2>5, ScanAdds
  <2>7. /\ Spaced(lidar_topic') /\ Within(lidar_topic', odom.stamp, now)
        /\ \A i \in 1..Len(lidar_topic') :
              i + 1 \in 1..Len(lidar_topic) /\ lidar_topic'[i] = lidar_topic[i + 1]
    BY <1>2, <1>3, <2>1, ScanDrops
  <2>8. ASSUME NEW j \in 1..Len(lidar_topic') PROVE s.beg + ScanLen <= lidar_topic'[j].beg
    <3>1. /\ j + 1 \in 1..Len(lidar_topic) /\ lidar_topic'[j] = lidar_topic[j + 1] /\ 1 < j + 1
      BY <1>3, <2>7
    <3> QED
      BY <1>2, <2>1, <2>3, <3>1 DEF Spaced
  <2>9. \A i \in 1..Len(lidar_topic') : s.beg <= lidar_topic'[i].beg
    <3> TAKE i \in 1..Len(lidar_topic')
    <3>1. s.beg + ScanLen <= lidar_topic'[i].beg /\ lidar_topic'[i].beg \in Nat
      BY <1>3, <2>8, BegFacts
    <3> QED
      BY <1>5, <2>3, <3>1
  <2>10. Before(lidar_buffer', lidar_topic')
    <3> SUFFICES ASSUME NEW i \in 1..Len(lidar_buffer'), NEW j \in 1..Len(lidar_topic')
                 PROVE  lidar_buffer'[i].beg + ScanLen <= lidar_topic'[j].beg
      BY DEF Before
    <3>1. \/ i \in 1..Len(lidar_buffer) /\ lidar_buffer'[i] = lidar_buffer[i]
          \/ i = Len(lidar_buffer) + 1 /\ lidar_buffer'[i] = s
      BY <1>3, <2>4, AddedAt
    <3>2. j + 1 \in 1..Len(lidar_topic) /\ lidar_topic'[j] = lidar_topic[j + 1]
      BY <2>7
    <3> QED
      BY <1>2, <2>8, <3>1, <3>2 DEF Before
  <2> QED
    BY <1>2, <1>6, <2>1, <2>2, <2>5, <2>6, <2>7, <2>9, <2>10
<1>9. CASE Done
  <2>1. Drops(lidar_buffer', lidar_buffer, 1) /\ Len(lidar_buffer) \in Nat \ {0}
    BY <1>3, <1>9, DoneFacts, PairedFacts, TailDrops DEF Done
  <2>2. UNCHANGED <<now, lidar_topic, last_timestamp_lidar>>
    BY <1>9 DEF Done, syncDone, sensors
  <2>3. /\ Spaced(lidar_buffer') /\ Within(lidar_buffer', odom.stamp, now)
        /\ \A i \in 1..Len(lidar_buffer') :
              i + 1 \in 1..Len(lidar_buffer) /\ lidar_buffer'[i] = lidar_buffer[i + 1]
    BY <1>2, <1>3, <2>1, ScanDrops
  <2>4. Before(lidar_buffer', lidar_topic)
    BY <1>2, <2>3 DEF Before
  <2>5. CASE odom' = odom
    BY <1>2, <1>6, <2>2, <2>3, <2>4, <2>5
  <2>6. CASE odom' # odom
    <3>1. odom'.stamp = lidar_buffer[1].beg + ScanLen
      BY <1>1, <1>2, <2>6, Published
    <3>2. 1 \in 1..Len(lidar_buffer)
      BY <2>1
    <3>3. odom'.stamp <= now /\ odom'.stamp % ScanLen = 0
      BY <1>2, <3>1, <3>2 DEF Within
    <3>4. Within(lidar_topic, odom'.stamp, now)
      BY <1>2, <3>1, <3>2 DEF Within, Before
    <3>5. Within(lidar_buffer', odom'.stamp, now)
      <4> SUFFICES ASSUME NEW i \in 1..Len(lidar_buffer') PROVE odom'.stamp <= lidar_buffer'[i].beg
        BY <2>3 DEF Within
      <4>1. /\ i + 1 \in 1..Len(lidar_buffer) /\ lidar_buffer'[i] = lidar_buffer[i + 1]
            /\ 1 < i + 1
        BY <1>3, <2>3
      <4> QED
        BY <1>2, <3>1, <3>2, <4>1 DEF Spaced
    <3> QED
      BY <1>2, <1>6, <2>2, <2>3, <2>4, <3>3, <3>4, <3>5
  <2> QED
    BY <2>5, <2>6
<1>10. CASE UNCHANGED <<now, lidar_topic, lidar_buffer, last_timestamp_lidar, odom>>
  BY <1>2, <1>6, <1>10
<1>11. \/ Tick \/ livox_pcl_cbk \/ Done
       \/ UNCHANGED <<now, lidar_topic, lidar_buffer, last_timestamp_lidar, odom>>
  <2>1. odom' # odom => Done
    BY <1>1, <1>2, Published
  <2> QED
    BY <1>1, <2>1, Writers
<1> QED
  BY <1>7, <1>8, <1>9, <1>10, <1>11

Order == Types /\ MeanInv /\ ScanOrder /\ ImuOrder

LEMMA InitOrder == Init => Order
<1> SUFFICES ASSUME Init PROVE Order
  OBVIOUS
<1>1. Len(<<>>) = 0
  OBVIOUS
<1>2. ImuOrder
  BY <1>1 DEF Init, ImuOrder, Sorted
<1> QED
  BY <1>2, InitTypes, InitMean, InitScanOrder DEF Order

LEMMA OrderStep == Order /\ [Next]_vars => Order'
BY TypesStep, MeanStep, ScanOrderStep, ImuOrderStep DEF Order, ScanOrder

LEMMA OrderCorrect == Spec => []Order
BY InitOrder, OrderStep, PTL DEF Spec

\* Every scan is paired with its own time until the clock of the lidar goes back, whatever the
\* topics drop and however long a scan waits for its samples: livox_pcl_cbk adds to both
\* buffers and sync_packages takes from both, because no scan arrives that is older than the
\* last one.
THEOREM OwnTime == Spec => []PairsOwnTime
<1>1. Order => PairsOwnTime
  BY DEF Order, ScanOrder, PairsOwnTime
<1> QED
  BY <1>1, OrderCorrect, PTL

\* Odometry is published with increasing stamps until the clock goes back, and so each scan at
\* most once: publish_odometry is reached only with a scan whose length is known, which ends
\* after the one published last, since scans are at least their length apart.
THEOREM StampsAdvance == Spec => StampsIncrease
<1>1. Order /\ [Next]_vars => [epoch = 0 /\ odom' # odom => odom'.stamp > odom.stamp]_vars
  <2> SUFFICES ASSUME Order, [Next]_vars, epoch = 0, odom' # odom
               PROVE  odom'.stamp > odom.stamp
    OBVIOUS
  <2>1. Types /\ MeanInv /\ OwnTimes /\ Within(lidar_buffer, odom.stamp, now)
    BY DEF Order, ScanOrder
  <2>2. CanSync /\ odom'.stamp = lidar_buffer[1].beg + ScanLen
    BY <2>1, Published DEF Done
  <2>3. lidar_buffer \in Seq(Scan) /\ 1 \in 1..Len(lidar_buffer)
    BY <2>1, <2>2, PairedFacts, TailDrops DEF Types, ScanTypes
  <2>4. lidar_buffer[1].beg \in Nat /\ odom.stamp <= lidar_buffer[1].beg
    BY <2>1, <2>3, BegFacts DEF Within
  <2>5. odom.stamp \in Nat
    BY <2>1, OdometryFacts, Times DEF Types, ProcessTypes
  <2> QED
    BY <2>2, <2>4, <2>5, Parameters
<1> QED
  BY <1>1, OrderCorrect, PTL DEF Spec, StampsIncrease

-----------------------------------------------------------------------------
\* The filter stands at the end of the last scan it took, once there is a map to register a
\* scan to, and no sample that waits is before that end.
FilterInv ==
    /\ imu_need_init => feats_undistort.points = "none" /\ ~ikdtree
    /\ feats_undistort.points = "many" => ikdtree
    /\ epoch = 0 /\ ikdtree =>
          /\ filter_time = last_lidar_end_time
          /\ last_imu <= last_lidar_end_time
          /\ last_lidar_end_time <= last_timestamp_imu
          /\ \A i \in 1..Len(imu_buffer) : last_lidar_end_time <= imu_buffer[i]

\* Process when it undistorts a scan.
LEMMA Undistorted ==
    ASSUME Types, FilterInv, CanSync, NEW imu, syncDone(imu), UndistortPcl(imu), epoch = 0
    PROVE  /\ filter_time' = Paired.end /\ last_lidar_end_time' = Paired.end
           /\ last_imu' <= Paired.end /\ Paired.end <= last_timestamp_imu
           /\ \A i \in 1..Len(imu_buffer') : Paired.end <= imu_buffer'[i]
<1>1. /\ imu # <<>> /\ last_imu' = Last(imu) /\ last_lidar_end_time' = Paired.end
      /\ filter_time' = IF ikdtree THEN filter_time + Propagated(imu, Paired.end) ELSE Paired.end
  BY DEF UndistortPcl
<1>2. /\ imu \in Seq(Nat) /\ Sorted(imu) /\ Last(imu) <= Paired.end
      /\ imu[1] = imu_buffer[1] /\ 1 \in 1..Len(imu_buffer)
  BY <1>1, SampleFacts
<1>3. PICK end \in Nat : end = Paired.end
  BY PairedFacts
<1>4. last_imu \in Nat /\ last_lidar_end_time \in Nat
  BY Times, Parameters DEF Types, ProcessTypes
<1>5. filter_time' = end
  <2>1. CASE ikdtree
    <3>1. /\ filter_time = last_lidar_end_time /\ last_imu <= last_lidar_end_time
          /\ last_lidar_end_time <= imu[1]
      BY <1>2, <2>1 DEF FilterInv
    <3>2. Propagated(imu, end) = end - last_lidar_end_time
      BY <1>1, <1>2, <1>3, <1>4, <3>1, PropagatedToEnd
    <3> QED
      BY <1>1, <1>3, <1>4, <2>1, <3>1, <3>2
  <2>2. CASE ~ikdtree
    BY <1>1, <1>3, <2>2
  <2> QED
    BY <2>1, <2>2
<1>6. Paired.end <= last_timestamp_imu
  <2>1. last_timestamp_imu >= Paired.end
    BY DEF syncDone, ImuReached
  <2> QED
    BY <1>3, <2>1, StampType DEF Types
<1> QED
  BY <1>1, <1>2, <1>3, <1>5, <1>6, DoneFacts

LEMMA FilterStep == Order /\ FilterInv /\ [Next]_vars => FilterInv'
<1> SUFFICES ASSUME Order, FilterInv, [Next]_vars PROVE FilterInv'
  OBVIOUS
<1>1. Types /\ (epoch' = 0 => epoch = 0)
  BY FirstEpoch DEF Order
<1>2. /\ imu_buffer \in Seq(Nat) /\ Len(imu_buffer) \in Nat
      /\ \A i \in 1..Len(imu_buffer) : imu_buffer[i] \in Nat
      /\ last_lidar_end_time \in Nat /\ last_timestamp_imu \in Int
      /\ init_iter_num \in Nat /\ MAX_INI_COUNT \in Nat
  BY <1>1, NatTimes, LenProperties, ElementOfSeq, StampType, Times, Parameters,
     LaserMappingAssumption DEF Types, ImuTypes, ProcessTypes
\* The filter's own variables do not change: only the samples that wait do.
<1>3. ASSUME UNCHANGED process,
             epoch = 0 /\ ikdtree =>
                /\ last_lidar_end_time <= last_timestamp_imu'
                /\ \A i \in 1..Len(imu_buffer') : last_lidar_end_time <= imu_buffer'[i]
      PROVE  FilterInv'
  BY <1>1, <1>3 DEF FilterInv, imu_need_init, process
<1>4. CASE UNCHANGED <<process, imu_buffer, last_timestamp_imu>>
  BY <1>3, <1>4 DEF FilterInv
<1>5. CASE imu_cbk
  <2>1. PICK t \in Time :
           /\ t = imu_topic[1] /\ Len(imu_topic) \in Nat \ {0}
           /\ last_timestamp_imu' = t
           /\ t < last_timestamp_imu => Len(imu_buffer') = 1 /\ imu_buffer'[1] = t
           /\ ~(t < last_timestamp_imu) => Adds(imu_buffer', imu_buffer, t)
    BY <1>1, <1>5, ImuArrives
  <2>2. ASSUME epoch = 0, ikdtree
        PROVE  /\ last_lidar_end_time <= last_timestamp_imu'
               /\ \A i \in 1..Len(imu_buffer') : last_lidar_end_time <= imu_buffer'[i]
    <3>1. 1 \in 1..Len(imu_topic) /\ t \in Nat
      BY <2>1, Times
    <3>2. last_timestamp_imu <= t
      BY <2>1, <2>2, <3>1 DEF Order, ImuOrder
    <3>3. last_lidar_end_time <= t
      BY <1>2, <2>2, <3>1, <3>2 DEF FilterInv
    <3>4. Adds(imu_buffer', imu_buffer, t)
      BY <1>2, <2>1, <3>1, <3>2
    <3>5. ASSUME NEW i \in 1..Len(imu_buffer') PROVE last_lidar_end_time <= imu_buffer'[i]
      <4>1. i \in 1..Len(imu_buffer) \/ i = Len(imu_buffer) + 1
        BY <1>2, <3>4 DEF Adds
      <4>2. CASE i \in 1..Len(imu_buffer)
        BY <2>2, <3>4, <4>2 DEF Adds, FilterInv
      <4>3. CASE i = Len(imu_buffer) + 1
        BY <3>3, <3>4, <4>3 DEF Adds
      <4> QED
        BY <4>1, <4>2, <4>3
    <3> QED
      BY <2>1, <3>3, <3>5
  <2>3. UNCHANGED process
    BY <1>5 DEF imu_cbk
  <2> QED
    BY <1>3, <2>2, <2>3
\* Samples that are left were there before.
<1>6. ASSUME Done
      PROVE  /\ UNCHANGED last_timestamp_imu
             /\ \A i \in 1..Len(imu_buffer') :
                   \E j \in 1..Len(imu_buffer) : imu_buffer'[i] = imu_buffer[j]
  <2>1. PICK n \in 0..Len(imu_buffer) : Drops(imu_buffer', imu_buffer, n)
    BY <1>1, <1>6, DoneFacts DEF Done
  <2>2. ASSUME NEW i \in 1..Len(imu_buffer')
        PROVE  i + n \in 1..Len(imu_buffer) /\ imu_buffer'[i] = imu_buffer[i + n]
    BY <1>2, <2>1 DEF Drops
  <2>3. UNCHANGED last_timestamp_imu
    BY <1>6 DEF Done, syncDone
  <2> QED
    BY <2>2, <2>3
<1>7. CASE timerFirstScan
  <2>1. Done
    BY <1>7 DEF timerFirstScan, Done
  <2>2. UNCHANGED <<init_iter_num, last_imu, last_lidar_end_time, filter_time, feats_undistort,
                    ikdtree, odom>>
    BY <1>7 DEF timerFirstScan
  <2> QED
    BY <1>1, <1>6, <2>1, <2>2 DEF FilterInv, imu_need_init
<1>8. CASE timerScan
  <2>1. PICK imu : /\ CanSync /\ syncDone(imu) /\ Process(imu) /\ register(imu)
                   /\ imu \in {ImuUpTo(Paired.end)}
    BY <1>8 DEF timerScan
  <2>2. Done
    BY <2>1 DEF Done
  <2>3. ikdtree' = (ikdtree \/ feats_undistort'.points = "many")
    BY <1>1, <2>1 DEF register, Types, ProcessTypes
  <2>4. CASE UndistortPcl(imu)
    <3>1. ~imu_need_init /\ init_iter_num' = init_iter_num
      BY <2>4 DEF UndistortPcl
    <3>2. epoch = 0 =>
             /\ filter_time' = Paired.end /\ last_lidar_end_time' = Paired.end
             /\ last_imu' <= Paired.end /\ Paired.end <= last_timestamp_imu'
             /\ \A i \in 1..Len(imu_buffer') : Paired.end <= imu_buffer'[i]
      BY <1>1, <1>6, <2>1, <2>2, <2>4, Undistorted
    <3> QED
      BY <1>1, <2>3, <3>1, <3>2 DEF FilterInv, imu_need_init
  <2>5. CASE noSamples(imu) \/ IMU_init(imu)
    <3>1. /\ UNCHANGED <<last_lidar_end_time, filter_time, feats_undistort>>
          /\ imu_need_init' => imu_need_init
      <4>1. Len(imu) \in Nat
        BY <1>1, <2>1, SampleFacts
      <4> QED
        BY <1>2, <2>5, <4>1 DEF noSamples, IMU_init, imu_need_init
    <3>2. ikdtree' = ikdtree
      BY <1>1, <2>3, <3>1 DEF FilterInv, Types, ProcessTypes
    <3>3. ikdtree => last_imu' = last_imu
      BY <2>5 DEF noSamples, IMU_init, FilterInv
    <3> QED
      BY <1>1, <1>6, <2>2, <3>1, <3>2, <3>3 DEF FilterInv
  <2> QED
    BY <2>1, <2>4, <2>5 DEF Process
<1>9. \/ UNCHANGED <<process, imu_buffer, last_timestamp_imu>>
      \/ imu_cbk \/ timerFirstScan \/ timerScan
  BY DEF Next, timer_callback, Tick, LoopBack, livox_pcl_cbk, syncWaits, vars, buffers
<1> QED
  BY <1>4, <1>5, <1>7, <1>8, <1>9

LEMMA InitFilter == Init => FilterInv
BY ScanFacts DEF Init, FilterInv

\* What was published last.
LEMMA TruthStep == Order /\ FilterInv /\ OdometryTruthful /\ [Next]_vars => OdometryTruthful'
<1> SUFFICES ASSUME Order, FilterInv, OdometryTruthful, [Next]_vars PROVE OdometryTruthful'
  OBVIOUS
<1>1. Types /\ (epoch' = 0 => epoch = 0)
  BY FirstEpoch DEF Order
<1>2. CASE odom' = odom
  BY <1>1, <1>2 DEF OdometryTruthful
<1>3. CASE odom' # odom
  <2>1. timerScan
    BY <1>3, Writers DEF timerFirstScan, process
  <2>2. PICK imu : CanSync /\ syncDone(imu) /\ Process(imu) /\ register(imu)
    BY <2>1 DEF timerScan
  <2>3. /\ feats_undistort'.points = "many"
        /\ odom' = [stamp |-> Paired.end, scan |-> feats_undistort', of |-> Paired.lidar,
                    at |-> filter_time', fresh |-> imu # <<>>]
    BY <1>3, <2>2 DEF register
  <2>4. /\ odom'.stamp = Paired.end /\ odom'.scan = feats_undistort' /\ odom'.of = Paired.lidar
        /\ odom'.at = filter_time' /\ odom'.fresh = (imu # <<>>)
    BY <2>3
  <2>5. ASSUME imu # <<>> PROVE UndistortPcl(imu)
    <3>1. ~noSamples(imu)
      BY <2>5 DEF noSamples
    <3>2. ~IMU_init(imu)
      BY <2>3 DEF IMU_init, FilterInv
    <3> QED
      BY <2>2, <3>1, <3>2 DEF Process
  <2>6. ASSUME epoch = 0, imu # <<>>
        PROVE  feats_undistort' = Paired.lidar /\ filter_time' = Paired.end
    BY <1>1, <2>2, <2>5, <2>6, Undistorted DEF UndistortPcl
  <2> QED
    BY <1>1, <2>4, <2>6 DEF OdometryTruthful
<1> QED
  BY <1>2, <1>3

\* An odometry published for a scan that had samples is of that scan, and the filter was
\* propagated exactly to its stamp: what UndistortPcl adds up from the samples, the interval
\* that a scan's end falls into being taken in two parts, is the time between two ends, also
\* over scans without samples.
THEOREM Truthful == Spec => []OdometryTruthful
<1>1. Init => Order /\ FilterInv /\ OdometryTruthful
  BY InitOrder, InitFilter DEF Init, OdometryTruthful
<1>2. Order /\ FilterInv /\ OdometryTruthful /\ [Next]_vars
        => (Order /\ FilterInv /\ OdometryTruthful)'
  BY OrderStep, FilterStep, TruthStep
<1> QED
  BY <1>1, <1>2, PTL DEF Spec

-----------------------------------------------------------------------------
\* No sample from before a time waits, and none will come.
NoneBefore(t) ==
    /\ t <= now
    /\ \A i \in 1..Len(imu_buffer) : t <= imu_buffer[i]
    /\ \A i \in 1..Len(imu_topic) : t <= imu_topic[i]

LEMMA NoneBeforeStays ==
    ASSUME Types, ImuOrder, [Next]_vars, epoch' = 0, NEW t \in Nat, NoneBefore(t)
    PROVE  NoneBefore(t)'
<1>1. /\ epoch = 0 /\ (Tick \/ UNCHANGED now)
      /\ now \in Nat /\ Len(imu_buffer) \in Nat /\ Len(imu_topic) \in Nat
  BY FirstEpoch, Times, LenProperties DEF Types, SensorTypes, ImuTypes
<1>2. t <= now'
  BY <1>1, TickTimes DEF NoneBefore, Types
<1>3. ASSUME NEW i \in 1..Len(imu_buffer') PROVE t <= imu_buffer'[i]
  <2>1. CASE imu_cbk
    <3>1. PICK s \in Time :
             /\ s = imu_topic[1] /\ Len(imu_topic) \in Nat \ {0}
             /\ s < last_timestamp_imu => Len(imu_buffer') = 1 /\ imu_buffer'[1] = s
             /\ ~(s < last_timestamp_imu) => Adds(imu_buffer', imu_buffer, s)
      BY <2>1, ImuArrives
    <3>2. t <= s
      BY <3>1 DEF NoneBefore
    <3>3. CASE s < last_timestamp_imu
      BY <1>3, <3>1, <3>2, <3>3
    <3>4. CASE ~(s < last_timestamp_imu)
      BY <1>1, <1>3, <3>1, <3>2, <3>4 DEF Adds, NoneBefore
    <3> QED
      BY <3>3, <3>4
  <2>2. CASE Done
    <3>1. PICK n \in 0..Len(imu_buffer) : Drops(imu_buffer', imu_buffer, n)
      BY <2>2, DoneFacts DEF Done
    <3>2. i + n \in 1..Len(imu_buffer) /\ imu_buffer'[i] = imu_buffer[i + n]
      BY <1>1, <1>3, <3>1 DEF Drops
    <3> QED
      BY <3>2 DEF NoneBefore
  <2>3. CASE UNCHANGED imu_buffer
    BY <1>3, <2>3 DEF NoneBefore
  <2> QED
    BY <2>1, <2>2, <2>3, Writers
<1>4. ASSUME NEW i \in 1..Len(imu_topic') PROVE t <= imu_topic'[i]
  <2>1. CASE Tick
    <3>1. CASE now' % ImuPeriod = 0
      <4>1. imu_topic' = KeepLast(imu_topic, now', ImuDepth) /\ now' \in Time
        BY <2>1, <3>1, TickTimes DEF Tick, Types
      <4>2. imu_topic \in Seq(Time) /\ Len(imu_topic) <= ImuDepth
        BY DEF Types, SensorTypes
      <4>3. PICK u \in Seq(Time), k \in 0..1 :
               k <= Len(imu_topic) /\ Drops(u, imu_topic, k) /\ Adds(imu_topic', u, now')
        BY <4>1, <4>2, KeepLastFacts, Parameters
      <4>4. Len(u) \in Nat
        BY LenProperties
      <4>5. CASE i = Len(u) + 1
        BY <1>2, <4>3, <4>5 DEF Adds
      <4>6. CASE i \in 1..Len(u)
        <5>1. i + k \in 1..Len(imu_topic) /\ u[i] = imu_topic[i + k]
          BY <1>1, <4>3, <4>4, <4>6 DEF Drops
        <5> QED
          BY <4>3, <4>6, <5>1 DEF Adds, NoneBefore
      <4> QED
        BY <1>4, <4>3, <4>4, <4>5, <4>6 DEF Adds
    <3>2. CASE now' % ImuPeriod # 0
      BY <1>4, <2>1, <3>2 DEF Tick, NoneBefore
    <3> QED
      BY <3>1, <3>2
  <2>2. CASE imu_cbk
    <3>1. Drops(imu_topic', imu_topic, 1) /\ imu_topic' \in Seq(Time)
      BY <2>2, ImuArrives
    <3>2. i + 1 \in 1..Len(imu_topic) /\ imu_topic'[i] = imu_topic[i + 1]
      BY <1>1, <1>4, <3>1 DEF Drops
    <3> QED
      BY <3>2 DEF NoneBefore
  <2>3. CASE UNCHANGED imu_topic
    BY <1>4, <2>3 DEF NoneBefore
  <2> QED
    BY <2>1, <2>2, <2>3, Writers
<1> QED
  BY <1>2, <1>3, <1>4 DEF NoneBefore

\* sync_packages hands a scan over when the sample at its end or past it is there: the ones
\* before its end are taken, and what is on the topic is later.
LEMMA NoneBeforeTheEnd ==
    ASSUME Types, ImuOrder, epoch = 0, Done
    PROVE  Paired.end \in Nat /\ \A e \in Nat : e = Paired.end => NoneBefore(e)'
<1> SUFFICES ASSUME NEW e \in Nat, e = Paired.end PROVE NoneBefore(e)'
  BY PairedFacts DEF Done
<1>1. /\ \A i \in 1..Len(imu_buffer') : e <= imu_buffer'[i]
      /\ UNCHANGED <<now, imu_topic>>
      /\ last_timestamp_imu >= e
  BY DoneFacts DEF Done, syncDone, ImuReached, sensors
<1>2. PICK l \in Int : l = last_timestamp_imu
  BY StampType DEF Types
<1>3. now \in Nat /\ \A i \in 1..Len(imu_topic) : imu_topic[i] \in Nat
  BY Times, ElementOfSeq DEF Types, SensorTypes
<1>4. l <= now /\ \A i \in 1..Len(imu_topic) : l <= imu_topic[i]
  BY <1>2 DEF ImuOrder
<1>5. e <= now /\ \A i \in 1..Len(imu_topic) : e <= imu_topic[i]
  BY <1>1, <1>2, <1>3, <1>4
<1> QED
  BY <1>1, <1>5 DEF NoneBefore

CompleteInv ==
    epoch = 0 => NoneBefore(odom.stamp) /\ (~lidar_pushed => NoneBefore(meas.end))

LEMMA CompleteStep == Order /\ CompleteInv /\ [Next]_vars => CompleteInv'
<1> SUFFICES ASSUME Order, CompleteInv, [Next]_vars, epoch' = 0
             PROVE  NoneBefore(odom.stamp)' /\ (~lidar_pushed' => NoneBefore(meas.end)')
  BY DEF CompleteInv
<1>1. /\ Types /\ ImuOrder /\ epoch = 0 /\ MeanInv /\ OwnTimes
      /\ odom.stamp \in Nat /\ meas.end \in Nat
  BY FirstEpoch, OdometryFacts, MeasuresFacts, Times
     DEF Order, ScanOrder, Types, PairTypes, ProcessTypes
<1>2. PICK s \in Nat : s = odom.stamp
  BY <1>1
<1>3. PICK m \in Nat : m = meas.end
  BY <1>1
<1>4. NoneBefore(s)' /\ (~lidar_pushed => NoneBefore(m)')
  <2>1. NoneBefore(s) /\ (~lidar_pushed => NoneBefore(m))
    BY <1>1, <1>2, <1>3 DEF CompleteInv
  <2> QED
    BY <1>1, <2>1, NoneBeforeStays
<1>5. ASSUME Done PROVE \E e \in Nat : e = Paired.end /\ NoneBefore(e)'
  BY <1>1, <1>5, NoneBeforeTheEnd
<1>6. NoneBefore(odom.stamp)'
  <2>1. CASE odom' = odom
    BY <1>2, <1>4, <2>1 DEF NoneBefore
  <2>2. CASE odom' # odom
    <3>1. Done /\ odom'.stamp = Paired.end
      BY <1>1, <2>2, Published
    <3> QED
      BY <1>5, <3>1 DEF NoneBefore
  <2> QED
    BY <2>1, <2>2
<1>7. ASSUME ~lidar_pushed' PROVE NoneBefore(meas.end)'
  <2>1. CASE syncWaits
    BY <1>7, <2>1 DEF syncWaits
  <2>2. CASE Done
    <3>1. meas' = Paired
      BY <2>2 DEF Done, syncDone
    <3> QED
      BY <1>5, <2>2, <3>1 DEF NoneBefore
  <2>3. CASE UNCHANGED pairing
    BY <1>3, <1>4, <1>7, <2>3 DEF pairing, NoneBefore
  <2> QED
    BY <2>1, <2>2, <2>3, Writers
<1> QED
  BY <1>6, <1>7

\* A scan is handed over with every sample of its time that the node gets: sync_packages waits
\* for the sample at the end of the scan or past it, the samples come in order on their topic,
\* and those it leaves in the buffer are not before the end, so that none from before a
\* published stamp is found there or comes later.
THEOREM Complete == Spec => []SamplesComplete
<1>1. Init => CompleteInv
  <2> SUFFICES ASSUME Init PROVE CompleteInv
    OBVIOUS
  <2>1. odom.stamp = 0 /\ meas.end = 0 /\ now = 0
    BY DEF Init
  <2>2. Len(imu_buffer) = 0 /\ Len(imu_topic) = 0
    BY DEF Init
  <2> QED
    BY <2>1, <2>2 DEF CompleteInv, NoneBefore
<1>2. Types /\ CompleteInv => SamplesComplete
  <2> SUFFICES ASSUME Types, CompleteInv, epoch = 0,
                      NEW t \in Range(imu_buffer) \union Range(imu_topic)
               PROVE  t >= odom.stamp /\ (~lidar_pushed => t >= meas.end)
    BY DEF SamplesComplete
  <2>1. NoneBefore(odom.stamp) /\ (~lidar_pushed => NoneBefore(meas.end))
    BY DEF CompleteInv
  <2>2. /\ DOMAIN imu_buffer = 1..Len(imu_buffer) /\ DOMAIN imu_topic = 1..Len(imu_topic)
        /\ \A i \in 1..Len(imu_buffer) : imu_buffer[i] \in Nat
        /\ \A i \in 1..Len(imu_topic) : imu_topic[i] \in Nat
    BY LenProperties, ElementOfSeq, Times DEF Types, SensorTypes, ImuTypes
  <2>3. odom.stamp \in Nat /\ meas.end \in Nat
    BY OdometryFacts, MeasuresFacts, Times DEF Types, PairTypes, ProcessTypes
  <2>4. \/ \E i \in 1..Len(imu_buffer) : t = imu_buffer[i]
        \/ \E i \in 1..Len(imu_topic) : t = imu_topic[i]
    BY <2>2 DEF Range
  <2>5. t \in Nat /\ odom.stamp <= t /\ (~lidar_pushed => meas.end <= t)
    BY <2>1, <2>2, <2>4 DEF NoneBefore
  <2> QED
    BY <2>3, <2>5
<1>3. Order => Types
  BY DEF Order
<1> QED
  BY <1>1, <1>2, <1>3, OrderCorrect, CompleteStep, PTL DEF Spec
===============================================================================
