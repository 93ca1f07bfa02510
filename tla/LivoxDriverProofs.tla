-------------------------- MODULE LivoxDriverProofs --------------------------
(***************************************************************************)
(* Proofs about LivoxDriver for every number of lidars, size of the rings  *)
(* and width of their counters.  The rings have no lock: what keeps their  *)
(* two threads apart is arithmetic.  The counters wrap at a multiple of    *)
(* the size of the ring, so indices less than a ring apart have slots of   *)
(* their own; the producer writes when fewer than a ring are held, and     *)
(* neither thread can spoil what the other has just looked at.  The same   *)
(* facts show that the ring, seen through its indices, is a queue.         *)
(***************************************************************************)
EXTENDS LivoxDriver, SequenceTheorems, WellFoundedInduction, TLAPS

-----------------------------------------------------------------------------
\* Arithmetic of the indices.

LEMMA Product ==
    ASSUME NEW b \in Nat \ {0}, NEW d \in Int
    PROVE  (d >= 1 => b * d >= b) /\ (d <= -1 => b * d <= -b) /\ (d = 0 => b * d = 0)
OBVIOUS

LEMMA Division ==
    ASSUME NEW a \in Int, NEW b \in Nat \ {0}
    PROVE  /\ a % b \in Int /\ 0 <= a % b /\ a % b < b
           /\ a \div b \in Int /\ a = b * (a \div b) + (a % b)
<1>1. a % b \in Int /\ 0 <= a % b /\ a % b < b
  OBVIOUS
<1>2. a \div b \in Int
  OBVIOUS
<1>3. a = b * (a \div b) + (a % b)
  OBVIOUS
<1> QED
  BY <1>1, <1>2, <1>3

LEMMA ModUnique ==
    ASSUME NEW a \in Int, NEW b \in Nat \ {0}, NEW q \in Int, NEW r \in Int,
           0 <= r, r < b, a = b * q + r
    PROVE  a % b = r
<1> DEFINE d == q - (a \div b)
<1>1. d \in Int /\ a \div b \in Int /\ a % b \in Int
  BY Division
<1>2. b * d = b * q - b * (a \div b)
  BY <1>1
<1>3. b * d = (a % b) - r
  BY <1>1, <1>2, Division
<1>4. -b < b * d /\ b * d < b
  BY <1>1, <1>3, Division
<1>5. d = 0
  BY <1>1, <1>4, Product
<1> QED
  BY <1>1, <1>3, <1>5, Product

LEMMA ModShift ==
    ASSUME NEW x \in Int, NEW m \in Int, NEW b \in Nat \ {0}, m % b = 0
    PROVE  (x + m) % b = x % b
<1>1. PICK q1 \in Int, r1 \in Int : 0 <= r1 /\ r1 < b /\ x = b * q1 + r1 /\ r1 = x % b
  BY Division
<1>2. PICK q2 \in Int : m = b * q2
  <2>1. m \div b \in Int /\ m = b * (m \div b) + (m % b)
    BY Division
  <2>2. m = b * (m \div b)
    BY <2>1
  <2> QED
    BY <2>1, <2>2
<1>3. b * (q1 + q2) = b * q1 + b * q2
  BY <1>1, <1>2
<1>4. x + m = b * (q1 + q2) + r1
  BY <1>1, <1>2, <1>3
<1>5. q1 + q2 \in Int /\ x + m \in Int
  BY <1>1, <1>2
<1>6. (x + m) % b = r1
  BY <1>1, <1>4, <1>5, ModUnique
<1> QED
  BY <1>1, <1>6

LEMMA ModApart ==
    ASSUME NEW x \in Int, NEW y \in Int, NEW b \in Nat \ {0}, x < y, y < x + b
    PROVE  x % b # y % b
<1> SUFFICES ASSUME x % b = y % b PROVE FALSE
  OBVIOUS
<1>1. PICK q1 \in Int, r1 \in Int : x = b * q1 + r1 /\ r1 = x % b
  BY Division
<1>2. PICK q2 \in Int, r2 \in Int : y = b * q2 + r2 /\ r2 = y % b
  BY Division
<1>3. PICK d \in Int : d = q2 - q1
  BY <1>1, <1>2
<1>4. b * d = b * q2 - b * q1
  BY <1>3
<1>5. b * d = y - x
  BY <1>1, <1>2, <1>4
<1> QED
  BY <1>5, Product

\* The slots of a ring are taken in turn, also when the counter runs over; indices less than
\* a ring apart have slots of their own.
LEMMA AtFacts ==
    ASSUME NEW x \in Nat
    PROVE  /\ At(x) \in 0..QueueSize-1
           /\ At(x + IndexMod) = At(x)
           /\ \A y \in Nat : x < y /\ y < x + QueueSize => At(x) # At(y)
<1>0. QueueSize \in Nat \ {0} /\ IndexMod \in Nat \ {0} /\ IndexMod % QueueSize = 0
  BY DriverAssumption
<1>1. At(x) \in 0..QueueSize-1
  <2>1. x % QueueSize \in Int /\ 0 <= x % QueueSize /\ x % QueueSize < QueueSize
    BY <1>0, Division
  <2>2. At(x) \in Int /\ 0 <= At(x) /\ At(x) < QueueSize
    BY <2>1 DEF At
  <2>3. QueueSize \in Int /\ QueueSize - 1 \in Int
    BY <1>0
  <2>4. At(x) <= QueueSize - 1
    BY <2>2, <2>3
  <2> QED
    BY <2>2, <2>3, <2>4
<1>2. At(x + IndexMod) = At(x)
  <2>1. x \in Int /\ IndexMod \in Int
    BY <1>0
  <2>2. (x + IndexMod) % QueueSize = x % QueueSize
    BY <1>0, <2>1, ModShift
  <2> QED
    BY <2>2, Zenon DEF At
<1>3. \A y \in Nat : x < y /\ y < x + QueueSize => At(x) # At(y)
  BY <1>0, ModApart DEF At
<1> QED
  BY <1>1, <1>2, <1>3

LEMMA SuccFacts ==
    ASSUME NEW x \in 0..IndexMod-1
    PROVE  /\ Succ(x) \in 0..IndexMod-1
           /\ Succ(x) = IF x = IndexMod - 1 THEN 0 ELSE x + 1
<1>0. IndexMod \in Nat \ {0}
  BY DriverAssumption
<1>1. CASE x = IndexMod - 1
  <2>1. x + 1 = IndexMod * 1 + 0
    BY <1>0, <1>1
  <2>2. (x + 1) % IndexMod = 0
    BY <1>0, <2>1, ModUnique
  <2> QED
    BY <1>0, <1>1, <2>2 DEF Succ
<1>2. CASE x # IndexMod - 1
  <2>1. x + 1 = IndexMod * 0 + (x + 1) /\ 0 <= x + 1 /\ x + 1 < IndexMod
    BY <1>0, <1>2
  <2>2. (x + 1) % IndexMod = x + 1
    BY <1>0, <2>1, ModUnique
  <2> QED
    BY <1>0, <1>2, <2>2 DEF Succ
<1> QED
  BY <1>1, <1>2

\* What lies between two indices.
Between(rd, wr) == (wr - rd) % IndexMod

LEMMA BetweenFacts ==
    ASSUME NEW rd \in 0..IndexMod-1, NEW wr \in 0..IndexMod-1
    PROVE  /\ Between(rd, wr) \in 0..IndexMod-1
           /\ Between(rd, wr) = IF wr >= rd THEN wr - rd ELSE wr - rd + IndexMod
<1>0. IndexMod \in Nat \ {0}
  BY DriverAssumption
<1>1. CASE wr >= rd
  <2>1. wr - rd = IndexMod * 0 + (wr - rd) /\ 0 <= wr - rd /\ wr - rd < IndexMod
    BY <1>0, <1>1
  <2>2. (wr - rd) % IndexMod = wr - rd
    BY <1>0, <2>1, ModUnique
  <2> QED
    BY <1>0, <1>1, <2>2 DEF Between
<1>2. CASE ~(wr >= rd)
  <2>1. /\ wr - rd = IndexMod * (-1) + (wr - rd + IndexMod)
        /\ 0 <= wr - rd + IndexMod /\ wr - rd + IndexMod < IndexMod
    BY <1>0, <1>2
  <2>2. (wr - rd) % IndexMod = wr - rd + IndexMod
    BY <1>0, <2>1, ModUnique
  <2> QED
    BY <1>0, <1>2, <2>2 DEF Between
<1> QED
  BY <1>1, <1>2

\* A ring that is not full has room for one more, and one that is not empty loses one.
LEMMA BetweenSucc ==
    ASSUME NEW rd \in 0..IndexMod-1, NEW wr \in 0..IndexMod-1
    PROVE  /\ Between(rd, wr) < IndexMod - 1 => Between(rd, Succ(wr)) = Between(rd, wr) + 1
           /\ rd # wr => Between(Succ(rd), wr) = Between(rd, wr) - 1
           /\ Between(rd, wr) = 0 <=> rd = wr
           /\ At(rd + Between(rd, wr)) = At(wr)
<1>0. IndexMod \in Nat \ {0}
  BY DriverAssumption
<1>1. Succ(rd) \in 0..IndexMod-1 /\ Succ(wr) \in 0..IndexMod-1
  BY SuccFacts
<1>2. Between(rd, wr) < IndexMod - 1 => Between(rd, Succ(wr)) = Between(rd, wr) + 1
  <2>1. Between(rd, wr) = IF wr >= rd THEN wr - rd ELSE wr - rd + IndexMod
    BY BetweenFacts
  <2>2. Between(rd, Succ(wr)) = IF Succ(wr) >= rd THEN Succ(wr) - rd
                                ELSE Succ(wr) - rd + IndexMod
    BY <1>1, BetweenFacts
  <2>3. Succ(wr) = IF wr = IndexMod - 1 THEN 0 ELSE wr + 1
    BY SuccFacts
  <2> QED
    BY <1>0, <2>1, <2>2, <2>3
<1>3. rd # wr => Between(Succ(rd), wr) = Between(rd, wr) - 1
  <2>1. Between(rd, wr) = IF wr >= rd THEN wr - rd ELSE wr - rd + IndexMod
    BY BetweenFacts
  <2>2. Between(Succ(rd), wr) = IF wr >= Succ(rd) THEN wr - Succ(rd)
                                ELSE wr - Succ(rd) + IndexMod
    BY <1>1, BetweenFacts
  <2>3. Succ(rd) = IF rd = IndexMod - 1 THEN 0 ELSE rd + 1
    BY SuccFacts
  <2> QED
    BY <1>0, <2>1, <2>2, <2>3
<1>4. Between(rd, wr) = 0 <=> rd = wr
  <2>1. Between(rd, wr) = IF wr >= rd THEN wr - rd ELSE wr - rd + IndexMod
    BY BetweenFacts
  <2> QED
    BY <1>0, <2>1
<1>5. At(rd + Between(rd, wr)) = At(wr)
  <2>1. Between(rd, wr) = IF wr >= rd THEN wr - rd ELSE wr - rd + IndexMod
    BY BetweenFacts
  <2>2. rd + Between(rd, wr) = wr \/ rd + Between(rd, wr) = wr + IndexMod
    BY <1>0, <2>1
  <2>3. At(wr + IndexMod) = At(wr)
    BY <1>0, AtFacts
  <2> QED
    BY <2>2, <2>3
<1> QED
  BY <1>2, <1>3, <1>4, <1>5

-----------------------------------------------------------------------------
\* A frame that holds lidars has one to push: StoragePointData finds a least one.
LEMMA LeastExists ==
    ASSUME NEW S, S \subseteq Nat, S # {}
    PROVE  \E l \in S : \A k \in S : l <= k
<1>1. PICK l \in S : \A k \in S : ~ (<<k, l>> \in OpToRel(<, Nat))
  BY WFMin, NatLessThanWellFounded
<1>2. \A k \in S : ~(k < l)
  BY <1>1 DEF OpToRel
<1> QED
  BY <1>2

LEMMA PushedFacts ==
    ASSUME producer.frame \subseteq Lidars, producer.frame # {}
    PROVE  Pushed \in producer.frame /\ Pushed \in Lidars
<1>1. producer.frame \subseteq Nat
  BY DriverAssumption DEF Lidars
<1>2. \E l \in producer.frame : \A k \in producer.frame : l <= k
  BY <1>1, LeastExists
<1> QED
  BY <1>2 DEF Pushed

-----------------------------------------------------------------------------
\* The frames of a ring with slots s, from index rd to index wr.
Window(s, rd, wr) == [i \in 1..Between(rd, wr) |-> s[At(rd + i - 1)]]

Slots == [0..QueueSize-1 -> Frame]
Index == 0..IndexMod-1

LEMMA IndexFacts ==
    /\ \A x \in Index : x \in Nat /\ Succ(x) \in Index
    /\ \A rd, wr \in Index : Between(rd, wr) \in Nat
<1>1. ASSUME NEW x \in Index PROVE x \in Nat
  BY DriverAssumption DEF Index
<1>2. ASSUME NEW x \in Index PROVE Succ(x) \in Index
  BY SuccFacts DEF Index
<1>3. ASSUME NEW rd \in Index, NEW wr \in Index PROVE Between(rd, wr) \in Nat
  <2>1. Between(rd, wr) \in Index
    BY BetweenFacts DEF Index
  <2> QED
    BY <1>1, <2>1
<1> QED
  BY <1>1, <1>2, <1>3

LEMMA HeldWindow == \A l \in Lidars : Held(l) = Window(slots[l], rd_idx[l], wr_idx[l])
BY DEF Held, Window, QueueUsedSize, Between

LEMMA WindowFacts ==
    ASSUME NEW s \in Slots, NEW rd \in Index, NEW wr \in Index
    PROVE  /\ Window(s, rd, wr) \in Seq(Frame)
           /\ Len(Window(s, rd, wr)) = Between(rd, wr)
           /\ \A i \in 1..Between(rd, wr) : Window(s, rd, wr)[i] = s[At(rd + i - 1)]
<1>1. Between(rd, wr) \in Nat
  BY IndexFacts
<1>2. \A i \in 1..Between(rd, wr) : s[At(rd + i - 1)] \in Frame
  <2> TAKE i \in 1..Between(rd, wr)
  <2>1. rd + i - 1 \in Nat
    BY <1>1, DriverAssumption DEF Index
  <2>2. At(rd + i - 1) \in 0..QueueSize-1
    BY <2>1, AtFacts
  <2> QED
    BY <2>2 DEF Slots
<1>3. Window(s, rd, wr) \in [1..Between(rd, wr) -> Frame]
  BY <1>2, Zenon DEF Window
<1>4. Window(s, rd, wr) \in Seq(Frame)
  BY <1>1, <1>3, SeqDef
<1>5. Len(Window(s, rd, wr)) = Between(rd, wr)
  BY <1>1, <1>3, <1>4, LenProperties
<1> QED
  BY <1>4, <1>5 DEF Window

\* QueuePushAny fills a slot that the ring does not hold ...
LEMMA WindowWrite ==
    ASSUME NEW s \in Slots, NEW rd \in Index, NEW wr \in Index, NEW f \in Frame,
           Between(rd, wr) < QueueSize
    PROVE  Window([s EXCEPT ![At(wr)] = f], rd, wr) = Window(s, rd, wr)
<1>0. Between(rd, wr) \in Nat /\ rd \in Nat
  BY IndexFacts
<1>1. ASSUME NEW i \in 1..Between(rd, wr)
      PROVE  [s EXCEPT ![At(wr)] = f][At(rd + i - 1)] = s[At(rd + i - 1)]
  <2>1. rd + i - 1 \in Nat /\ rd + Between(rd, wr) \in Nat
    BY <1>0
  <2>2. /\ rd + i - 1 < rd + Between(rd, wr)
        /\ rd + Between(rd, wr) < rd + i - 1 + QueueSize
    BY <1>0, DriverAssumption
  <2>3. At(rd + i - 1) # At(rd + Between(rd, wr)) /\ At(rd + i - 1) \in 0..QueueSize-1
    BY <2>1, <2>2, AtFacts
  <2>4. At(rd + i - 1) # At(wr)
    BY <2>3, BetweenSucc DEF Index
  <2> QED
    BY <2>3, <2>4, Zenon DEF Slots
<1> QED
  BY <1>1, Zenon DEF Window

\* ... and then moves the index over it,
LEMMA WindowPush ==
    ASSUME NEW s \in Slots, NEW rd \in Index, NEW wr \in Index,
           Between(rd, wr) < QueueSize
    PROVE  /\ Succ(wr) \in Index
           /\ Between(rd, Succ(wr)) = Between(rd, wr) + 1
           /\ Window(s, rd, Succ(wr)) = Append(Window(s, rd, wr), s[At(wr)])
<1>0. Between(rd, wr) \in Nat /\ rd \in Nat /\ Succ(wr) \in Index /\ wr \in Nat
  BY IndexFacts
<1>1. Between(rd, Succ(wr)) = Between(rd, wr) + 1
  <2>1. Between(rd, wr) < IndexMod - 1
    BY <1>0, DriverAssumption
  <2> QED
    BY <2>1, BetweenSucc DEF Index
<1>2. s[At(wr)] \in Frame
  BY <1>0, AtFacts DEF Slots
<1> DEFINE W == Window(s, rd, wr)
           V == Window(s, rd, Succ(wr))
           A == Append(W, s[At(wr)])
<1>3. /\ W \in Seq(Frame) /\ Len(W) = Between(rd, wr)
      /\ \A i \in 1..Between(rd, wr) : W[i] = s[At(rd + i - 1)]
  BY WindowFacts
<1>4. /\ V \in Seq(Frame) /\ Len(V) = Between(rd, wr) + 1
      /\ \A i \in 1..Between(rd, wr) + 1 : V[i] = s[At(rd + i - 1)]
  BY <1>0, <1>1, WindowFacts
<1> HIDE DEF W, V
<1>5. /\ A \in Seq(Frame) /\ Len(A) = Len(W) + 1
      /\ \A i \in 1..Len(W) : A[i] = W[i]
      /\ A[Len(W) + 1] = s[At(wr)]
  BY <1>2, <1>3, AppendProperties
<1> HIDE DEF A
<1>6. ASSUME NEW i \in 1..Len(V) PROVE V[i] = A[i]
  <2>1. CASE i \in 1..Between(rd, wr)
    BY <1>0, <1>3, <1>4, <1>5, <2>1
  <2>2. CASE i = Between(rd, wr) + 1
    <3>1. V[i] = s[At(rd + i - 1)]
      BY <1>4
    <3>2. rd + i - 1 = rd + Between(rd, wr)
      BY <1>0, <2>2
    <3>3. V[i] = s[At(wr)]
      BY <3>1, <3>2, BetweenSucc DEF Index
    <3> QED
      BY <1>3, <1>5, <2>2, <3>3
  <2> QED
    BY <1>0, <1>4, <2>1, <2>2
<1>7. V = A
  BY <1>3, <1>4, <1>5, <1>6, SeqEqual
<1> QED
  BY <1>0, <1>1, <1>7 DEF V, A, W

\* and QueuePopUpdate takes the frame at the front away.
LEMMA WindowPop ==
    ASSUME NEW s \in Slots, NEW rd \in Index, NEW wr \in Index, rd # wr
    PROVE  /\ Succ(rd) \in Index
           /\ Between(Succ(rd), wr) = Between(rd, wr) - 1
           /\ Window(s, rd, wr) # <<>>
           /\ Head(Window(s, rd, wr)) = s[At(rd)]
           /\ Window(s, Succ(rd), wr) = Tail(Window(s, rd, wr))
<1>0. Between(rd, wr) \in Nat /\ rd \in Nat /\ Succ(rd) \in Index /\ Succ(rd) \in Nat
  BY IndexFacts
<1>1. Between(rd, wr) # 0 /\ Between(Succ(rd), wr) = Between(rd, wr) - 1
  BY BetweenSucc DEF Index
<1> DEFINE W == Window(s, rd, wr)
           V == Window(s, Succ(rd), wr)
           T == Tail(W)
<1>3. /\ W \in Seq(Frame) /\ Len(W) = Between(rd, wr)
      /\ \A i \in 1..Between(rd, wr) : W[i] = s[At(rd + i - 1)]
  BY WindowFacts
<1>4. /\ V \in Seq(Frame) /\ Len(V) = Between(rd, wr) - 1
      /\ \A i \in 1..Between(rd, wr) - 1 : V[i] = s[At(Succ(rd) + i - 1)]
  BY <1>0, <1>1, WindowFacts
<1> HIDE DEF W, V
<1>5. W # <<>>
  BY <1>0, <1>1, <1>3, EmptySeq
<1>6. /\ T \in Seq(Frame) /\ Len(T) = Len(W) - 1
      /\ \A i \in 1..Len(T) : T[i] = W[i + 1]
      /\ Head(W) = W[1]
  BY <1>3, <1>5, HeadTailProperties
<1> HIDE DEF T
<1>7. Head(W) = s[At(rd)]
  <2>1. W[1] = s[At(rd + 1 - 1)] /\ rd + 1 - 1 = rd
    BY <1>0, <1>1, <1>3
  <2> QED
    BY <1>6, <2>1
<1>8. ASSUME NEW i \in 1..Len(V) PROVE V[i] = T[i]
  <2>0. i \in Nat /\ i + 1 \in 1..Between(rd, wr) /\ i \in 1..Len(T)
    BY <1>0, <1>1, <1>3, <1>4, <1>6
  <2>1. V[i] = s[At(Succ(rd) + i - 1)] /\ T[i] = s[At(rd + (i + 1) - 1)]
    BY <1>0, <1>3, <1>4, <1>6, <2>0
  <2>2. \/ Succ(rd) + i - 1 = rd + (i + 1) - 1
        \/ /\ Succ(rd) + i - 1 \in Nat
           /\ rd + (i + 1) - 1 = (Succ(rd) + i - 1) + IndexMod
    <3>1. Succ(rd) = IF rd = IndexMod - 1 THEN 0 ELSE rd + 1
      BY SuccFacts DEF Index
    <3>2. IndexMod \in Nat
      BY DriverAssumption
    <3> QED
      BY <1>0, <2>0, <3>1, <3>2
  <2>3. At(Succ(rd) + i - 1) = At(rd + (i + 1) - 1)
    BY <2>2, AtFacts
  <2> QED
    BY <2>1, <2>3
<1>9. V = T
  BY <1>3, <1>4, <1>6, <1>8, SeqEqual
<1> QED
  BY <1>0, <1>1, <1>5, <1>7, <1>9 DEF V, T, W

LEMMA WindowEmpty ==
    ASSUME NEW s, NEW i \in Index PROVE Window(s, i, i) = <<>>
<1>1. Between(i, i) = 0
  BY BetweenSucc DEF Index
<1> QED
  BY <1>1 DEF Window

-----------------------------------------------------------------------------
\* Which steps write which variable.
LEMMA Writers ==
    ASSUME [Next]_vars
    PROVE  /\ Sdk \/ UNCHANGED device
           /\ Sdk \/ UNCHANGED indexed
           /\ StoragePointData \/ UNCHANGED storage_packet
           /\ StoragePointData \/ QueuePopUpdate \/ UNCHANGED rd_idx
           /\ StoragePointData \/ QueuePushUpdate \/ UNCHANGED wr_idx
           /\ QueueWrite \/ UNCHANGED slots
           /\ QueuePopUpdate \/ UNCHANGED popped
           /\ Signal \/ Wait \/ UNCHANGED count
           /\ (\E l \in Lidars : CheckTimer(l)) \/ Produce \/ UNCHANGED producer
           /\ Poll \/ UNCHANGED poll
           /\ Destroy \/ UNCHANGED main
           /\ UNCHANGED in_order
<1>1. CASE Sdk
  BY <1>1 DEF Sdk, LidarInfoChangeCallback, SetConfigCallback, ring
<1>2. CASE \E l \in Lidars : CheckTimer(l)
  BY <1>2 DEF CheckTimer, ring
<1>3. CASE Produce
  BY <1>3 DEF Produce, StoragePointData, PushLidarData, QueueWrite, QueuePushUpdate,
     NotifyIfStored, GetCount, Signal, ring
<1>4. CASE Poll
  BY <1>4 DEF Poll, Distribute, Wait, PollingLidar, PollingLidarPointCloudData,
     PublishPointcloud2, QueuePrePop, QueuePopUpdate, PollThread, ring
<1>5. CASE Destroy
  BY <1>5 DEF Destroy, RequestExit, ExitSignal, Join, ring
<1>6. CASE UNCHANGED vars
  BY <1>6 DEF vars, ring
<1> QED
  BY <1>1, <1>2, <1>3, <1>4, <1>5, <1>6 DEF Next

-----------------------------------------------------------------------------
\* The commands whose answers are still to come are at most one for each announcement.
DeviceInv ==
    /\ connect_state \in [Lidars -> {"Off", "Sampling"}]
    /\ set_bits \in [Lidars -> SUBSET Items]
    /\ announced \in [Lidars -> Nat]
    /\ answers \in [Lidars -> [Items -> Nat]]
    /\ \A l \in Lidars : announced[l] <= MaxInfo[l]
    /\ \A l \in Lidars : \A b \in Items : answers[l][b] <= announced[l]

RingTypes ==
    /\ indexed \in [Lidars -> BOOLEAN]
    /\ storage_packet \in [Lidars -> BOOLEAN]
    /\ rd_idx \in [Lidars -> Index]
    /\ wr_idx \in [Lidars -> Index]
    /\ slots \in [Lidars -> Slots]
    /\ popped \in [Lidars -> Frame]

ProducerPC == {"collect", "store", "push", "write", "advance", "notify", "count", "signal"}
PollPC == {"start", "wait", "lidar", "outer", "inner", "read", "popped", "future", "done"}

ProducerInv ==
    /\ producer \in [pc : ProducerPC, frame : SUBSET Lidars]
    /\ producer.pc # "collect" => producer.frame # {}

PollInv == poll \in [pc : PollPC, lidar : Lidars, pkg : Frame]

\* The signal follows a look at the count, and only the polling thread, which waits for a
\* positive count, changes it in between.
CountInv ==
    /\ count \in Int /\ (count = 0 \/ count = 1)
    /\ producer.pc = "signal" => count = 0

Types ==
    /\ DeviceInv /\ RingTypes /\ ProducerInv /\ PollInv /\ CountInv
    /\ main \in {"running", "requested", "joining", "gone"}
    /\ in_order \in BOOLEAN

LEMMA DeviceStep == DeviceInv /\ [Next]_vars => DeviceInv'
<1> SUFFICES ASSUME DeviceInv, [Next]_vars PROVE DeviceInv'
  OBVIOUS
<1>1. CASE UNCHANGED device
  BY <1>1 DEF DeviceInv, device
<1>2. ASSUME NEW l \in Lidars, LidarInfoChangeCallback(l) PROVE DeviceInv'
  <2>0. MaxInfo[l] \in Nat
    BY DriverAssumption DEF Lidars
  <2>1. /\ announced' = [announced EXCEPT ![l] = @ + 1]
        /\ announced[l] < MaxInfo[l] /\ connect_state' = connect_state
    BY <1>2 DEF LidarInfoChangeCallback
  <2>2. /\ announced' \in [Lidars -> Nat] /\ announced'[l] = announced[l] + 1
        /\ \A k \in Lidars : k # l => announced'[k] = announced[k]
    BY <2>1 DEF DeviceInv
  <2>3. \A k \in Lidars : announced'[k] <= MaxInfo[k]
    BY <2>0, <2>1, <2>2 DEF DeviceInv
  <2>4. CASE UNCHANGED <<set_bits, answers>>
    BY <2>1, <2>2, <2>3, <2>4 DEF DeviceInv
  <2>5. CASE /\ set_bits' = [set_bits EXCEPT ![l] = Items]
             /\ answers' = [answers EXCEPT ![l] = [b \in Items |-> @[b] + 1]]
    <3>1. set_bits' \in [Lidars -> SUBSET Items]
      BY <2>5 DEF DeviceInv
    <3>2. /\ answers' \in [Lidars -> [Items -> Nat]]
          /\ \A b \in Items : answers'[l][b] = answers[l][b] + 1
          /\ \A k \in Lidars : k # l => answers'[k] = answers[k]
      BY <2>5 DEF DeviceInv
    <3>3. ASSUME NEW k \in Lidars, NEW b \in Items PROVE answers'[k][b] <= announced'[k]
      BY <2>2, <3>2 DEF DeviceInv
    <3> QED
      BY <2>1, <2>2, <2>3, <3>1, <3>2, <3>3 DEF DeviceInv
  <2> QED
    BY <1>2, <2>4, <2>5 DEF LidarInfoChangeCallback
<1>3. ASSUME NEW l \in Lidars, NEW b \in Items, SetConfigCallback(l, b) PROVE DeviceInv'
  <2>1. announced' = announced /\ answers[l][b] > 0
    BY <1>3 DEF SetConfigCallback
  <2>2. ASSUME answers' = [answers EXCEPT ![l][b] = @ - 1]
        PROVE  /\ answers' \in [Lidars -> [Items -> Nat]]
               /\ \A k \in Lidars : \A c \in Items : answers'[k][c] <= announced'[k]
    <3>1. \A c \in Items : answers'[l][c] = IF c = b THEN answers[l][b] - 1 ELSE answers[l][c]
      BY <2>2 DEF DeviceInv
    <3>2. \A k \in Lidars : k # l => answers'[k] = answers[k]
      BY <2>2 DEF DeviceInv
    <3>3. answers' \in [Lidars -> [Items -> Nat]]
      <4>1. answers[l][b] - 1 \in Nat
        BY <2>1 DEF DeviceInv
      <4> QED
        BY <2>2, <4>1 DEF DeviceInv
    <3>4. ASSUME NEW k \in Lidars, NEW c \in Items PROVE answers'[k][c] <= announced'[k]
      BY <2>1, <3>1, <3>2 DEF DeviceInv
    <3> QED
      BY <3>3, <3>4
  <2>3. CASE setSuccess(l, b)
    <3>1. set_bits' \in [Lidars -> SUBSET Items]
      BY <2>3 DEF setSuccess, DeviceInv
    <3>2. connect_state' \in [Lidars -> {"Off", "Sampling"}]
      BY <2>3 DEF setSuccess, DeviceInv
    <3>3. answers' = [answers EXCEPT ![l][b] = @ - 1]
      BY <2>3 DEF setSuccess
    <3> QED
      BY <2>1, <2>2, <3>1, <3>2, <3>3 DEF DeviceInv
  <2>4. CASE UNCHANGED <<answers, set_bits, connect_state>>
    BY <2>1, <2>4 DEF DeviceInv
  <2>5. CASE /\ answers' = [answers EXCEPT ![l][b] = @ - 1]
             /\ UNCHANGED <<set_bits, connect_state>>
    BY <2>1, <2>2, <2>5 DEF DeviceInv
  <2> QED
    BY <1>3, <2>3, <2>4, <2>5 DEF SetConfigCallback
<1> QED
  BY <1>1, <1>2, <1>3, Writers DEF Sdk

\* What the steps of the producer do to its record.
LEMMA ProducerMoves ==
    ASSUME ProducerInv
    PROVE  /\ \A pc \in ProducerPC : producer.pc # "collect" /\ produce(pc) =>
                 /\ ProducerInv'
                 /\ producer'.pc = pc /\ producer'.frame = producer.frame
                 /\ Pushed' = Pushed
           /\ nextPackage => ProducerInv' /\ producer'.pc \in {"collect", "store"}
           /\ producer.pc # "collect" => Pushed \in Lidars
<1>1. ASSUME NEW pc \in ProducerPC, producer.pc # "collect", produce(pc)
      PROVE  /\ ProducerInv'
             /\ producer'.pc = pc /\ producer'.frame = producer.frame
             /\ Pushed' = Pushed
  <2>1. producer'.pc = pc /\ producer'.frame = producer.frame /\ ProducerInv'
    BY <1>1 DEF produce, ProducerInv
  <2> QED
    BY <2>1, Zenon DEF Pushed
<1>2. ASSUME nextPackage PROVE ProducerInv' /\ producer'.pc \in {"collect", "store"}
  <2> DEFINE rest == producer.frame \ {Pushed}
  <2>1. rest \in SUBSET Lidars
    BY DEF ProducerInv
  <2>2. producer' = [pc |-> IF rest = {} THEN "collect" ELSE "store", frame |-> rest]
    BY <1>2 DEF nextPackage
  <2> HIDE DEF rest
  <2> QED
    BY <2>1, <2>2 DEF ProducerInv, ProducerPC
<1>3. producer.pc # "collect" => Pushed \in Lidars
  BY PushedFacts DEF ProducerInv
<1> QED
  BY <1>1, <1>2, <1>3

LEMMA ProducerStep == ProducerInv /\ [Next]_vars => ProducerInv'
<1> SUFFICES ASSUME ProducerInv, [Next]_vars PROVE ProducerInv'
  OBVIOUS
<1>1. CASE UNCHANGED producer
  BY <1>1 DEF ProducerInv
<1>2. CASE \E l \in Lidars : CheckTimer(l)
  BY <1>2 DEF CheckTimer, ProducerInv, ProducerPC
<1>3. CASE Produce
  <2>1. nextPackage \/ (producer.pc # "collect" /\ \E pc \in ProducerPC : produce(pc))
    BY <1>3 DEF Produce, StoragePointData, PushLidarData, FullRing, QueueWrite,
       QueuePushUpdate, NotifyIfStored, GetCount, Signal, ProducerPC
  <2> QED
    BY <2>1, ProducerMoves
<1> QED
  BY <1>1, <1>2, <1>3, Writers

LEMMA PollMoves ==
    ASSUME PollInv
    PROVE  /\ \A pc \in PollPC : goto(pc) =>
                 /\ PollInv' /\ poll'.pc = pc
                 /\ poll'.lidar = poll.lidar /\ poll'.pkg = poll.pkg
           /\ nextLidar => PollInv' /\ poll'.pc \in {"future", "lidar"}
<1>1. ASSUME NEW pc \in PollPC, goto(pc)
      PROVE  /\ PollInv' /\ poll'.pc = pc
             /\ poll'.lidar = poll.lidar /\ poll'.pkg = poll.pkg
  BY <1>1 DEF goto, PollInv
<1>2. ASSUME nextLidar PROVE PollInv' /\ poll'.pc \in {"future", "lidar"}
  <2>1. CASE poll.lidar = NumLidars
    BY <1>2, <2>1 DEF nextLidar, PollInv, PollPC
  <2>2. CASE poll.lidar # NumLidars
    <3>1. poll.lidar + 1 \in Lidars
      BY <2>2, DriverAssumption DEF PollInv, Lidars
    <3> QED
      BY <1>2, <2>2, <3>1 DEF nextLidar, PollInv, PollPC
  <2> QED
    BY <2>1, <2>2
<1> QED
  BY <1>1, <1>2

LEMMA PollStep == RingTypes /\ PollInv /\ [Next]_vars => PollInv'
<1> SUFFICES ASSUME RingTypes, PollInv, [Next]_vars PROVE PollInv'
  OBVIOUS
<1>1. CASE UNCHANGED poll
  BY <1>1 DEF PollInv
<1>2. CASE Wait
  <2>1. 1 \in Lidars
    BY DriverAssumption DEF Lidars
  <2> QED
    BY <1>2, <2>1 DEF Wait, PollInv, PollPC
<1>3. CASE QueuePrePop
  <2>1. slots[poll.lidar][At(rd_idx[poll.lidar])] \in Frame
    <3>1. poll.lidar \in Lidars
      BY DEF PollInv
    <3>2. rd_idx[poll.lidar] \in Nat /\ slots[poll.lidar] \in Slots
      BY <3>1, IndexFacts DEF RingTypes
    <3> QED
      BY <3>2, AtFacts DEF Slots
  <2>2. Visible(poll.lidar) \subseteq Frame
    BY <2>1 DEF Visible
  <2>3. PICK pkg \in Frame : poll' = [poll EXCEPT !.pc = "popped", !.pkg = pkg]
    BY <1>3, <2>2 DEF QueuePrePop
  <2> QED
    BY <2>3 DEF PollInv, PollPC
<1>4. ASSUME Poll, ~Wait, ~QueuePrePop PROVE PollInv'
  <2>1. nextLidar \/ \E pc \in PollPC : goto(pc)
    BY <1>4 DEF Poll, Distribute, PollingLidar, PollingLidarPointCloudData,
       PublishPointcloud2, QueuePopUpdate, PollThread, PollPC
  <2> QED
    BY <2>1, PollMoves
<1> QED
  BY <1>1, <1>2, <1>3, <1>4, Writers

LEMMA CountStep == ProducerInv /\ CountInv /\ [Next]_vars => CountInv'
<1> SUFFICES ASSUME ProducerInv, CountInv, [Next]_vars PROVE CountInv'
  OBVIOUS
<1>1. CASE Wait
  <2>1. count' = count - 1 /\ count > 0 /\ producer' = producer
    BY <1>1 DEF Wait
  <2> QED
    BY <2>1 DEF CountInv
<1>2. CASE Signal
  <2>1. count' = count + 1 /\ producer.pc = "signal"
    BY <1>2 DEF Signal
  <2>2. producer'.pc # "signal"
    BY <1>2, ProducerMoves DEF Signal
  <2> QED
    BY <2>1, <2>2 DEF CountInv
<1>3. ASSUME UNCHANGED count, producer'.pc = "signal" => count = 0 PROVE CountInv'
  BY <1>3 DEF CountInv
<1>4. ASSUME UNCHANGED count, ~(UNCHANGED producer), ~Signal
      PROVE  producer'.pc = "signal" => count = 0
  <2>1. CASE \E l \in Lidars : CheckTimer(l)
    BY <2>1 DEF CheckTimer
  <2>2. CASE GetCount
    <3>1. CASE count <= 0
      BY <3>1 DEF CountInv
    <3>2. CASE ~(count <= 0)
      <4>1. nextPackage
        BY <2>2, <3>2 DEF GetCount, SignalNeeded
      <4> QED
        BY <4>1, ProducerMoves
    <3> QED
      BY <3>1, <3>2
  <2>3. ASSUME Produce, ~GetCount, producer'.pc = "signal" PROVE FALSE
    <3>1. \/ nextPackage
          \/ /\ producer.pc # "collect"
             /\ \E pc \in ProducerPC \ {"signal"} : produce(pc)
      BY <1>4, <2>3 DEF Produce, StoragePointData, PushLidarData, FullRing, QueueWrite,
         QueuePushUpdate, NotifyIfStored, ProducerPC
    <3> QED
      BY <2>3, <3>1, ProducerMoves
  <2> QED
    BY <1>4, <2>1, <2>2, <2>3, Writers
<1>5. CASE UNCHANGED <<count, producer>>
  BY <1>5 DEF CountInv
<1> QED
  BY <1>1, <1>2, <1>3, <1>4, <1>5, Writers

LEMMA RingTypesStep == RingTypes /\ ProducerInv /\ PollInv /\ [Next]_vars => RingTypes'
<1> SUFFICES ASSUME RingTypes, ProducerInv, PollInv, [Next]_vars PROVE RingTypes'
  OBVIOUS
<1>0. /\ producer.pc # "collect" => Pushed \in Lidars
      /\ poll.lidar \in Lidars
      /\ 0 \in Index
  BY ProducerMoves, DriverAssumption DEF PollInv, Index
<1>1. indexed' \in [Lidars -> BOOLEAN]
  BY Writers DEF Sdk, LidarInfoChangeCallback, SetConfigCallback, RingTypes
<1>2. storage_packet' \in [Lidars -> BOOLEAN]
  BY <1>0, Writers DEF StoragePointData, ring, RingTypes
<1>3. rd_idx' \in [Lidars -> Index]
  <2>1. CASE StoragePointData
    BY <1>0, <2>1 DEF StoragePointData, ring, RingTypes
  <2>2. CASE QueuePopUpdate
    <3>1. Succ(rd_idx[poll.lidar]) \in Index
      BY <1>0, IndexFacts DEF RingTypes
    <3> QED
      BY <2>2, <3>1 DEF QueuePopUpdate, RingTypes
  <2> QED
    BY <2>1, <2>2, Writers DEF RingTypes
<1>4. wr_idx' \in [Lidars -> Index]
  <2>1. CASE StoragePointData
    BY <1>0, <2>1 DEF StoragePointData, ring, RingTypes
  <2>2. CASE QueuePushUpdate
    <3>1. Succ(wr_idx[Pushed]) \in Index
      BY <1>0, <2>2, IndexFacts DEF QueuePushUpdate, RingTypes
    <3> QED
      BY <2>2, <3>1 DEF QueuePushUpdate, RingTypes
  <2> QED
    BY <2>1, <2>2, Writers DEF RingTypes
<1>5. slots' \in [Lidars -> Slots]
  <2>1. CASE QueueWrite
    <3>0. Pushed \in Lidars
      BY <1>0, <2>1 DEF QueueWrite
    <3>1. CASE UNCHANGED slots
      BY <3>1 DEF RingTypes
    <3>2. ASSUME NEW f \in Sends[Pushed],
                 slots' = [slots EXCEPT ![Pushed][At(wr_idx[Pushed])] = f]
          PROVE  slots' \in [Lidars -> Slots]
      <4>1. f \in Frame
        BY <3>0, DriverAssumption DEF Lidars
      <4> QED
        BY <3>0, <3>2, <4>1 DEF RingTypes, Slots
    <3> QED
      BY <2>1, <3>1, <3>2 DEF QueueWrite
  <2> QED
    BY <2>1, Writers DEF RingTypes
<1>6. popped' \in [Lidars -> Frame]
  BY Writers DEF QueuePopUpdate, PollInv, RingTypes
<1> QED
  BY <1>1, <1>2, <1>3, <1>4, <1>5, <1>6 DEF RingTypes

LEMMA TypesStep == Types /\ [Next]_vars => Types'
<1> SUFFICES ASSUME Types, [Next]_vars PROVE Types'
  OBVIOUS
<1>1. main' \in {"running", "requested", "joining", "gone"}
  BY Writers DEF Destroy, RequestExit, ExitSignal, Join, Types
<1>2. in_order' \in BOOLEAN
  BY Writers DEF Types
<1> QED
  BY <1>1, <1>2, DeviceStep, RingTypesStep, ProducerStep, PollStep, CountStep DEF Types

LEMMA InitTypes == Init => Types
<1> SUFFICES ASSUME Init PROVE Types
  OBVIOUS
<1>1. PICK f : f \in Frame /\ f = CHOOSE g \in Frame : TRUE
  <2>1. Sends[1] \subseteq Frame /\ Sends[1] # {}
    BY DriverAssumption
  <2> QED
    BY <2>1
<1>2. 1 \in Lidars /\ 0 \in Index
  BY DriverAssumption DEF Lidars, Index
<1>3. DeviceInv
  <2>1. \A l \in Lidars : 0 <= MaxInfo[l]
    BY DriverAssumption DEF Lidars
  <2> QED
    BY <2>1 DEF Init, DeviceInv
<1>4. RingTypes
  <2>1. slots = [l \in Lidars |-> [i \in 0..QueueSize-1 |-> f]] /\ popped = [l \in Lidars |-> f]
    BY <1>1 DEF Init
  <2>2. slots \in [Lidars -> Slots] /\ popped \in [Lidars -> Frame]
    BY <1>1, <2>1 DEF Slots
  <2> QED
    BY <1>2, <2>2 DEF Init, RingTypes
<1>5. ProducerInv /\ CountInv
  BY DEF Init, ProducerInv, ProducerPC, CountInv
<1>6. PollInv
  <2>1. poll = [pc |-> "start", lidar |-> 1, pkg |-> f]
    BY <1>1 DEF Init
  <2> QED
    BY <1>1, <1>2, <2>1 DEF PollInv, PollPC
<1> QED
  BY <1>3, <1>4, <1>5, <1>6 DEF Init, Types

LEMMA TypesCorrect == Spec => []Types
BY InitTypes, TypesStep, PTL DEF Spec

\* The variables keep their types: the indices stay within their width although they run
\* over, and the count of the semaphore, which a stored frame and a full ring both raise,
\* never passes 1 (PushLidarData, Semaphore).
THEOREM TypeCorrect == Spec => []TypeOK
<1>1. Types => TypeOK
  <2> SUFFICES ASSUME Types PROVE TypeOK
    OBVIOUS
  <2>1. /\ connect_state \in [Lidars -> {"Off", "Sampling"}]
        /\ set_bits \in [Lidars -> SUBSET Items]
    BY DEF Types, DeviceInv
  <2>2. \A l \in Lidars : announced[l] \in 0..MaxInfo[l]
    BY DriverAssumption DEF Types, DeviceInv, Lidars
  <2>3. ASSUME NEW l \in Lidars PROVE answers[l] \in [Items -> 0..MaxInfo[l]]
    <3>1. \A b \in Items : answers[l][b] \in 0..MaxInfo[l]
      BY DriverAssumption DEF Types, DeviceInv, Lidars
    <3> QED
      BY <3>1 DEF Types, DeviceInv
  <2>4. /\ indexed \in [Lidars -> BOOLEAN] /\ storage_packet \in [Lidars -> BOOLEAN]
        /\ rd_idx \in [Lidars -> 0..IndexMod-1] /\ wr_idx \in [Lidars -> 0..IndexMod-1]
        /\ slots \in [Lidars -> [0..QueueSize-1 -> Frame]]
        /\ popped \in [Lidars -> Frame]
    BY DEF Types, RingTypes, Index, Slots
  <2>5. count \in 0..1
    BY DEF Types, CountInv
  <2>6. /\ producer \in [pc : {"collect", "store", "push", "write", "advance", "notify",
                               "count", "signal"}, frame : SUBSET Lidars]
        /\ poll \in [pc : {"start", "wait", "lidar", "outer", "inner", "read", "popped",
                           "future", "done"}, lidar : Lidars, pkg : Frame]
    BY DEF Types, ProducerInv, ProducerPC, PollInv, PollPC
  <2> QED
    BY <2>1, <2>2, <2>3, <2>4, <2>5, <2>6 DEF Types, TypeOK
<1> QED
  BY <1>1, TypesCorrect, PTL

-----------------------------------------------------------------------------
\* The ring: it never holds more than its slots, the producer that passed the test for a
\* full ring has a slot of its own, a ring that is not allocated holds nothing, and what the
\* polling thread copied is still the front of the ring when it takes it away.
RingInv ==
    /\ \A l \in Lidars : /\ Between(rd_idx[l], wr_idx[l]) <= QueueSize
                         /\ ~storage_packet[l] => rd_idx[l] = wr_idx[l]
    /\ producer.pc \in {"push", "write", "advance"} => storage_packet[Pushed]
    /\ producer.pc \in {"write", "advance"} =>
          Between(rd_idx[Pushed], wr_idx[Pushed]) < QueueSize
    /\ poll.pc \in {"read", "popped"} => rd_idx[poll.lidar] # wr_idx[poll.lidar]
    /\ in_order /\ poll.pc = "popped" =>
          poll.pkg = slots[poll.lidar][At(rd_idx[poll.lidar])]

\* What is known of one lidar's ring, for the steps that move its indices.
LEMMA RingFacts ==
    ASSUME Types, RingInv, NEW l \in Lidars
    PROVE  /\ rd_idx[l] \in Index /\ wr_idx[l] \in Index /\ slots[l] \in Slots
           /\ Between(rd_idx[l], wr_idx[l]) \in Nat
           /\ Between(rd_idx[l], wr_idx[l]) <= QueueSize
           /\ Between(rd_idx[l], wr_idx[l]) = 0 <=> rd_idx[l] = wr_idx[l]
<1>1. rd_idx[l] \in Index /\ wr_idx[l] \in Index /\ slots[l] \in Slots
  BY DEF Types, RingTypes
<1>2. Between(rd_idx[l], wr_idx[l]) \in Nat
  BY <1>1, IndexFacts
<1>3. Between(rd_idx[l], wr_idx[l]) = 0 <=> rd_idx[l] = wr_idx[l]
  BY <1>1, BetweenSucc DEF Index
<1> QED
  BY <1>1, <1>2, <1>3 DEF RingInv

\* The steps that leave the ring alone keep its invariant, if the threads only move to places
\* it says nothing new of.
LEMMA RingKept ==
    ASSUME Types, RingInv, UNCHANGED ring,
           producer'.pc \in {"push", "write", "advance"} =>
              Pushed' \in Lidars /\ storage_packet[Pushed'],
           producer'.pc \in {"write", "advance"} =>
              Between(rd_idx[Pushed'], wr_idx[Pushed']) < QueueSize,
           poll'.pc \in {"read", "popped"} => rd_idx[poll'.lidar] # wr_idx[poll'.lidar],
           UNCHANGED in_order,
           in_order /\ poll'.pc = "popped" =>
              poll'.pkg = slots[poll'.lidar][At(rd_idx[poll'.lidar])]
    PROVE  RingInv'
<1>1. /\ storage_packet' = storage_packet /\ rd_idx' = rd_idx /\ wr_idx' = wr_idx
      /\ slots' = slots
  BY DEF ring
<1> QED
  BY <1>1 DEF RingInv

LEMMA RingStep == Types /\ RingInv /\ [Next]_vars => RingInv'
<1> SUFFICES ASSUME Types, RingInv, [Next]_vars PROVE RingInv'
  OBVIOUS
<1>0. /\ producer.pc # "collect" => Pushed \in Lidars
      /\ poll.lidar \in Lidars /\ ProducerInv /\ PollInv
      /\ QueueSize \in Nat
  BY ProducerMoves, DriverAssumption DEF Types, PollInv
\* What RingKept asks of a thread that stands still, as far as it is not about the ring.
<1>a. UNCHANGED producer => Pushed' = Pushed /\ producer'.pc = producer.pc
  BY DEF Pushed
<1>b. UNCHANGED in_order
  BY Writers
<1> USE <1>b
<1>1. ASSUME UNCHANGED <<ring, producer, poll>> PROVE RingInv'
  BY <1>0, <1>1, <1>a, RingKept DEF RingInv
<1>2. ASSUME UNCHANGED <<ring, poll>>, producer'.pc \notin {"push", "write", "advance"}
      PROVE  RingInv'
  BY <1>0, <1>2, RingKept DEF RingInv
<1>3. ASSUME UNCHANGED <<ring, producer>>, poll'.pc \notin {"read", "popped"}
      PROVE  RingInv'
  BY <1>0, <1>3, <1>a, RingKept DEF RingInv
<1>4. CASE Sdk \/ Destroy
  BY <1>1, <1>4 DEF Sdk, LidarInfoChangeCallback, SetConfigCallback, Destroy, RequestExit,
     ExitSignal, Join
<1>5. CASE \E l \in Lidars : CheckTimer(l)
  BY <1>2, <1>5 DEF CheckTimer
<1>6. CASE StoragePointData
  <2>1. CASE UNCHANGED ring /\ nextPackage
    BY <1>0, <1>2, <1>6, <2>1, ProducerMoves DEF StoragePointData
  <2>2. CASE UNCHANGED ring /\ storage_packet[Pushed] /\ produce("push")
    <3>1. producer'.pc = "push" /\ Pushed' = Pushed /\ Pushed \in Lidars /\ poll' = poll
      BY <1>0, <1>6, <2>2, ProducerMoves DEF StoragePointData, ProducerPC
    <3> QED
      BY <2>2, <3>1, RingKept DEF RingInv
  <2>3. CASE /\ ~storage_packet[Pushed]
             /\ storage_packet' = [storage_packet EXCEPT ![Pushed] = TRUE]
             /\ rd_idx' = [rd_idx EXCEPT ![Pushed] = 0]
             /\ wr_idx' = [wr_idx EXCEPT ![Pushed] = 0]
             /\ produce("push") /\ UNCHANGED slots
    <3>1. producer'.pc = "push" /\ Pushed' = Pushed /\ Pushed \in Lidars /\ poll' = poll
      BY <1>0, <1>6, <2>3, ProducerMoves DEF StoragePointData, ProducerPC
    <3>2. rd_idx[Pushed] = wr_idx[Pushed]
      BY <2>3, <3>1 DEF RingInv
    <3>3. Between(0, 0) = 0
      BY BetweenSucc, DriverAssumption
    <3>4. /\ storage_packet'[Pushed] = TRUE /\ rd_idx'[Pushed] = 0 /\ wr_idx'[Pushed] = 0
          /\ \A l \in Lidars : l # Pushed =>
                /\ storage_packet'[l] = storage_packet[l] /\ rd_idx'[l] = rd_idx[l]
                /\ wr_idx'[l] = wr_idx[l]
      BY <2>3, <3>1 DEF Types, RingTypes
    <3>5. ASSUME NEW l \in Lidars
          PROVE  /\ Between(rd_idx'[l], wr_idx'[l]) <= QueueSize
                 /\ ~storage_packet'[l] => rd_idx'[l] = wr_idx'[l]
      BY <1>0, <3>3, <3>4 DEF RingInv
    <3>6. poll'.pc \in {"read", "popped"} => poll.lidar # Pushed
      BY <3>1, <3>2 DEF RingInv
    <3> QED
      BY <1>0, <2>3, <3>1, <3>4, <3>5, <3>6 DEF RingInv
  <2> QED
    BY <1>6, <2>1, <2>2, <2>3 DEF StoragePointData
<1>7. CASE PushLidarData
  <2>1. CASE ~QueueIsFull(Pushed) /\ produce("write")
    <3>1. /\ producer'.pc = "write" /\ Pushed' = Pushed /\ Pushed \in Lidars
          /\ producer.pc = "push" /\ UNCHANGED <<ring, poll>>
      BY <1>0, <1>7, <2>1, ProducerMoves DEF PushLidarData, ProducerPC
    <3>2. ~(Between(rd_idx[Pushed], wr_idx[Pushed]) > QueueSize - 1)
      BY <2>1 DEF QueueIsFull, QueueUsedSize, Between
    <3>3. Between(rd_idx[Pushed], wr_idx[Pushed]) < QueueSize
      BY <1>0, <3>1, <3>2, RingFacts
    <3> QED
      BY <3>1, <3>3, RingKept DEF RingInv
  <2>2. CASE produce("count")
    BY <1>0, <1>2, <1>7, <2>2, ProducerMoves DEF PushLidarData, ProducerPC
  <2> QED
    BY <1>7, <2>1, <2>2 DEF PushLidarData, FullRing
<1>8. CASE QueueWrite
  <2>1. /\ producer'.pc = "advance" /\ Pushed' = Pushed /\ Pushed \in Lidars
        /\ producer.pc = "write" /\ UNCHANGED <<storage_packet, rd_idx, wr_idx, poll>>
    BY <1>0, <1>8, ProducerMoves DEF QueueWrite, ProducerPC
  <2>2. ASSUME in_order
        PROVE  \E f : slots' = [slots EXCEPT ![Pushed][At(wr_idx[Pushed])] = f]
    BY <1>8, <2>2 DEF QueueWrite
  <2>3. ASSUME in_order, poll.pc = "popped"
        PROVE  poll.pkg = slots'[poll.lidar][At(rd_idx[poll.lidar])]
    <3>1. CASE poll.lidar # Pushed
      <4>1. slots'[poll.lidar] = slots[poll.lidar]
        BY <1>0, <2>2, <2>3, <3>1 DEF Types, RingTypes
      <4> QED
        BY <2>3, <4>1 DEF RingInv
    <3>2. CASE poll.lidar = Pushed
      <4> DEFINE n == Between(rd_idx[Pushed], wr_idx[Pushed])
      <4>1. rd_idx[Pushed] \in Nat /\ n \in Nat /\ 0 < n /\ n < QueueSize
        BY <2>1, <2>3, <3>2, RingFacts, IndexFacts DEF RingInv
      <4>2. At(rd_idx[Pushed] + n) = At(wr_idx[Pushed])
        BY <2>1, RingFacts, BetweenSucc DEF Index
      <4> HIDE DEF n
      <4>3. rd_idx[Pushed] + n \in Nat /\ rd_idx[Pushed] < rd_idx[Pushed] + n
            /\ rd_idx[Pushed] + n < rd_idx[Pushed] + QueueSize
        BY <1>0, <4>1
      <4>4. /\ At(rd_idx[Pushed]) # At(wr_idx[Pushed])
            /\ At(rd_idx[Pushed]) \in 0..QueueSize-1
        BY <4>1, <4>2, <4>3, AtFacts
      <4>5. slots'[Pushed][At(rd_idx[Pushed])] = slots[Pushed][At(rd_idx[Pushed])]
        BY <2>1, <2>2, <2>3, <4>4, RingFacts, Zenon DEF Types, RingTypes, Slots
      <4> QED
        BY <2>3, <3>2, <4>5 DEF RingInv
    <3> QED
      BY <3>1, <3>2
  <2> QED
    BY <2>1, <2>3 DEF RingInv
<1>9. CASE QueuePushUpdate
  <2>1. /\ producer'.pc = "notify" /\ Pushed \in Lidars /\ producer.pc = "advance"
        /\ UNCHANGED <<storage_packet, rd_idx, slots, poll>>
    BY <1>0, <1>9, ProducerMoves DEF QueuePushUpdate, ProducerPC
  <2>2. Between(rd_idx[Pushed], wr_idx[Pushed]) < QueueSize /\ storage_packet[Pushed]
    BY <2>1 DEF RingInv
  <2>3. /\ wr_idx'[Pushed] = Succ(wr_idx[Pushed])
        /\ \A l \in Lidars : l # Pushed => wr_idx'[l] = wr_idx[l]
    BY <1>9, <2>1 DEF QueuePushUpdate, Types, RingTypes
  <2>4. Between(rd_idx[Pushed], Succ(wr_idx[Pushed])) =
           Between(rd_idx[Pushed], wr_idx[Pushed]) + 1
    BY <2>1, <2>2, RingFacts, WindowPush
  <2>5. rd_idx[Pushed] # Succ(wr_idx[Pushed])
    <3>1. Succ(wr_idx[Pushed]) \in Index
      BY <2>1, RingFacts, IndexFacts
    <3> QED
      BY <2>1, <2>4, <3>1, RingFacts, BetweenSucc DEF Index
  <2>6. ASSUME NEW l \in Lidars
        PROVE  /\ Between(rd_idx[l], wr_idx'[l]) <= QueueSize
               /\ ~storage_packet[l] => rd_idx[l] = wr_idx'[l]
    <3>1. CASE l = Pushed
      BY <1>0, <2>2, <2>3, <2>4, <3>1, RingFacts
    <3>2. CASE l # Pushed
      BY <2>3, <3>2 DEF RingInv
    <3> QED
      BY <3>1, <3>2
  <2>7. poll.pc \in {"read", "popped"} => rd_idx[poll.lidar] # wr_idx'[poll.lidar]
    BY <1>0, <2>3, <2>5 DEF RingInv
  <2> QED
    BY <2>1, <2>6, <2>7 DEF RingInv
<1>10. CASE NotifyIfStored \/ GetCount \/ Signal
  <2>1. UNCHANGED <<ring, poll>>
    BY <1>10 DEF NotifyIfStored, GetCount, Signal
  <2>2. nextPackage \/ (producer.pc # "collect" /\ \E pc \in {"count", "signal"} : produce(pc))
    BY <1>10 DEF NotifyIfStored, GetCount, Signal
  <2>3. producer'.pc \notin {"push", "write", "advance"}
    BY <1>0, <2>2, ProducerMoves DEF ProducerPC
  <2> QED
    BY <1>2, <2>1, <2>3
<1>11. CASE Wait
  <2>1. poll'.pc = "lidar"
    BY <1>0, <1>11 DEF Wait, PollInv
  <2> QED
    BY <1>3, <1>11, <2>1 DEF Wait
<1>12. CASE Distribute \/ PollingLidar \/ PollingLidarPointCloudData \/ PollThread
  <2>1. nextLidar \/ \E pc \in PollPC \ {"read", "popped"} : goto(pc)
    BY <1>12 DEF Distribute, PollingLidar, PollingLidarPointCloudData, PollThread, PollPC
  <2>2. poll'.pc \notin {"read", "popped"}
    BY <1>0, <2>1, PollMoves
  <2>3. UNCHANGED <<ring, producer>>
    BY <1>12 DEF Distribute, PollingLidar, PollingLidarPointCloudData, PollThread
  <2> QED
    BY <1>3, <2>2, <2>3
<1>13. CASE PublishPointcloud2
  <2>0. UNCHANGED <<ring, producer>>
    BY <1>13 DEF PublishPointcloud2
  <2>1. CASE QueueIsEmpty(poll.lidar)
    <3>1. goto("outer")
      BY <1>13, <2>1 DEF PublishPointcloud2
    <3>2. poll'.pc = "outer"
      BY <1>0, <3>1, PollMoves DEF PollPC
    <3> QED
      BY <1>3, <2>0, <3>2
  <2>2. CASE ~QueueIsEmpty(poll.lidar)
    <3>1. goto("read")
      BY <1>13, <2>2 DEF PublishPointcloud2
    <3>2. poll'.pc = "read" /\ poll'.lidar = poll.lidar
      BY <1>0, <3>1, PollMoves DEF PollPC
    <3>3. rd_idx[poll.lidar] # wr_idx[poll.lidar]
      BY <2>2 DEF QueueIsEmpty
    <3> QED
      BY <1>0, <1>a, <2>0, <3>2, <3>3, RingKept DEF RingInv
  <2> QED
    BY <2>1, <2>2
<1>14. CASE QueuePrePop
  <2>1. /\ poll.pc = "read" /\ poll'.pc = "popped" /\ poll'.lidar = poll.lidar
        /\ in_order => poll'.pkg = slots[poll.lidar][At(rd_idx[poll.lidar])]
        /\ UNCHANGED <<ring, producer>>
    BY <1>0, <1>14 DEF QueuePrePop, Visible, PollInv
  <2> QED
    BY <1>0, <1>a, <2>1, RingKept DEF RingInv
<1>15. CASE QueuePopUpdate
  <2> DEFINE l0 == poll.lidar
  <2>1. /\ poll'.pc = "inner" /\ poll.pc = "popped"
        /\ UNCHANGED <<storage_packet, wr_idx, slots, producer>>
    BY <1>0, <1>15, PollMoves DEF QueuePopUpdate, PollPC
  <2>2. /\ rd_idx'[l0] = Succ(rd_idx[l0])
        /\ \A l \in Lidars : l # l0 => rd_idx'[l] = rd_idx[l]
    BY <1>0, <1>15 DEF QueuePopUpdate, Types, RingTypes
  <2>3. Between(Succ(rd_idx[l0]), wr_idx[l0]) = Between(rd_idx[l0], wr_idx[l0]) - 1
    <3>1. rd_idx[l0] # wr_idx[l0]
      BY <2>1 DEF RingInv
    <3> QED
      BY <1>0, <3>1, RingFacts, WindowPop
  <2>4. storage_packet[l0]
    BY <1>0, <2>1 DEF RingInv
  <2> HIDE DEF l0
  <2>5. ASSUME NEW l \in Lidars
        PROVE  /\ Between(rd_idx'[l], wr_idx[l]) <= QueueSize
               /\ ~storage_packet[l] => rd_idx'[l] = wr_idx[l]
    <3>1. CASE l = l0
      BY <1>0, <2>2, <2>3, <2>4, <3>1, RingFacts
    <3>2. CASE l # l0
      BY <2>2, <3>2 DEF RingInv
    <3> QED
      BY <3>1, <3>2
  <2>6. producer.pc \in {"write", "advance"} =>
           Between(rd_idx'[Pushed], wr_idx[Pushed]) < QueueSize
    <3> SUFFICES ASSUME producer.pc \in {"write", "advance"}
                 PROVE  Between(rd_idx'[Pushed], wr_idx[Pushed]) < QueueSize
      OBVIOUS
    <3>1. CASE Pushed = l0
      BY <1>0, <2>2, <2>3, <3>1, RingFacts
    <3>2. CASE Pushed # l0
      BY <1>0, <2>2, <3>2 DEF RingInv
    <3> QED
      BY <3>1, <3>2
  <2> QED
    BY <1>a, <2>1, <2>5, <2>6 DEF RingInv
<1>16. CASE UNCHANGED vars
  BY <1>1, <1>16 DEF vars
<1> QED
  BY <1>4, <1>5, <1>6, <1>7, <1>8, <1>9, <1>10, <1>11, <1>12, <1>13, <1>14, <1>15, <1>16
  DEF Next, Produce, Poll

LEMMA RingCorrect == Spec => []RingInv
<1>1. Init => RingInv
  <2> SUFFICES ASSUME Init PROVE RingInv
    OBVIOUS
  <2>1. Between(0, 0) = 0 /\ 0 <= QueueSize
    BY BetweenSucc, DriverAssumption
  <2>2. producer.pc = "collect" /\ poll.pc = "start"
    BY DEF Init
  <2> QED
    BY <2>1, <2>2 DEF Init, RingInv
<1> QED
  BY <1>1, RingStep, TypesCorrect, PTL DEF Spec

\* On a machine that keeps the order of the program, the indices alone keep the producer and
\* the consumer of a ring out of each other's slots, for every size of the ring and width of
\* the counters.
THEOREM SlotsApart == Spec => []NoSlotRace
<1>1. Types /\ RingInv => NoSlotRace
  <2> SUFFICES ASSUME Types, RingInv, producer.pc = "write", poll.pc = "read",
                      Pushed = poll.lidar,
                      At(wr_idx[Pushed]) = At(rd_idx[poll.lidar])
               PROVE  FALSE
    BY DEF NoSlotRace
  <2> DEFINE rd == rd_idx[Pushed]
             n == Between(rd_idx[Pushed], wr_idx[Pushed])
  <2>0. Pushed \in Lidars /\ QueueSize \in Nat
    BY ProducerMoves, DriverAssumption DEF Types
  <2>1. rd \in Nat /\ n \in Nat /\ 0 < n /\ n < QueueSize
    BY <2>0, RingFacts, IndexFacts DEF RingInv
  <2>2. At(rd + n) = At(rd)
    BY <2>0, RingFacts, BetweenSucc DEF Index
  <2> HIDE DEF rd, n
  <2>3. rd + n \in Nat /\ rd < rd + n /\ rd + n < rd + QueueSize
    BY <2>0, <2>1
  <2> QED
    BY <2>1, <2>2, <2>3, AtFacts
<1> QED
  BY <1>1, TypesCorrect, RingCorrect, PTL

-----------------------------------------------------------------------------
\* The ring implements a queue: the step that moves wr_idx stores, the one that moves rd_idx
\* pops, and no other step changes what the ring holds.  What is known of the frames in it,
\* in an order or without one, is what a ring would hold whose slots are known that far.
KnownIf(order, f) == IF order THEN f ELSE CHOOSE g \in Frame : TRUE

KnownSlots(order, s) == [i \in 0..QueueSize-1 |-> KnownIf(order, s[i])]

KnownWindow(order, W) == [i \in DOMAIN W |-> KnownIf(order, W[i])]

LEMMA KnownFacts ==
    ASSUME NEW order \in BOOLEAN
    PROVE  /\ \A f \in Frame : KnownIf(order, f) \in Frame
           /\ \A s \in Slots : /\ KnownSlots(order, s) \in Slots
                              /\ \A i \in 0..QueueSize-1 :
                                    KnownSlots(order, s)[i] = KnownIf(order, s[i])
<1>1. ASSUME NEW f \in Frame PROVE KnownIf(order, f) \in Frame
  BY DEF KnownIf
<1> QED
  BY <1>1 DEF KnownSlots, Slots

LEMMA WindowKnown ==
    ASSUME NEW order \in BOOLEAN, NEW s \in Slots, NEW rd \in Index, NEW wr \in Index
    PROVE  KnownWindow(order, Window(s, rd, wr)) = Window(KnownSlots(order, s), rd, wr)
<1> DEFINE n == Between(rd, wr)
           W == Window(s, rd, wr)
<1>1. ASSUME NEW i \in 1..n
      PROVE  KnownSlots(order, s)[At(rd + i - 1)] = KnownIf(order, s[At(rd + i - 1)])
  <2>0. n \in Nat /\ rd \in Nat
    BY IndexFacts
  <2>1. rd + i - 1 \in Nat
    BY <2>0
  <2>2. At(rd + i - 1) \in 0..QueueSize-1
    BY <2>1, AtFacts
  <2> QED
    BY <2>2, KnownFacts
<1>2. DOMAIN W = 1..n /\ \A i \in 1..n : W[i] = s[At(rd + i - 1)]
  BY Zenon DEF Window
<1>3. KnownWindow(order, W) = [i \in 1..n |-> KnownIf(order, s[At(rd + i - 1)])]
  BY <1>2, Zenon DEF KnownWindow
<1>4. Window(KnownSlots(order, s), rd, wr) = [i \in 1..n |-> KnownIf(order, s[At(rd + i - 1)])]
  BY <1>1, Zenon DEF Window
<1> QED
  BY <1>3, <1>4, Zenon

KnownHeld(l) == [i \in DOMAIN Held(l) |-> Known(Held(l)[i])]

Contents == [l \in Lidars |-> KnownHeld(l)]

KnownPopped == [l \in Lidars |-> Known(popped[l])]

LEMMA HeldKnown ==
    ASSUME Types, NEW l \in Lidars
    PROVE  KnownHeld(l) = Window(KnownSlots(in_order, slots[l]), rd_idx[l], wr_idx[l])
<1>1. /\ rd_idx[l] \in Index /\ wr_idx[l] \in Index /\ slots[l] \in Slots
      /\ in_order \in BOOLEAN
  BY DEF Types, RingTypes
<1>2. KnownHeld(l) = KnownWindow(in_order, Held(l))
  BY Zenon DEF KnownHeld, KnownWindow, Known, KnownIf
<1>3. Held(l) = Window(slots[l], rd_idx[l], wr_idx[l])
  BY HeldWindow
<1> QED
  BY <1>1, <1>2, <1>3, WindowKnown

\* The same in the next state, where as much is known as in this one.
LEMMA HeldNext ==
    ASSUME Types, [Next]_vars, NEW l \in Lidars
    PROVE  KnownHeld(l)' = Window(KnownSlots(in_order, slots'[l]), rd_idx'[l], wr_idx'[l])
<1>1. /\ rd_idx'[l] \in Index /\ wr_idx'[l] \in Index /\ slots'[l] \in Slots
      /\ in_order \in BOOLEAN /\ in_order' = in_order
  BY TypesStep, Writers DEF Types, RingTypes
<1>2. KnownHeld(l)' = KnownWindow(in_order', Held(l)')
  BY Zenon DEF KnownHeld, KnownWindow, Known, KnownIf
<1>3. Held(l)' = Window(slots'[l], rd_idx'[l], wr_idx'[l])
  BY DEF Held, Window, QueueUsedSize, Between, At
<1> QED
  BY <1>1, <1>2, <1>3, WindowKnown

LEMMA ContentsKept ==
    ASSUME Types, [Next]_vars,
           \A l \in Lidars : Window(KnownSlots(in_order, slots'[l]), rd_idx'[l], wr_idx'[l])
                               = Window(KnownSlots(in_order, slots[l]), rd_idx[l], wr_idx[l])
    PROVE  Contents' = Contents
<1>1. ASSUME NEW l \in Lidars PROVE KnownHeld(l)' = KnownHeld(l)
  BY HeldKnown, HeldNext
<1> QED
  BY <1>1, Zenon DEF Contents

LEMMA ContentsUpdate ==
    ASSUME NEW l \in Lidars, NEW e, KnownHeld(l)' = e,
           \A k \in Lidars : k # l => KnownHeld(k)' = KnownHeld(k)
    PROVE  Contents[l] = KnownHeld(l) /\ Contents' = [Contents EXCEPT ![l] = e]
<1>1. Contents' = [k \in Lidars |-> KnownHeld(k)']
  BY Zenon DEF Contents
<1>2. [Contents EXCEPT ![l] = e] = [k \in Lidars |-> IF k = l THEN e ELSE KnownHeld(k)]
  BY DEF Contents
<1>3. \A k \in Lidars : KnownHeld(k)' = IF k = l THEN e ELSE KnownHeld(k)
  BY Zenon
<1>4. Contents' = [Contents EXCEPT ![l] = e]
  BY <1>1, <1>2, <1>3, Zenon
<1> QED
  BY <1>4, Zenon DEF Contents

LEMMA StoreStep ==
    ASSUME Types, RingInv, [Next]_vars, QueuePushUpdate
    PROVE  \E l \in Lidars : \E f \in Frame :
              /\ Len(Contents[l]) < QueueSize
              /\ Contents' = [Contents EXCEPT ![l] = Append(Contents[l], f)]
              /\ UNCHANGED KnownPopped
<1>0. Pushed \in Lidars /\ QueueSize \in Nat
  BY ProducerMoves, DriverAssumption DEF QueuePushUpdate, Types
<1>1. PICK l \in Lidars : l = Pushed
  BY <1>0
<1>2. /\ wr_idx'[l] = Succ(wr_idx[l])
      /\ \A k \in Lidars : k # l => wr_idx'[k] = wr_idx[k]
      /\ rd_idx' = rd_idx /\ slots' = slots /\ popped' = popped
      /\ in_order' = in_order
  BY <1>1 DEF QueuePushUpdate, Types, RingTypes
<1>3. Between(rd_idx[l], wr_idx[l]) < QueueSize
  BY <1>1 DEF QueuePushUpdate, RingInv
<1>4. PICK s \in Slots : s = KnownSlots(in_order, slots[l])
  BY RingFacts, KnownFacts DEF Types
<1>5. PICK f \in Frame : f = s[At(wr_idx[l])]
  <2>1. wr_idx[l] \in Nat
    BY RingFacts, IndexFacts
  <2> QED
    BY <2>1, AtFacts DEF Slots
<1>6. KnownHeld(l)' = Append(KnownHeld(l), f)
  <2>1. Window(s, rd_idx[l], Succ(wr_idx[l])) = Append(Window(s, rd_idx[l], wr_idx[l]), f)
    BY <1>3, <1>5, RingFacts, WindowPush
  <2> QED
    BY <1>2, <1>4, <2>1, HeldKnown, HeldNext
<1>7. ASSUME NEW k \in Lidars, k # l PROVE KnownHeld(k)' = KnownHeld(k)
  BY <1>2, <1>7, HeldKnown, HeldNext
<1>8. Len(KnownHeld(l)) < QueueSize
  BY <1>0, <1>3, <1>4, HeldKnown, RingFacts, WindowFacts
<1>9. Contents[l] = KnownHeld(l) /\ Contents' = [Contents EXCEPT ![l] = Append(KnownHeld(l), f)]
  BY <1>6, <1>7, ContentsUpdate
<1>10. UNCHANGED KnownPopped
  BY <1>2 DEF KnownPopped, Known
<1> QED
  BY <1>8, <1>9, <1>10

LEMMA PopStep ==
    ASSUME Types, RingInv, [Next]_vars, QueuePopUpdate
    PROVE  \E l \in Lidars :
              /\ Contents[l] # <<>>
              /\ KnownPopped' = [KnownPopped EXCEPT ![l] = Head(Contents[l])]
              /\ Contents' = [Contents EXCEPT ![l] = Tail(Contents[l])]
<1>1. PICK l \in Lidars : l = poll.lidar
  BY DEF Types, PollInv
<1>2. /\ rd_idx'[l] = Succ(rd_idx[l])
      /\ \A k \in Lidars : k # l => rd_idx'[k] = rd_idx[k]
      /\ wr_idx' = wr_idx /\ slots' = slots
      /\ popped' = [popped EXCEPT ![l] = poll.pkg]
      /\ in_order' = in_order
  BY <1>1 DEF QueuePopUpdate, Types, RingTypes
<1>3. rd_idx[l] # wr_idx[l] /\ (in_order => poll.pkg = slots[l][At(rd_idx[l])])
  BY <1>1 DEF QueuePopUpdate, RingInv
<1>4. PICK s \in Slots : s = KnownSlots(in_order, slots[l])
  BY RingFacts, KnownFacts DEF Types
<1>5. /\ KnownHeld(l) # <<>> /\ Head(KnownHeld(l)) = s[At(rd_idx[l])]
      /\ KnownHeld(l)' = Tail(KnownHeld(l))
  <2>1. LET W == Window(s, rd_idx[l], wr_idx[l])
        IN  /\ W # <<>> /\ Head(W) = s[At(rd_idx[l])]
            /\ Window(s, Succ(rd_idx[l]), wr_idx[l]) = Tail(W)
    BY <1>3, RingFacts, WindowPop
  <2> QED
    BY <1>2, <1>4, <2>1, HeldKnown, HeldNext
<1>6. ASSUME NEW k \in Lidars, k # l PROVE KnownHeld(k)' = KnownHeld(k)
  BY <1>2, <1>6, HeldKnown, HeldNext
<1>7. Contents[l] = KnownHeld(l) /\ Contents' = [Contents EXCEPT ![l] = Tail(KnownHeld(l))]
  BY <1>5, <1>6, ContentsUpdate
<1>8. KnownPopped' = [KnownPopped EXCEPT ![l] = s[At(rd_idx[l])]]
  <2>1. At(rd_idx[l]) \in 0..QueueSize-1
    BY RingFacts, IndexFacts, AtFacts
  <2>2. s[At(rd_idx[l])] = KnownIf(in_order, slots[l][At(rd_idx[l])])
    BY <1>4, <2>1, RingFacts, KnownFacts DEF Types
  <2>3. Known(poll.pkg) = s[At(rd_idx[l])]
    BY <1>3, <2>2 DEF Known, KnownIf
  <2>4. popped'[l] = poll.pkg /\ \A k \in Lidars : k # l => popped'[k] = popped[k]
    BY <1>2 DEF Types, RingTypes
  <2>5. \A k \in Lidars : Known(popped[k])' = IF k = l THEN s[At(rd_idx[l])] ELSE Known(popped[k])
    BY <1>2, <2>3, <2>4 DEF Known
  <2>6. KnownPopped' = [k \in Lidars |-> Known(popped[k])']
    BY Zenon DEF KnownPopped
  <2>7. [KnownPopped EXCEPT ![l] = s[At(rd_idx[l])]]
          = [k \in Lidars |-> IF k = l THEN s[At(rd_idx[l])] ELSE Known(popped[k])]
    BY DEF KnownPopped
  <2> QED
    BY <2>5, <2>6, <2>7, Zenon
<1> QED
  BY <1>5, <1>7, <1>8

LEMMA QueueStep ==
    ASSUME Types, RingInv, [Next]_vars
    PROVE  Queue!Next \/ UNCHANGED <<Contents, KnownPopped>>
<1>0. /\ producer.pc # "collect" => Pushed \in Lidars
      /\ ProducerInv /\ in_order' = in_order
  BY ProducerMoves, Writers DEF Types
<1>a. UNCHANGED popped => UNCHANGED KnownPopped
  BY <1>0 DEF KnownPopped, Known
<1>1. CASE QueuePushUpdate
  BY <1>1, StoreStep DEF Queue!Next, Queue!Store, Contents, KnownHeld, KnownPopped
<1>2. CASE QueuePopUpdate
  BY <1>2, PopStep DEF Queue!Next, Queue!Pop, Contents, KnownHeld, KnownPopped
<1>3. CASE UNCHANGED <<slots, rd_idx, wr_idx, popped>>
  BY <1>a, <1>3, ContentsKept
<1>4. CASE QueueWrite
  <2>1. Pushed \in Lidars /\ UNCHANGED <<rd_idx, wr_idx, popped>> /\ producer.pc = "write"
    BY <1>0, <1>4 DEF QueueWrite
  <2>2. CASE UNCHANGED slots
    BY <1>3, <2>1, <2>2
  <2>3. ASSUME NEW f \in Sends[Pushed],
               slots' = [slots EXCEPT ![Pushed][At(wr_idx[Pushed])] = f]
        PROVE  Contents' = Contents
    <3>1. f \in Frame
      BY <2>1, DriverAssumption DEF Lidars
    <3>2. PICK s \in Slots : s = KnownSlots(in_order, slots[Pushed])
      BY <2>1, RingFacts, KnownFacts DEF Types
    <3>3. PICK g \in Frame : g = KnownIf(in_order, f)
      BY <3>1, KnownFacts DEF Types
    <3>4. /\ slots'[Pushed] = [slots[Pushed] EXCEPT ![At(wr_idx[Pushed])] = f]
          /\ \A k \in Lidars : k # Pushed => slots'[k] = slots[k]
      BY <2>1, <2>3, Zenon DEF Types, RingTypes
    <3>5. KnownSlots(in_order, slots'[Pushed]) = [s EXCEPT ![At(wr_idx[Pushed])] = g]
      <4>1. PICK t \in Slots : t = slots[Pushed]
        BY <2>1, RingFacts
      <4>2. PICK j \in 0..QueueSize-1 : j = At(wr_idx[Pushed])
        BY <2>1, RingFacts, IndexFacts, AtFacts
      <4>3. \A i \in 0..QueueSize-1 :
               KnownIf(in_order, [t EXCEPT ![j] = f][i])
                 = IF i = j THEN g ELSE KnownIf(in_order, t[i])
        BY <3>3, <4>1, <4>2 DEF Slots
      <4>4. [s EXCEPT ![j] = g]
              = [i \in 0..QueueSize-1 |-> IF i = j THEN g ELSE KnownIf(in_order, t[i])]
        BY <3>2, <4>1, <4>2, Zenon DEF KnownSlots
      <4>5. KnownSlots(in_order, [t EXCEPT ![j] = f])
              = [i \in 0..QueueSize-1 |-> IF i = j THEN g ELSE KnownIf(in_order, t[i])]
        BY <4>3, Zenon DEF KnownSlots
      <4>6. slots'[Pushed] = [t EXCEPT ![j] = f]
        BY <3>4, <4>1, <4>2
      <4> QED
        BY <4>2, <4>4, <4>5, <4>6
    <3>6. Between(rd_idx[Pushed], wr_idx[Pushed]) < QueueSize
      BY <2>1 DEF RingInv
    <3>7. ASSUME NEW l \in Lidars
          PROVE  Window(KnownSlots(in_order, slots'[l]), rd_idx'[l], wr_idx'[l])
                   = Window(KnownSlots(in_order, slots[l]), rd_idx[l], wr_idx[l])
      <4>1. CASE l = Pushed
        BY <2>1, <3>2, <3>3, <3>5, <3>6, <4>1, RingFacts, WindowWrite
      <4>2. CASE l # Pushed
        BY <2>1, <3>4, <4>2
      <4> QED
        BY <4>1, <4>2
    <3> QED
      BY <3>7, ContentsKept
  <2> QED
    BY <1>a, <1>4, <2>1, <2>2, <2>3 DEF QueueWrite
<1>5. CASE StoragePointData
  <2>1. CASE UNCHANGED ring
    BY <1>3, <1>5, <2>1 DEF StoragePointData, ring
  <2>2. CASE /\ ~storage_packet[Pushed]
             /\ rd_idx' = [rd_idx EXCEPT ![Pushed] = 0]
             /\ wr_idx' = [wr_idx EXCEPT ![Pushed] = 0]
             /\ UNCHANGED slots
    <3>1. Pushed \in Lidars /\ UNCHANGED popped
      BY <1>0, <1>5 DEF StoragePointData
    <3>2. rd_idx[Pushed] = wr_idx[Pushed] /\ 0 \in Index
      BY <2>2, <3>1, DriverAssumption DEF RingInv, Index
    <3>3. /\ rd_idx'[Pushed] = 0 /\ wr_idx'[Pushed] = 0
          /\ \A k \in Lidars : k # Pushed => rd_idx'[k] = rd_idx[k] /\ wr_idx'[k] = wr_idx[k]
      BY <2>2, <3>1 DEF Types, RingTypes
    <3>4. ASSUME NEW l \in Lidars
          PROVE  Window(KnownSlots(in_order, slots'[l]), rd_idx'[l], wr_idx'[l])
                   = Window(KnownSlots(in_order, slots[l]), rd_idx[l], wr_idx[l])
      <4>1. CASE l = Pushed
        BY <3>1, <3>2, <3>3, <4>1, RingFacts, WindowEmpty
      <4>2. CASE l # Pushed
        BY <2>2, <3>3, <4>2
      <4> QED
        BY <4>1, <4>2
    <3> QED
      BY <1>a, <3>1, <3>4, ContentsKept
  <2> QED
    BY <1>5, <2>1, <2>2 DEF StoragePointData
<1> QED
  BY <1>1, <1>2, <1>3, <1>4, <1>5, Writers

\* The ring implements the abstract queue: without a lock, with counters that run over, and
\* allocated while the polling thread may look at it, every stored frame is published once
\* and in its turn; what is published is what was stored on a machine that keeps the order
\* of the program, and only there.
THEOREM RingRefinesQueue == Spec => DeliversFramesInOrder
<1>1. Init => Queue!Init
  <2> SUFFICES ASSUME Init PROVE Queue!Init
    OBVIOUS
  <2>1. ASSUME NEW l \in Lidars PROVE KnownHeld(l) = <<>>
    <3>1. rd_idx[l] = 0 /\ wr_idx[l] = 0 /\ 0 \in Index
      BY DriverAssumption DEF Init, Index
    <3> QED
      BY <3>1, InitTypes, HeldKnown, WindowEmpty
  <2>2. popped \in [Lidars -> Frame] /\ in_order \in BOOLEAN
    BY InitTypes DEF Types, RingTypes
  <2>3. \A l \in Lidars : Known(popped[l]) \in Frame
    BY <2>2, KnownFacts DEF Known, KnownIf
  <2> QED
    BY <2>1, <2>3 DEF Queue!Init, KnownHeld
<1>2. Types /\ RingInv /\ [Next]_vars => [Queue!Next]_<<Contents, KnownPopped>>
  BY QueueStep
<1> QED
  BY <1>1, <1>2, TypesCorrect, RingCorrect, PTL
  DEF Spec, DeliversFramesInOrder, Queue!Spec, Contents, KnownHeld, KnownPopped
=============================================================================
