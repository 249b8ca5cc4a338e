--------------------------- MODULE CmdQueueProofs ---------------------------
(***************************************************************************)
(* What CmdQueue keeps for every ring size and every number of commands.   *)
(*                                                                         *)
(* InOrder needs no bound on the load.  Its invariant, RingOrdered, reads  *)
(* the ring from putIndex round: the values rise with the distance from    *)
(* putIndex (never written slots, which hold 0, come first), and every     *)
(* slot the engine can still read holds a command newer than the last one  *)
(* delivered.  ImplementsChannel comes step by step, with Waiting for the  *)
(* length of Pending and Slot(k) for the place of its kth command.         *)
(***************************************************************************)
EXTENDS CmdQueue, SequenceTheorems, TLAPS

(* The distance of slot i from putIndex, going forward round the ring: the *)
(* larger it is the more recently the slot was written.                    *)
Age(i, put) == IF i >= put THEN i - put ELSE i - put + QueueSize

(* The slots the engine can get before another command is put.             *)
Readable(i) ==
    /\ engPC = "get" \/ getIndex # putIndex
    /\ Age(i, putIndex) >= Age(getIndex, putIndex)

RingOrdered ==
    /\ delivered <= handled
    /\ netPC = "put" => handled < MaxCommands
    /\ \A i \in Indices : slots[i] <= handled
    /\ \A i, j \in Indices :
         Age(i, putIndex) < Age(j, putIndex) => slots[i] = 0 \/ slots[i] < slots[j]
    /\ \A i \in Indices : Readable(i) => slots[i] > delivered

-----------------------------------------------------------------------------
(* After steps to the next index and back to 0 at the end of the ring.     *)
LEMMA AfterIsSuccessor ==
    ASSUME NEW i \in Indices
    PROVE  /\ After(i) = IF i = QueueSize - 1 THEN 0 ELSE i + 1
           /\ After(i) \in Indices
  BY QueueAssumption DEF After, Indices

(* The indices stay in the ring, the program counters in their sets and    *)
(* the bound on the commands is kept: TypeOK, with the guard of NetPut.    *)
LEMMA TypeInductive ==
    ASSUME TypeOK, netPC = "put" => handled < MaxCommands, [Next]_vars
    PROVE  TypeOK' /\ (netPC = "put" => handled < MaxCommands)'
  <1> USE QueueAssumption DEF TypeOK
  <1>1. CASE NetCheck
    BY <1>1 DEF NetCheck
  <1>2. CASE NetPut
    BY <1>2, AfterIsSuccessor DEF NetPut
  <1>3. CASE EngStart
    BY <1>3 DEF EngStart
  <1>4. CASE EngTest
    BY <1>4 DEF EngTest
  <1>5. CASE EngGet
    BY <1>5, AfterIsSuccessor DEF EngGet
  <1>6. CASE UNCHANGED vars
    BY <1>6 DEF vars
  <1> QED
    BY <1>1, <1>2, <1>3, <1>4, <1>5, <1>6 DEF Next, Net, Engine

(* The ring, its indices and the counters of cmd_queue keep their types.   *)
THEOREM TypeCorrect == Spec => []TypeOK
  <1> DEFINE T == TypeOK /\ (netPC = "put" => handled < MaxCommands)
  <1>1. Init => T
    <2> SUFFICES ASSUME Init PROVE T
      OBVIOUS
    <2>1. overloaded \in BOOLEAN
      BY Zenon DEF Init
    <2> QED
      BY <2>1, QueueAssumption DEF Init, TypeOK, Indices
  <1>2. T /\ [Next]_vars => T'
    BY TypeInductive
  <1>3. T => TypeOK
    OBVIOUS
  <1> QED
    BY <1>1, <1>2, <1>3, PTL DEF Spec

-----------------------------------------------------------------------------
(* Reading from putIndex round, the ages are 0 .. QueueSize - 1, and when  *)
(* putIndex moves the slot just written becomes the youngest while every   *)
(* other one ages by one place.                                            *)
LEMMA PutAges ==
    ASSUME NEW put \in Indices, NEW i \in Indices
    PROVE  /\ Age(i, put) \in 0 .. QueueSize - 1
           /\ Age(i, After(put)) =
                IF i = put THEN QueueSize - 1 ELSE Age(i, put) - 1
           /\ Age(i, put) = 0 <=> i = put
  BY QueueAssumption, AfterIsSuccessor DEF Age, Indices

(* The slot after i is one place younger, unless i is the youngest.        *)
LEMMA NextAge ==
    ASSUME NEW put \in Indices, NEW i \in Indices
    PROVE  IF After(i) = put THEN Age(i, put) = QueueSize - 1
                             ELSE Age(After(i), put) = Age(i, put) + 1
  BY QueueAssumption, AfterIsSuccessor DEF Age, Indices

(* A put keeps the commands in the ring in the order they arrived.         *)
LEMMA PutKeepsOrder ==
    ASSUME TypeOK, RingOrdered, NetPut
    PROVE  RingOrdered'
  <1> USE QueueAssumption
  <1>0. /\ putIndex \in Indices /\ getIndex \in Indices /\ putIndex' \in Indices
        /\ handled \in Nat /\ handled' = handled + 1 /\ delivered \in Nat
        /\ slots \in [Indices -> Nat]
        /\ UNCHANGED <<getIndex, engPC, delivered>>
        /\ putIndex' = After(putIndex)
        /\ netPC' = "read"
    BY AfterIsSuccessor DEF TypeOK, NetPut
  <1>1. \A i \in Indices : slots'[i] = IF i = putIndex THEN handled + 1 ELSE slots[i]
    BY DEF NetPut, TypeOK
  <1>2. delivered' <= handled' /\ (netPC' = "put" => handled' < MaxCommands)
    BY <1>0 DEF RingOrdered
  <1>3. \A i \in Indices : slots'[i] <= handled'
    BY <1>0, <1>1 DEF RingOrdered
  <1>4. ASSUME NEW i \in Indices, NEW j \in Indices,
               Age(i, putIndex') < Age(j, putIndex')
        PROVE  slots'[i] = 0 \/ slots'[i] < slots'[j]
    <2>1. i # putIndex
      BY <1>0, <1>4, PutAges
    <2>2. CASE j = putIndex
      BY <2>1, <2>2, <1>0, <1>1 DEF RingOrdered
    <2>3. CASE j # putIndex
      <3>1. Age(i, putIndex) < Age(j, putIndex)
        BY <2>1, <2>3, <1>0, <1>4, PutAges
      <3> QED
        BY <3>1, <2>1, <2>3, <1>1 DEF RingOrdered
    <2> QED
      BY <2>2, <2>3
  <1>5. ASSUME NEW i \in Indices, Readable(i)'
        PROVE  slots'[i] > delivered'
    <2>1. CASE i = putIndex
      BY <2>1, <1>0, <1>1 DEF RingOrdered
    <2>2. CASE i # putIndex
      <3>1. getIndex # putIndex
        BY <2>2, <1>0, <1>5, PutAges DEF Readable
      <3>2. Readable(i)
        BY <3>1, <2>2, <1>0, <1>5, PutAges DEF Readable
      <3> QED
        BY <3>2, <2>2, <1>0, <1>1 DEF RingOrdered
    <2> QED
      BY <2>1, <2>2
  <1> QED
    BY <1>2, <1>3, <1>4, <1>5 DEF RingOrdered

(* A get takes the oldest and keeps the order of the rest.                 *)
LEMMA GetKeepsOrder ==
    ASSUME TypeOK, RingOrdered, EngGet
    PROVE  RingOrdered' /\ delivered' > delivered
  <1> USE QueueAssumption
  <1>0. /\ putIndex \in Indices /\ getIndex \in Indices /\ getIndex' \in Indices
        /\ handled \in Nat /\ delivered \in Nat /\ slots \in [Indices -> Nat]
        /\ UNCHANGED <<slots, putIndex, netPC, handled>>
        /\ getIndex' = After(getIndex)
        /\ engPC = "get" /\ engPC' = "test"
        /\ delivered' = slots[getIndex]
    BY AfterIsSuccessor DEF TypeOK, EngGet
  <1>1. slots[getIndex] > delivered
    BY <1>0, PutAges DEF RingOrdered, Readable
  <1>2. delivered' <= handled' /\ (netPC' = "put" => handled' < MaxCommands)
    BY <1>0 DEF RingOrdered
  <1>3. ASSUME NEW i \in Indices, Readable(i)'
        PROVE  slots'[i] > delivered'
    <2>1. getIndex' # putIndex
      BY <1>0, <1>3 DEF Readable
    <2>2. Age(getIndex, putIndex) < Age(i, putIndex)
      BY <2>1, <1>0, <1>3, NextAge, PutAges DEF Readable
    <2>3. slots[getIndex] < slots[i]
      BY <2>2, <1>0, <1>1 DEF RingOrdered
    <2> QED
      BY <2>3, <1>0
  <1> QED
    BY <1>0, <1>1, <1>2, <1>3 DEF RingOrdered

(* Every step keeps the order.                                             *)
LEMMA OrderInductive ==
    ASSUME TypeOK, RingOrdered, [Next]_vars
    PROVE  RingOrdered' /\ (getIndex' # getIndex => delivered' > delivered)
  <1>1. CASE NetCheck
    BY <1>1, QueueAssumption DEF NetCheck, TypeOK, RingOrdered, Readable
  <1>2. CASE NetPut
    BY <1>2, PutKeepsOrder DEF NetPut
  <1>3. CASE EngStart
    BY <1>3 DEF EngStart, RingOrdered, Readable
  <1>4. CASE EngTest
    BY <1>4 DEF EngTest, IsEmpty, RingOrdered, Readable
  <1>5. CASE EngGet
    BY <1>5, GetKeepsOrder
  <1>6. CASE UNCHANGED vars
    BY <1>6 DEF vars, RingOrdered, Readable
  <1> QED
    BY <1>1, <1>2, <1>3, <1>4, <1>5, <1>6 DEF Next, Net, Engine

(* The engine never gets a command twice or out of order, whatever the     *)
(* load and the interleaving with the network thread.                      *)
THEOREM DeliveryInOrder == Spec => InOrder
  <1>1. Init => RingOrdered
    BY QueueAssumption DEF Init, RingOrdered, Readable, Indices
  <1>2. TypeOK /\ RingOrdered /\ [Next]_vars
          => RingOrdered' /\ [getIndex' # getIndex => delivered' > delivered]_vars
    BY OrderInductive
  <1> QED
    BY <1>1, <1>2, TypeCorrect, PTL DEF Spec, InOrder

-----------------------------------------------------------------------------
(* Facts about the remainder the ring indices are computed with.           *)

(* x % N is the r of x = N * q + r with 0 <= r < N, and the only such r.   *)
LEMMA Division ==
    ASSUME NEW N \in Nat \ {0}, NEW a \in Int
    PROVE  /\ a \div N \in Int
           /\ a % N \in 0 .. N - 1
           /\ a = N * (a \div N) + (a % N)
  OBVIOUS

(* A multiple of N and a rest below N leave that rest.                     *)
LEMMA RemainderUnique ==
    ASSUME NEW N \in Nat \ {0}, NEW q \in Int, NEW r \in 0 .. N - 1
    PROVE  (N * q + r) % N = r
  OBVIOUS

(* The only multiple of N nearer to 0 than N is 0.                         *)
LEMMA SmallMultiple ==
    ASSUME NEW N \in Nat \ {0}, NEW d \in Int, -N < N * d, N * d < N
    PROVE  d = 0
  <1>1. CASE d >= 1
    <2>1. N * d >= N
      BY <1>1
    <2> QED
      BY <2>1
  <1>2. CASE d <= -1
    <2>1. N * d <= -N
      BY <1>2
    <2> QED
      BY <2>1
  <1> QED
    BY <1>1, <1>2

(* Counting one further and then round the ring is stepping round it.      *)
LEMMA RemainderOfSuccessor ==
    ASSUME NEW N \in Nat \ {0}, NEW a \in Nat
    PROVE  ((a % N) + 1) % N = (a + 1) % N
  <1> DEFINE q == a \div N
             r == a % N
  <1>1. q \in Int /\ r \in 0 .. N - 1 /\ a = N * q + r
    BY Division
  <1> HIDE DEF q, r
  <1>2. CASE r + 1 < N
    <2>1. a + 1 = N * q + (r + 1)
      BY <1>1
    <2>2. (a + 1) % N = r + 1
      BY <2>1, <1>1, <1>2, RemainderUnique
    <2>3. (N * 0 + (r + 1)) % N = r + 1
      BY <1>1, <1>2, RemainderUnique
    <2> QED
      BY <2>2, <2>3, <1>1 DEF r
  <1>3. CASE r + 1 = N
    <2>1. a + 1 = N * (q + 1) + 0
      BY <1>1, <1>3
    <2>2. (a + 1) % N = 0
      BY <2>1, <1>1, RemainderUnique
    <2>3. (N * 1 + 0) % N = 0
      BY RemainderUnique
    <2> QED
      BY <2>2, <2>3, <1>1, <1>3 DEF r
  <1> QED
    BY <1>1, <1>2, <1>3

(* Numbers less than N apart that share a slot are the same number.        *)
LEMMA SameSlot ==
    ASSUME NEW N \in Nat \ {0}, NEW a \in Nat, NEW b \in Nat,
           a <= b, b - a < N, a % N = b % N
    PROVE  a = b
  <1> DEFINE p == a \div N
             q == b \div N
             r == a % N
  <1>1. p \in Int /\ q \in Int /\ r \in 0 .. N - 1
        /\ a = N * p + r /\ b = N * q + r
    BY Division
  <1> HIDE DEF p, q, r
  <1>2. N * (q - p) = b - a
    BY <1>1
  <1>3. q - p = 0
    BY <1>1, <1>2, SmallMultiple
  <1> QED
    BY <1>1, <1>3

(* The distance round the ring of two numbers less than N apart.           *)
LEMMA RemainderOfDifference ==
    ASSUME NEW N \in Nat \ {0}, NEW a \in Nat, NEW b \in Nat, a <= b, b - a < N
    PROVE  ((b % N) - (a % N)) % N = b - a
  <1> DEFINE d == (a \div N) - (b \div N)
  <1>1. d \in Int /\ (b % N) - (a % N) = N * d + (b - a)
    BY Division
  <1> HIDE DEF d
  <1> QED
    BY <1>1, RemainderUnique

-----------------------------------------------------------------------------
(* Lossless is about a load below the ring's size.  Its invariant says     *)
(* where every command is: command n + 1 went through slot n % QueueSize,  *)
(* the indices count the commands put and got, and those in between wait.  *)
LightLoad ==
    /\ refused = 0 /\ delivered = taken
    /\ taken <= handled /\ handled - taken < QueueSize
    /\ netPC = "put" => handled - taken < QueueSize - 1
    /\ engPC = "get" => taken < handled
    /\ putIndex = handled % QueueSize /\ getIndex = taken % QueueSize
    /\ \A n \in taken .. handled - 1 : slots[n % QueueSize] = n + 1

(* Below the limit the full test, broken or not, does not hold.            *)
LEMMA LightLoadNeverFull ==
    ASSUME TypeOK, LightLoad,
           handled - taken < QueueSize - 1
    PROVE  ~IsFull
  <1> USE QueueAssumption
  <1>1. CASE getIndex = 0
    <2>1. CRem(getIndex - 1, QueueSize) = -1 /\ CRem(putIndex, QueueSize) >= 0
      BY <1>1 DEF CRem, TypeOK, Indices
    <2> QED
      BY <2>1 DEF IsFull
  <1>2. CASE getIndex > 0
    <2> SUFFICES ASSUME IsFull PROVE FALSE
      OBVIOUS
    <2>1. putIndex = getIndex - 1
      BY <1>2 DEF IsFull, CRem, TypeOK, Indices
    <2>2. QueueSize \in Nat \ {0} /\ handled \in Nat /\ taken \in Nat
          /\ handled + 1 \in Nat /\ taken <= handled + 1
          /\ (handled + 1) - taken < QueueSize
          /\ putIndex = handled % QueueSize /\ getIndex = taken % QueueSize
      BY DEF LightLoad, TypeOK
    <2>3. ((handled % QueueSize) + 1) % QueueSize = (handled + 1) % QueueSize
      BY <2>2, RemainderOfSuccessor
    <2>4. getIndex % QueueSize = getIndex /\ (handled % QueueSize) + 1 = getIndex
      <3>1. getIndex \in 0 .. QueueSize - 1 /\ QueueSize \in Nat \ {0}
        BY DEF TypeOK, Indices
      <3>2. getIndex % QueueSize = getIndex
        BY <3>1
      <3>3. putIndex + 1 = getIndex
        BY <2>1, <3>1 DEF TypeOK, Indices
      <3> QED
        BY <2>2, <3>2, <3>3
    <2>5. taken = handled + 1
      <3>1. taken % QueueSize = (handled + 1) % QueueSize
        BY <2>2, <2>3, <2>4
      <3> QED
        BY <3>1, <2>2, SameSlot
    <2> QED
      BY <2>5 DEF LightLoad, TypeOK
  <1> QED
    BY <1>1, <1>2 DEF TypeOK, Indices

(* A put below the limit adds one command to those that wait.              *)
LEMMA PutKeepsLightLoad ==
    ASSUME TypeOK, LightLoad, NetPut
    PROVE  LightLoad'
  <1> USE QueueAssumption
  <1>1. handled \in Nat /\ taken \in Nat /\ handled' = handled + 1
        /\ taken <= handled /\ handled - taken < QueueSize - 1
        /\ QueueSize \in Nat \ {0} /\ netPC' = "read"
        /\ UNCHANGED <<taken, delivered, refused, getIndex, engPC>>
    BY DEF NetPut, TypeOK, LightLoad
  <1>2. putIndex' = handled' % QueueSize
    <2>1. putIndex' = ((handled % QueueSize) + 1) % QueueSize
      BY DEF NetPut, After, LightLoad
    <2> QED
      BY <1>1, <2>1, RemainderOfSuccessor
  <1>3. ASSUME NEW n \in taken .. handled
        PROVE  slots'[n % QueueSize] = n + 1
    <2>1. n % QueueSize \in Indices
      BY <1>1 DEF Indices
    <2>2. CASE n = handled
      BY <2>1, <2>2 DEF NetPut, TypeOK, LightLoad
    <2>3. CASE n # handled
      <3>1. n \in Nat /\ n < handled /\ handled - n < QueueSize
            /\ n \in taken .. handled - 1
        BY <1>1, <2>3
      <3>2. n % QueueSize # handled % QueueSize
        <4>1. QueueSize \in Nat \ {0} /\ handled \in Nat
              /\ n <= handled /\ n # handled
          BY <1>1, <3>1
        <4>2. (n % QueueSize = handled % QueueSize) => n = handled
          BY <3>1, <4>1, SameSlot
        <4> QED
          BY <4>1, <4>2
      <3>3. slots[n % QueueSize] = n + 1
        BY <3>1 DEF LightLoad
      <3> QED
        BY <3>2, <3>3, <2>1 DEF NetPut, TypeOK, LightLoad
    <2> QED
      BY <2>2, <2>3
  <1>4. refused' = 0 /\ delivered' = taken' /\ getIndex' = taken' % QueueSize
        /\ taken' <= handled' /\ handled' - taken' < QueueSize
        /\ taken' < handled'
    BY <1>1 DEF LightLoad
  <1>5. \A n \in taken' .. handled' - 1 : slots'[n % QueueSize] = n + 1
    BY <1>1, <1>3
  <1> QED
    BY <1>1, <1>2, <1>4, <1>5 DEF LightLoad

(* A get takes one command off those that wait.                            *)
LEMMA GetKeepsLightLoad ==
    ASSUME TypeOK, LightLoad, EngGet
    PROVE  LightLoad'
  <1> USE QueueAssumption
  <1>1. handled \in Nat /\ taken \in Nat /\ taken < handled
        /\ taken' = taken + 1 /\ engPC' = "test"
        /\ UNCHANGED <<slots, putIndex, netPC, handled, refused>>
    BY DEF EngGet, TypeOK, LightLoad
  <1>2. getIndex' = taken' % QueueSize
    <2>1. getIndex' = ((taken % QueueSize) + 1) % QueueSize
      BY DEF EngGet, After, LightLoad
    <2>2. QueueSize \in Nat \ {0}
      OBVIOUS
    <2> QED
      BY <1>1, <2>1, <2>2, RemainderOfSuccessor
  <1>3. delivered' = taken'
    <2>1. taken \in taken .. handled - 1
      BY <1>1
    <2>2. slots[taken % QueueSize] = taken + 1
      BY <2>1 DEF LightLoad
    <2> QED
      BY <1>1, <2>2 DEF EngGet, LightLoad
  <1>4. refused' = 0 /\ putIndex' = handled' % QueueSize
        /\ taken' <= handled' /\ handled' - taken' < QueueSize - 1
    BY <1>1 DEF LightLoad, TypeOK
  <1>5. ASSUME NEW n \in taken' .. handled' - 1
        PROVE  slots'[n % QueueSize] = n + 1
    <2>1. n \in taken .. handled - 1 /\ slots' = slots
      BY <1>1
    <2> QED
      BY <2>1 DEF LightLoad
  <1> QED
    BY <1>1, <1>2, <1>3, <1>4, <1>5 DEF LightLoad

(* Every step keeps the account of commands below the limit.               *)
LEMMA LightLoadInductive ==
    ASSUME ~overloaded', TypeOK, LightLoad, [Next]_vars
    PROVE  LightLoad'
  <1> USE QueueAssumption
  <1>1. CASE NetCheck
    <2>1. handled - taken < QueueSize - 1
      <3>1. ~(handled - delivered >= QueueSize - 1)
        BY <1>1, Zenon DEF NetCheck
      <3> QED
        BY <3>1 DEF LightLoad, TypeOK
    <2>2. ~IsFull
      BY <2>1, LightLoadNeverFull
    <2> QED
      BY <1>1, <2>1, <2>2 DEF NetCheck, LightLoad
  <1>2. CASE NetPut
    BY <1>2, PutKeepsLightLoad
  <1>3. CASE EngStart
    BY <1>3 DEF EngStart, LightLoad
  <1>4. CASE EngTest
    <2>1. IsEmpty \/ taken < handled
      BY DEF IsEmpty, LightLoad, TypeOK
    <2> QED
      BY <1>4, <2>1 DEF EngTest, LightLoad
  <1>5. CASE EngGet
    BY <1>5, GetKeepsLightLoad
  <1>6. CASE UNCHANGED vars
    BY <1>6 DEF vars, LightLoad
  <1> QED
    BY <1>1, <1>2, <1>3, <1>4, <1>5, <1>6 DEF Next, Net, Engine

(* With the account kept, nothing is refused or lost.                      *)
LEMMA LightLoadIsLossless ==
    ASSUME TypeOK, LightLoad
    PROVE  Lossless
  <1> USE QueueAssumption
  <1>1. handled \in Nat /\ taken \in Nat /\ taken <= handled
        /\ handled - taken < QueueSize /\ QueueSize \in Nat \ {0}
        /\ putIndex = handled % QueueSize /\ getIndex = taken % QueueSize
    BY DEF LightLoad, TypeOK
  <1>2. (putIndex - getIndex) % QueueSize = handled - taken
    <2>1. ((handled % QueueSize) - (taken % QueueSize)) % QueueSize = handled - taken
      BY <1>1, RemainderOfDifference
    <2> QED
      BY <1>1, <2>1
  <1>3. ~(engPC = "get" /\ IsEmpty)
    <2>1. IsEmpty => taken = handled
      BY <1>1, SameSlot DEF IsEmpty
    <2> QED
      BY <1>1, <2>1 DEF LightLoad
  <1> QED
    BY <1>1, <1>2, <1>3 DEF Lossless, PendingCount, LightLoad

(* The account is kept for as long as there is no overload, and overload   *)
(* is for good.                                                            *)
LightLoadInv == ~overloaded => LightLoad

(* Until a full ring's worth of commands is outstanding, none is refused   *)
(* and none is lost, for every size of the ring.                           *)
THEOREM NothingLostUnderLightLoad == Spec => []Lossless
  <1>1. Init => LightLoadInv
    BY QueueAssumption DEF Init, LightLoad, LightLoadInv
  <1>2. TypeOK /\ LightLoadInv /\ [Next]_vars => LightLoadInv'
    <2> SUFFICES ASSUME TypeOK, LightLoadInv, [Next]_vars, ~overloaded'
                 PROVE  LightLoad'
      BY DEF LightLoadInv
    <2>1. ~overloaded
      BY DEF Next, Net, Engine, NetCheck, NetPut, EngStart, EngTest, EngGet, vars
    <2> QED
      BY <2>1, LightLoadInductive DEF LightLoadInv
  <1>3. TypeOK /\ LightLoadInv => Lossless
    BY LightLoadIsLossless DEF LightLoadInv, Lossless
  <1> QED
    BY <1>1, <1>2, <1>3, TypeCorrect, PTL DEF Spec
-----------------------------------------------------------------------------
(* The refinement of CommandChannel.  The distance from getIndex to        *)
(* putIndex is the number waiting, and Slot(k) is where the kth waits.     *)
Waiting == IF engPC = "get" /\ getIndex = putIndex THEN QueueSize
                                                   ELSE Age(putIndex, getIndex)

Slot(k) == IF getIndex + k - 1 < QueueSize THEN getIndex + k - 1
                                           ELSE getIndex + k - 1 - QueueSize

(* A number in the ring, one turn ahead of it or one turn behind is        *)
(* brought back into the ring.                                             *)
LEMMA RemainderInRing ==
    ASSUME NEW d \in Int, -QueueSize <= d, d < 2 * QueueSize
    PROVE  d % QueueSize = IF d < 0 THEN d + QueueSize
                           ELSE IF d < QueueSize THEN d ELSE d - QueueSize
  <1> DEFINE N == QueueSize
  <1>0. N \in Nat \ {0} /\ -N <= d /\ d < N + N
    BY QueueAssumption
  <1> HIDE DEF N
  <1>1. CASE d < 0
    <2>1. d = N * (-1) + (d + N) /\ d + N \in 0 .. N - 1
      BY <1>0, <1>1
    <2> QED
      BY <1>0, <1>1, <2>1, RemainderUnique DEF N
  <1>2. CASE d >= 0 /\ d < N
    <2>1. d = N * 0 + d /\ d \in 0 .. N - 1
      BY <1>0, <1>2
    <2> QED
      BY <1>0, <1>2, <2>1, RemainderUnique DEF N
  <1>3. CASE d >= N
    <2>1. d = N * 1 + (d - N) /\ d - N \in 0 .. N - 1
      BY <1>0, <1>3
    <2> QED
      BY <1>0, <1>3, <2>1, RemainderUnique DEF N
  <1> QED
    BY <1>0, <1>1, <1>2, <1>3 DEF N

PendingShape ==
    /\ PendingCount = Waiting /\ Waiting \in 0 .. QueueSize
    /\ Pending \in Seq(Nat) /\ Len(Pending) = Waiting
    /\ \A k \in 1 .. Waiting : Slot(k) \in Indices /\ Pending[k] = slots[Slot(k)]

(* Pending is a sequence of the commands in the slots from getIndex on.    *)
LEMMA PendingIs ==
    ASSUME TypeOK
    PROVE  PendingShape
  <1>0. /\ QueueSize \in Nat /\ QueueSize >= 2
        /\ putIndex \in 0 .. QueueSize - 1 /\ getIndex \in 0 .. QueueSize - 1
        /\ slots \in [Indices -> Nat]
    BY QueueAssumption DEF TypeOK, Indices
  <1>1. PendingCount = Waiting /\ Waiting \in 0 .. QueueSize
    <2>1. (putIndex - getIndex) % QueueSize = Age(putIndex, getIndex)
      <3> DEFINE d == putIndex - getIndex
      <3>1. d \in Int /\ -QueueSize <= d /\ d < 2 * QueueSize
        BY <1>0
      <3>2. d % QueueSize = IF d < 0 THEN d + QueueSize
                            ELSE IF d < QueueSize THEN d ELSE d - QueueSize
        BY <3>1, RemainderInRing
      <3> QED
        BY <3>2, <1>0 DEF Age
    <2> QED
      BY <1>0, <2>1 DEF PendingCount, IsEmpty, Waiting, Age
  <1>2. ASSUME NEW k \in 1 .. Waiting
        PROVE  (getIndex + k - 1) % QueueSize = Slot(k) /\ Slot(k) \in Indices
    <2> DEFINE d == getIndex + k - 1
    <2>1. d \in Int /\ 0 <= d /\ d < 2 * QueueSize
      BY <1>0, <1>1
    <2>2. d % QueueSize = IF d < 0 THEN d + QueueSize
                          ELSE IF d < QueueSize THEN d ELSE d - QueueSize
      BY <2>1, <1>0, RemainderInRing
    <2> QED
      BY <2>1, <2>2, <1>0 DEF Slot, Indices
  <1>3. Pending = [k \in 1 .. Waiting |-> slots[Slot(k)]]
    BY <1>1, <1>2 DEF Pending
  <1>4. Pending \in [1 .. Waiting -> Nat]
    BY <1>0, <1>2, <1>3
  <1>5. Pending \in Seq(Nat)
    BY <1>1, <1>4, SeqDef
  <1> QED
    BY <1>1, <1>2, <1>3, <1>4, <1>5, LenProperties DEF PendingShape

(* The same after a step.                                                  *)
LEMMA PendingIsNext == TypeOK' => PendingShape'
  <1>1. TypeOK => PendingShape
    BY PendingIs
  <1> QED
    BY <1>1, PTL

(* A full test that holds finds the ring with one free slot, or with the   *)
(* engine about to get from one whose indices have met.                    *)
LEMMA FullIsCrowded ==
    ASSUME TypeOK, IsFull
    PROVE  Waiting >= QueueSize - 1
  <1>1. /\ QueueSize \in Nat /\ QueueSize >= 2
        /\ putIndex \in 0 .. QueueSize - 1 /\ getIndex \in 0 .. QueueSize - 1
    BY QueueAssumption DEF TypeOK, Indices
  <1>2. CRem(putIndex, QueueSize) = putIndex
    BY <1>1 DEF CRem
  <1>3. CASE getIndex = 0
    <2>1. CRem(getIndex - 1, QueueSize) = -1
      BY <1>1, <1>3 DEF CRem
    <2> QED
      BY <1>1, <1>2, <2>1 DEF IsFull
  <1>4. CASE getIndex > 0
    <2>1. CRem(getIndex - 1, QueueSize) = getIndex - 1
      BY <1>1, <1>4 DEF CRem
    <2>2. putIndex = getIndex - 1
      BY <1>2, <2>1 DEF IsFull
    <2> QED
      BY <1>1, <2>2 DEF Waiting, Age
  <1> QED
    BY <1>1, <1>3, <1>4


(* A put appends to what waits, unless it makes the indices meet or comes  *)
(* on top of a full ring: then the channel overruns.                       *)
LEMMA PutRefines ==
    ASSUME TypeOK, netPC = "put" => handled < MaxCommands, NetPut, TypeOK'
    PROVE  Channel!Accept \/ Channel!Overrun
  <1>0. /\ QueueSize \in Nat /\ QueueSize >= 2
        /\ putIndex \in 0 .. QueueSize - 1 /\ getIndex \in 0 .. QueueSize - 1
        /\ slots \in [Indices -> Nat] /\ handled \in Nat
        /\ putIndex' = IF putIndex = QueueSize - 1 THEN 0 ELSE putIndex + 1
        /\ getIndex' = getIndex /\ engPC' = engPC /\ delivered' = delivered
        /\ handled' = handled + 1 /\ handled < MaxCommands
    BY QueueAssumption, AfterIsSuccessor DEF TypeOK, Indices, NetPut
  <1>1. \A i \in Indices : slots'[i] = IF i = putIndex THEN handled + 1 ELSE slots[i]
    BY DEF NetPut, TypeOK
  <1>2. Channel!Offer
    BY <1>0 DEF Channel!Offer
  <1>3. /\ Pending \in Seq(Nat) /\ Len(Pending) = Waiting /\ Waiting \in 0 .. QueueSize
        /\ \A k \in 1 .. Waiting : Slot(k) \in Indices /\ Pending[k] = slots[Slot(k)]
    BY PendingIs DEF PendingShape
  <1>4. /\ Pending' \in Seq(Nat) /\ Len(Pending') = Waiting'
        /\ \A k \in 1 .. Waiting' : Slot(k)' = Slot(k) /\ Pending'[k] = slots'[Slot(k)]
    BY <1>0, PendingIsNext DEF PendingShape, Slot
  <1>5. CASE engPC = "get" /\ getIndex = putIndex
    <2>1. Waiting = QueueSize /\ Waiting' = 1
      BY <1>0, <1>5 DEF Waiting, Age
    <2>2. Slot(1) = putIndex
      BY <1>0, <1>5 DEF Slot
    <2>3. Pending'[1] = handled + 1
      BY <1>0, <1>1, <1>4, <2>1, <2>2 DEF Indices
    <2>4. Pending' = <<handled + 1>>
      <3>1. <<handled + 1>> \in Seq(Nat) /\ Len(<<handled + 1>>) = 1 /\ <<handled + 1>>[1] = handled + 1
        BY <1>0
      <3>2. \A k \in 1 .. Len(Pending') : Pending'[k] = <<handled + 1>>[k]
        BY <1>4, <2>1, <2>3, <3>1
      <3> QED
        BY <1>4, <2>1, <3>1, <3>2, SeqEqual
    <2> QED
      BY <1>0, <1>2, <1>3, <2>1, <2>4 DEF Channel!Overrun, Channel!Crowded
  <1>6. CASE ~(engPC = "get" /\ getIndex = putIndex) /\ engPC # "get" /\ getIndex = putIndex'
    <2>1. Waiting = QueueSize - 1 /\ Waiting' = 0
      BY <1>0, <1>6 DEF Waiting, Age
    <2>2. Pending' = <<>>
      BY <1>4, <2>1, EmptySeq
    <2> QED
      BY <1>0, <1>2, <1>3, <2>1, <2>2 DEF Channel!Overrun, Channel!Crowded
  <1>7. CASE ~(engPC = "get" /\ getIndex = putIndex) /\ ~(engPC # "get" /\ getIndex = putIndex')
    <2>1. Waiting < QueueSize /\ Waiting' = Waiting + 1
      BY <1>0, <1>7 DEF Waiting, Age
    <2>2. Slot(Waiting + 1) = putIndex
      BY <1>0, <1>7 DEF Waiting, Age, Slot
    <2>3. ASSUME NEW k \in 1 .. Waiting
          PROVE  Slot(k) # putIndex
      BY <1>0, <1>7 DEF Waiting, Age, Slot
    <2>4. Pending' = Append(Pending, handled + 1)
      <3> DEFINE s == Append(Pending, handled + 1)
      <3>1. /\ s \in Seq(Nat) /\ Len(s) = Waiting + 1
            /\ \A k \in 1 .. Waiting : s[k] = Pending[k]
            /\ s[Waiting + 1] = handled + 1
        BY <1>0, <1>3, AppendProperties
      <3>2. ASSUME NEW k \in 1 .. Waiting'
            PROVE  Pending'[k] = s[k]
        <4>1. CASE k = Waiting + 1
          BY <4>1, <1>0, <1>1, <1>4, <2>1, <2>2, <3>1 DEF Indices
        <4>2. CASE k # Waiting + 1
          <5>1. k \in 1 .. Waiting
            BY <4>2, <1>3, <2>1
          <5>2. slots'[Slot(k)] = slots[Slot(k)]
            BY <5>1, <1>1, <1>3, <2>3
          <5> QED
            BY <5>1, <5>2, <1>3, <1>4, <3>1
        <4> QED
          BY <4>1, <4>2
      <3> HIDE DEF s
      <3>3. Len(Pending') = Len(s) /\ \A k \in 1 .. Len(Pending') : Pending'[k] = s[k]
        BY <1>4, <2>1, <3>1, <3>2
      <3>4. Pending' = s
        BY <1>4, <3>1, <3>3, SeqEqual
      <3> QED
        BY <3>4 DEF s
    <2> QED
      BY <1>0, <1>2, <1>3, <2>1, <2>4 DEF Channel!Accept
  <1> QED
    BY <1>5, <1>6, <1>7

(* A get takes the first of those that wait.                               *)
LEMMA GetRefines ==
    ASSUME TypeOK, EngGet, TypeOK'
    PROVE  Channel!Take
  <1>0. /\ QueueSize \in Nat /\ QueueSize >= 2
        /\ putIndex \in 0 .. QueueSize - 1 /\ getIndex \in 0 .. QueueSize - 1
        /\ putIndex' = putIndex /\ slots' = slots /\ handled' = handled
        /\ engPC = "get" /\ engPC' = "test" /\ delivered' = slots[getIndex]
        /\ getIndex' = IF getIndex = QueueSize - 1 THEN 0 ELSE getIndex + 1
    BY QueueAssumption, AfterIsSuccessor DEF TypeOK, Indices, EngGet
  <1>1. /\ Pending \in Seq(Nat) /\ Len(Pending) = Waiting /\ Waiting \in 0 .. QueueSize
        /\ \A k \in 1 .. Waiting : Slot(k) \in Indices /\ Pending[k] = slots[Slot(k)]
    BY PendingIs DEF PendingShape
  <1>2. /\ Pending' \in Seq(Nat) /\ Len(Pending') = Waiting'
        /\ \A k \in 1 .. Waiting' : Pending'[k] = slots[Slot(k)']
    BY <1>0, PendingIsNext DEF PendingShape
  <1>3. Waiting > 0 /\ Waiting' = Waiting - 1
    BY <1>0 DEF Waiting, Age
  <1>4. ASSUME NEW k \in 1 .. Waiting'
        PROVE  k + 1 \in 1 .. Waiting /\ Slot(k)' = Slot(k + 1)
    BY <1>0, <1>1, <1>3 DEF Slot
  <1>5. Pending # <<>>
    BY <1>1, <1>3, EmptySeq
  <1>6. /\ Tail(Pending) \in Seq(Nat) /\ Len(Tail(Pending)) = Waiting - 1
        /\ \A k \in 1 .. Waiting - 1 : Tail(Pending)[k] = Pending[k + 1]
    BY <1>1, <1>5, HeadTailProperties
  <1>7. \A k \in 1 .. Len(Pending') : Pending'[k] = Tail(Pending)[k]
    BY <1>1, <1>2, <1>3, <1>4, <1>6
  <1>8. Pending' = Tail(Pending)
    BY <1>2, <1>3, <1>6, <1>7, SeqEqual
  <1>9. Head(Pending) = slots[getIndex]
    <2>1. 1 \in 1 .. Waiting /\ Slot(1) = getIndex
      BY <1>0, <1>1, <1>3 DEF Slot
    <2> QED
      BY <1>1, <2>1
  <1> QED
    BY <1>0, <1>5, <1>8, <1>9 DEF Channel!Take

(* The test for an empty queue and the way back to it move nothing.        *)
LEMMA TestRefines ==
    ASSUME TypeOK, EngStart \/ EngTest \/ UNCHANGED vars
    PROVE  UNCHANGED Channel!channelVars
  <1>1. /\ UNCHANGED <<slots, putIndex, getIndex, handled, delivered>>
        /\ engPC' = "get" => engPC = "get" \/ getIndex # putIndex
        /\ engPC = "get" => engPC' = "get"
    BY DEF EngStart, EngTest, IsEmpty, vars
  <1>2. PendingCount' = PendingCount
    BY <1>1 DEF PendingCount, IsEmpty
  <1>3. Pending' = Pending
    BY <1>1, <1>2 DEF Pending
  <1> QED
    BY <1>1, <1>3 DEF Channel!channelVars

(* Whatever the interleaving, every step of the ring is a step of the      *)
(* channel or moves nothing of it.                                         *)
LEMMA StepRefines ==
    ASSUME TypeOK, netPC = "put" => handled < MaxCommands, [Next]_vars, TypeOK'
    PROVE  [Channel!ChannelNext]_(Channel!channelVars)
  <1>1. CASE NetCheck
    <2>1. UNCHANGED <<slots, putIndex, getIndex, engPC, delivered>>
      BY <1>1 DEF NetCheck
    <2>2. Pending' = Pending
      BY <2>1 DEF Pending, PendingCount, IsEmpty
    <2>3. CASE IsFull
      <3>1. Channel!Crowded
        BY <2>3, FullIsCrowded, PendingIs DEF PendingShape, Channel!Crowded
      <3>2. Channel!Offer
        BY <1>1, <2>3 DEF NetCheck, Channel!Offer
      <3> QED
        BY <2>1, <2>2, <3>1, <3>2 DEF Channel!Refuse, Channel!ChannelNext
    <2>4. CASE ~IsFull
      BY <1>1, <2>1, <2>2, <2>4 DEF NetCheck, Channel!channelVars
    <2> QED
      BY <2>3, <2>4
  <1>2. CASE NetPut
    BY <1>2, PutRefines DEF Channel!ChannelNext
  <1>3. CASE EngStart \/ EngTest \/ UNCHANGED vars
    BY <1>3, TestRefines
  <1>4. CASE EngGet
    BY <1>4, GetRefines DEF Channel!ChannelNext
  <1> QED
    BY <1>1, <1>2, <1>3, <1>4 DEF Next, Net, Engine

(* The ring implements the channel, for every size of the ring and any     *)
(* load: a command is lost or refused only while QueueSize - 1 or more are *)
(* waiting, and what is delivered is the oldest of what waits.             *)
THEOREM RingIsAChannel == Spec => ImplementsChannel
  <1> DEFINE T == TypeOK /\ (netPC = "put" => handled < MaxCommands)
  <1>1. Init => T
    <2> SUFFICES ASSUME Init PROVE T
      OBVIOUS
    <2>1. overloaded \in BOOLEAN
      BY Zenon DEF Init
    <2> QED
      BY <2>1, QueueAssumption DEF Init, TypeOK, Indices
  <1>2. T /\ [Next]_vars => T'
    BY TypeInductive
  <1>3. Init => Channel!ChannelInit
    <2> SUFFICES ASSUME Init PROVE Channel!ChannelInit
      OBVIOUS
    <2>1. T
      BY <1>1
    <2>2. Waiting = 0
      BY QueueAssumption DEF Init, Waiting, Age
    <2>3. Pending = <<>>
      BY <2>1, <2>2, PendingIs, EmptySeq DEF PendingShape
    <2> QED
      BY <2>3 DEF Init, Channel!ChannelInit
  <1>4. T /\ T' /\ [Next]_vars => [Channel!ChannelNext]_(Channel!channelVars)
    BY StepRefines
  <1> QED
    BY <1>1, <1>2, <1>3, <1>4, PTL DEF Spec, ImplementsChannel, Channel!ChannelSpec
=============================================================================
