--------------------------- MODULE FramingProofs ---------------------------
(***************************************************************************)
(* What the receive buffer of Framing keeps, for every capacity, header    *)
(* and number of bytes: its bounds, and that every step it takes is a step *)
(* of LineChannel.                                                         *)
(***************************************************************************)
EXTENDS Framing, SequenceTheorems, TLAPS

(* The strengthening.  A complete line is in the buffer exactly while the  *)
(* inner loop runs, and nothing is found to read only when the peer has    *)
(* hung up and everything it sent has been read.                           *)
FramingInv ==
    /\ TypeOK
    /\ At("line") => Lines!HasLine(buffer)
    /\ At("select") \/ At("read") => ~Lines!HasLine(buffer)
    /\ At("read") /\ a2read = 0 => unread = <<>> /\ hungUp
    /\ why = "open" => invalid <= AllowedInvalid

-----------------------------------------------------------------------------
(* Lines                                                                   *)

(* A string has one first line.                                            *)
LEMMA OneLineEnd ==
    ASSUME NEW s \in Seq(Lines!Bytes), NEW i \in Lines!LineEnds(s)
    PROVE  /\ Lines!LineEnd(s) = i
           /\ i \in 1 .. Len(s)
  <1>1. i \in 1 .. Len(s) /\ s[i] = "lf" /\ \A j \in 1 .. i - 1 : s[j] # "lf"
    BY DEF Lines!LineEnds
  <1>2. ASSUME NEW k \in Lines!LineEnds(s)
        PROVE  k = i
    <2>1. k \in 1 .. Len(s) /\ s[k] = "lf" /\ \A j \in 1 .. k - 1 : s[j] # "lf"
      BY <1>2 DEF Lines!LineEnds
    <2>2. ~(i < k) /\ ~(k < i)
      BY <1>1, <2>1
    <2> QED
      BY <1>1, <2>1, <2>2
  <1> QED
    BY <1>1, <1>2 DEF Lines!LineEnd

(* What follows a string does not change where its lines end.              *)
LEMMA PrefixLineEnds ==
    ASSUME NEW s \in Seq(Lines!Bytes), NEW t \in Seq(Lines!Bytes), NEW i \in 1 .. Len(s)
    PROVE  i \in Lines!LineEnds(s) <=> i \in Lines!LineEnds(s \o t)
  <1>1. /\ s \o t \in Seq(Lines!Bytes) /\ Len(s \o t) = Len(s) + Len(t)
        /\ \A j \in 1 .. Len(s) : (s \o t)[j] = s[j]
    BY ConcatProperties
  <1>2. \A j \in 1 .. i : (s \o t)[j] = s[j]
    BY <1>1
  <1>3. i \in 1 .. Len(s \o t)
    BY <1>1
  <1> QED
    BY <1>2, <1>3 DEF Lines!LineEnds

(* What is left of a string after its first i bytes                        *)
LEMMA Cut ==
    ASSUME NEW s \in Seq(Lines!Bytes), NEW i \in 0 .. Len(s)
    PROVE  /\ SubSeq(s, i + 1, Len(s)) \in Seq(Lines!Bytes)
           /\ Len(SubSeq(s, i + 1, Len(s))) = Len(s) - i
           /\ \A j \in 1 .. Len(s) - i : SubSeq(s, i + 1, Len(s))[j] = s[i + j]
  <1> DEFINE n == Len(s)
  <1>1. n \in Nat /\ i \in Nat /\ i <= n
    BY LenProperties
  <1>2. \A j \in i + 1 .. n : s[j] \in Lines!Bytes
    <2>1. ASSUME NEW j \in i + 1 .. n
          PROVE  s[j] \in Lines!Bytes
      <3>1. j \in 1 .. Len(s)
        BY <1>1
      <3> QED
        BY <3>1, ElementOfSeq
    <2> QED
      BY <2>1
  <1>3. /\ SubSeq(s, i + 1, n) \in Seq(Lines!Bytes)
        /\ Len(SubSeq(s, i + 1, n)) = IF i + 1 <= n THEN n - (i + 1) + 1 ELSE 0
        /\ \A j \in 1 .. n - (i + 1) + 1 : SubSeq(s, i + 1, n)[j] = s[i + 1 + j - 1]
    <2>1. i + 1 \in Int /\ n \in Int
      BY <1>1
    <2> HIDE DEF n
    <2> QED
      BY <1>2, <2>1, SubSeqProperties
  <1> HIDE DEF n
  <1>4. n - (i + 1) + 1 = n - i /\ \A j \in 1 .. n - i : i + 1 + j - 1 = i + j
    BY <1>1
  <1>5. Len(SubSeq(s, i + 1, n)) = n - i
    BY <1>1, <1>3
  <1>6. \A j \in 1 .. n - i : SubSeq(s, i + 1, n)[j] = s[i + j]
    BY <1>3, <1>4
  <1> QED
    BY <1>3, <1>5, <1>6 DEF n

(* What is left of a concatenation after part of its first operand         *)
LEMMA AfterConcat ==
    ASSUME NEW s \in Seq(Lines!Bytes), NEW t \in Seq(Lines!Bytes), NEW i \in 0 .. Len(s)
    PROVE  SubSeq(s \o t, i + 1, Len(s \o t)) = SubSeq(s, i + 1, Len(s)) \o t
  <1> DEFINE n == Len(s)
             left == SubSeq(s \o t, i + 1, Len(s \o t))
             rest == SubSeq(s, i + 1, n)
  <1>1. n \in Nat /\ Len(t) \in Nat /\ i \in Nat /\ i <= n
    BY LenProperties
  <1>2. /\ s \o t \in Seq(Lines!Bytes) /\ Len(s \o t) = n + Len(t)
        /\ \A j \in 1 .. n + Len(t) : (s \o t)[j] = IF j <= n THEN s[j] ELSE t[j - n]
    BY ConcatProperties
  <1>3. i \in 0 .. Len(s \o t)
    BY <1>1, <1>2
  <1>4. /\ left \in Seq(Lines!Bytes) /\ Len(left) = n + Len(t) - i
        /\ \A j \in 1 .. n + Len(t) - i : left[j] = (s \o t)[i + j]
    BY <1>2, <1>3, Cut
  <1>5. /\ rest \in Seq(Lines!Bytes) /\ Len(rest) = n - i
        /\ \A j \in 1 .. n - i : rest[j] = s[i + j]
    BY Cut
  <1> HIDE DEF left, rest
  <1>6. /\ rest \o t \in Seq(Lines!Bytes)
        /\ Len(rest \o t) = n - i + Len(t)
        /\ \A j \in 1 .. n - i + Len(t) :
               (rest \o t)[j] = IF j <= n - i THEN rest[j] ELSE t[j - (n - i)]
    <2>1. /\ rest \o t \in Seq(Lines!Bytes)
          /\ Len(rest \o t) = Len(rest) + Len(t)
          /\ \A j \in 1 .. Len(rest) + Len(t) :
                 (rest \o t)[j] = IF j <= Len(rest) THEN rest[j] ELSE t[j - Len(rest)]
      BY <1>5, ConcatProperties
    <2>2. Len(rest) = n - i
      BY <1>5
    <2> HIDE DEF n
    <2> QED
      BY <2>1, <2>2
  <1> HIDE DEF n
  <1>7. ASSUME NEW j \in 1 .. Len(left)
        PROVE  left[j] = (rest \o t)[j]
    <2>1. j \in Nat /\ j >= 1 /\ j <= n + Len(t) - i
      BY <1>1, <1>4
    <2>2. left[j] = (s \o t)[i + j] /\ i + j \in 1 .. n + Len(t) /\ j \in 1 .. n - i + Len(t)
      <3>1. /\ j \in 1 .. n + Len(t) - i /\ i + j \in 1 .. n + Len(t)
            /\ j \in 1 .. n - i + Len(t)
        BY <1>1, <2>1
      <3> QED
        BY <1>4, <3>1
    <2>3. CASE j <= n - i
      <3>1. rest[j] = s[i + j] /\ (rest \o t)[j] = rest[j]
        BY <1>1, <1>5, <1>6, <2>1, <2>2, <2>3
      <3>2. (s \o t)[i + j] = s[i + j]
        BY <1>1, <1>2, <2>1, <2>2, <2>3
      <3> QED
        BY <2>2, <3>1, <3>2
    <2>4. CASE ~(j <= n - i)
      <3>1. (rest \o t)[j] = t[j - (n - i)]
        BY <1>6, <2>2, <2>4
      <3>2. (s \o t)[i + j] = t[i + j - n]
        BY <1>1, <1>2, <2>1, <2>2, <2>4
      <3>3. i + j - n = j - (n - i)
        BY <1>1, <2>1
      <3> QED
        BY <2>2, <3>1, <3>2, <3>3
    <2> QED
      BY <2>3, <2>4
  <1>8. Len(left) = Len(rest \o t)
    BY <1>1, <1>4, <1>6
  <1>9. left = rest \o t
    BY <1>4, <1>6, <1>7, <1>8, SeqEqual
  <1> QED
    BY <1>9 DEF left, rest, n

(* The first line of the buffer is that of all that was sent.              *)
LEMMA BufferLine ==
    ASSUME NEW s \in Seq(Lines!Bytes), NEW t \in Seq(Lines!Bytes), Lines!HasLine(s)
    PROVE  /\ Lines!LineEnd(s) \in 1 .. Len(s)
           /\ Lines!LineEnd(s) \in Lines!LineEnds(s \o t)
           /\ Lines!Line(s \o t) = Lines!Line(s)
           /\ Lines!Rest(s \o t) = Lines!Rest(s) \o t
           /\ Lines!Line(s) \in Seq(Lines!Bytes)
           /\ Lines!Rest(s) \in Seq(Lines!Bytes)
           /\ Len(Lines!Rest(s)) < Len(s)
  <1>1. PICK i \in Lines!LineEnds(s) : TRUE
    BY DEF Lines!HasLine
  <1>2. Lines!LineEnd(s) = i /\ i \in 1 .. Len(s) /\ i \in Lines!LineEnds(s \o t)
    BY OneLineEnd, PrefixLineEnds
  <1>3. s \o t \in Seq(Lines!Bytes) /\ Len(s \o t) = Len(s) + Len(t)
    BY ConcatProperties
  <1>4. Lines!LineEnd(s \o t) = i
    BY <1>2, <1>3, OneLineEnd
  <1>5. SubSeq(s \o t, 1, i - 1) = SubSeq(s, 1, i - 1)
    BY <1>2, <1>3
  <1>6. SubSeq(s \o t, i + 1, Len(s \o t)) = SubSeq(s, i + 1, Len(s)) \o t
    <2>1. i \in 0 .. Len(s)
      BY <1>2
    <2> QED
      BY <2>1, AfterConcat
  <1>7. SubSeq(s, 1, i - 1) \in Seq(Lines!Bytes) /\ SubSeq(s, i + 1, Len(s)) \in Seq(Lines!Bytes)
    BY <1>2
  <1>8. Len(SubSeq(s, i + 1, Len(s))) < Len(s)
    BY <1>2
  <1> QED
    BY <1>2, <1>4, <1>5, <1>6, <1>7, <1>8 DEF Lines!Line, Lines!Rest
-----------------------------------------------------------------------------
(* The invariant                                                           *)

LEMMA InitInv == Init => FramingInv
  <1> SUFFICES ASSUME Init PROVE FramingInv
    OBVIOUS
  <1>1. TypeOK
    <2>1. <<>> \in Seq(Lines!Bytes) /\ Len(<<>>) = 0
      BY EmptySeq
    <2>2. /\ unread \in Seq(Lines!Bytes) /\ buffer \in Seq(Lines!Bytes)
          /\ last \in Seq(Lines!Bytes)
      BY <2>1 DEF Init
    <2>3. Len(buffer) <= Capacity /\ a2read \in 0 .. Len(unread)
      BY <2>1, FramingAssumption DEF Init
    <2>4. invalid \in 0 .. AllowedInvalid + 1 /\ sent \in 0 .. MaxSent
      BY FramingAssumption DEF Init
    <2> QED
      BY <2>2, <2>3, <2>4 DEF Init, TypeOK
  <1>2. ~Lines!HasLine(buffer)
    BY DEF Init, Lines!HasLine, Lines!LineEnds
  <1> QED
    BY <1>1, <1>2, FramingAssumption DEF Init, FramingInv, At

LEMMA PeerInv == FramingInv /\ (PeerSends \/ PeerHangsUp) => FramingInv'
  <1> SUFFICES ASSUME FramingInv, PeerSends \/ PeerHangsUp PROVE FramingInv'
    OBVIOUS
  <1>1. CASE PeerSends
    <2>1. PICK b \in Lines!Bytes : unread' = Append(unread, b)
      BY <1>1 DEF PeerSends
    <2>2. unread' \in Seq(Lines!Bytes) /\ Len(unread') = Len(unread) + 1
      BY <2>1 DEF FramingInv, TypeOK
    <2>3. TypeOK'
      BY <1>1, <2>2, FramingAssumption DEF PeerSends, FramingInv, TypeOK
    <2> QED
      BY <1>1, <2>3 DEF PeerSends, FramingInv, At
  <1>2. CASE PeerHangsUp
    BY <1>2 DEF PeerHangsUp, FramingInv, TypeOK, At
  <1> QED
    BY <1>1, <1>2

LEMMA SelectInv == FramingInv /\ Select => FramingInv'
  <1> SUFFICES ASSUME FramingInv, Select PROVE FramingInv'
    OBVIOUS
  <1>1. Len(unread) \in Nat /\ (Len(unread) = 0 => unread = <<>>)
    BY EmptySeq, LenProperties DEF FramingInv, TypeOK
  <1>2. TypeOK'
    BY <1>1 DEF Select, FramingInv, TypeOK
  <1> QED
    BY <1>1, <1>2 DEF Select, FramingInv, At

(* A connection that is closed keeps nothing but its bounds.               *)
LEMMA CloseInv ==
    ASSUME FramingInv, NEW r \in Lines!Reasons, CloseFor(r),
           invalid' \in 0 .. AllowedInvalid + 1
    PROVE  FramingInv'
  <1>1. why' # "open"
    BY DEF CloseFor, Lines!Reasons
  <1>2. TypeOK'
    BY DEF CloseFor, FramingInv, TypeOK
  <1> QED
    BY <1>1, <1>2 DEF FramingInv, At

(* What is read is what was found readable, as far as there is room for it.*)
LEMMA ReadSizes ==
    ASSUME FramingInv, ReadSome
    PROVE  /\ buffer' \in Seq(Lines!Bytes) /\ unread' \in Seq(Lines!Bytes)
           /\ Len(buffer') <= Capacity
           /\ a2read' \in 0 .. Len(unread')
           /\ buffer' \o unread' = buffer \o unread
  <1> DEFINE size == IF a2read < Room THEN a2read ELSE Room
             taken == SubSeq(unread, 1, size)
             left == SubSeq(unread, size + 1, Len(unread))
  <1>1. /\ buffer' = buffer \o taken /\ unread' = left
        /\ a2read' = a2read - size /\ size >= 1
    BY DEF ReadSome
  <1>2. /\ unread \in Seq(Lines!Bytes) /\ buffer \in Seq(Lines!Bytes)
        /\ Len(unread) \in Nat /\ Len(buffer) \in Nat
        /\ a2read \in 0 .. Len(unread) /\ Room \in Int
    BY LenProperties, FramingAssumption DEF FramingInv, TypeOK, Room
  <1>3. size \in 1 .. Len(unread) /\ size <= Room /\ size <= a2read
    BY <1>1, <1>2
  <1> HIDE DEF size
  <1>4. left \in Seq(Lines!Bytes) /\ Len(left) = Len(unread) - size
    <2>1. size \in 0 .. Len(unread)
      BY <1>2, <1>3
    <2> QED
      BY <1>2, <2>1, Cut
  <1>5. taken \in Seq(Lines!Bytes) /\ Len(taken) = size
    BY <1>2, <1>3
  <1>6. taken \o left = unread
    <2>1. SubSeq(unread, 1, size) \o SubSeq(unread, size + 1, Len(unread))
             = SubSeq(unread, 1, Len(unread))
      <3>1. /\ 1 \in 1 .. Len(unread) + 1 /\ size \in 1 - 1 .. Len(unread)
            /\ Len(unread) \in size .. Len(unread)
        BY <1>2, <1>3
      <3> QED
        BY <1>2, <3>1, ConcatAdjacentSubSeq
    <2> QED
      BY <1>2, <2>1, SubSeqFull
  <1> HIDE DEF taken, left
  <1>7. buffer' \in Seq(Lines!Bytes) /\ Len(buffer') = Len(buffer) + size
    BY <1>1, <1>2, <1>5, ConcatProperties
  <1>8. Len(buffer') <= Capacity
    BY <1>2, <1>3, <1>7, FramingAssumption DEF Room
  <1>9. a2read' \in 0 .. Len(unread')
    BY <1>1, <1>2, <1>3, <1>4
  <1>10. buffer' \o unread' = buffer \o unread
    <2>1. (buffer \o taken) \o left = buffer \o (taken \o left)
      <3>1. /\ buffer \in Seq(Lines!Bytes) /\ taken \in Seq(Lines!Bytes)
            /\ left \in Seq(Lines!Bytes)
        BY <1>2, <1>4, <1>5
      <3> QED
        BY <3>1, ConcatAssociative
    <2> QED
      BY <1>1, <1>6, <2>1
  <1> QED
    BY <1>1, <1>4, <1>7, <1>8, <1>9, <1>10

LEMMA ReadInv == FramingInv /\ ReadSome => FramingInv'
  <1> SUFFICES ASSUME FramingInv, ReadSome PROVE FramingInv'
    OBVIOUS
  <1>1. TypeOK'
    BY ReadSizes DEF ReadSome, FramingInv, TypeOK
  <1>2. pc' = IF Lines!HasLine(buffer)' THEN "line" ELSE "select"
    BY DEF ReadSome
  <1>3. invalid' = invalid /\ why' = why
    BY DEF ReadSome
  <1> QED
    BY <1>1, <1>2, <1>3 DEF FramingInv, At

LEMMA ShiftInv ==
    ASSUME FramingInv, At("line"), Shift,
           invalid' \in 0 .. AllowedInvalid, last' \in Seq(Lines!Bytes)
    PROVE  FramingInv'
  <1>1. Lines!HasLine(buffer) /\ buffer \in Seq(Lines!Bytes) /\ Len(buffer) \in Nat
    BY LenProperties DEF FramingInv, TypeOK
  <1>2. buffer' \in Seq(Lines!Bytes) /\ Len(buffer') < Len(buffer)
    BY <1>1, BufferLine, EmptySeq DEF Shift
  <1>3. Len(buffer') \in Nat /\ Len(buffer') <= Capacity
    BY <1>1, <1>2, LenProperties, FramingAssumption DEF FramingInv, TypeOK
  <1>4. pc' \in {"select", "read", "line"}
    BY DEF Shift, AfterLine
  <1>5. TypeOK'
    BY <1>2, <1>3, <1>4, FramingAssumption DEF Shift, FramingInv, TypeOK
  <1>6. pc' = IF Lines!HasLine(buffer)' THEN "line" ELSE IF a2read > 0 THEN "read" ELSE "select"
    BY DEF Shift, AfterLine
  <1>7. a2read' = a2read /\ why' = why /\ a2read \in Nat
    BY LenProperties DEF Shift, FramingInv, TypeOK
  <1>8. a2read > 0 => a2read' # 0
    BY <1>7
  <1>9. why' = "open" => invalid' <= AllowedInvalid
    BY FramingAssumption
  <1> QED
    BY <1>5, <1>6, <1>8, <1>9 DEF FramingInv, At

LEMMA LineInv ==
    FramingInv /\ (LineTooShort \/ LinePassed \/ LineInvalid) => FramingInv'
  <1> SUFFICES ASSUME FramingInv, LineTooShort \/ LinePassed \/ LineInvalid
               PROVE  FramingInv'
    OBVIOUS
  <1>1. invalid \in 0 .. AllowedInvalid /\ At("line") /\ AllowedInvalid \in Nat
    BY FramingAssumption DEF FramingInv, TypeOK, LineTooShort, LinePassed, LineInvalid, At
  <1>2. CASE LineTooShort
    BY <1>1, <1>2, CloseInv DEF LineTooShort, Lines!Reasons
  <1>3. CASE LinePassed
    <2>1. Lines!Line(buffer) \in Seq(Lines!Bytes)
      BY <1>1, BufferLine, EmptySeq DEF FramingInv, TypeOK
    <2> QED
      BY <1>1, <1>3, <2>1, ShiftInv DEF LinePassed
  <1>4. CASE LineInvalid
    <2>1. invalid' = invalid + 1 /\ invalid' \in 0 .. AllowedInvalid + 1
      BY <1>1, <1>4 DEF LineInvalid
    <2>2. CASE CloseFor("invalid")
      BY <2>1, <2>2, CloseInv DEF Lines!Reasons
    <2>3. CASE invalid' <= AllowedInvalid /\ Shift /\ UNCHANGED last
      <3>1. invalid' \in 0 .. AllowedInvalid
        BY <1>1, <2>1, <2>3
      <3> QED
        BY <1>1, <2>3, <3>1, ShiftInv DEF FramingInv, TypeOK
    <2> QED
      BY <1>4, <2>2, <2>3 DEF LineInvalid
  <1> QED
    BY <1>2, <1>3, <1>4

LEMMA NextInv == FramingInv /\ [Next]_vars => FramingInv'
  <1> SUFFICES ASSUME FramingInv, [Next]_vars PROVE FramingInv'
    OBVIOUS
  <1>1. CASE PeerSends \/ PeerHangsUp
    BY <1>1, PeerInv
  <1>2. CASE Select \/ ReadSome
    BY <1>2, SelectInv, ReadInv
  <1>3. CASE ReadNothing \/ ReadTooLong
    <2>1. invalid' \in 0 .. AllowedInvalid + 1
      BY <1>3 DEF ReadNothing, ReadTooLong, FramingInv, TypeOK
    <2> QED
      BY <1>3, <2>1, CloseInv DEF ReadNothing, ReadTooLong, Lines!Reasons
  <1>4. CASE LineTooShort \/ LinePassed \/ LineInvalid
    BY <1>4, LineInv
  <1>5. CASE UNCHANGED vars
    BY <1>5 DEF vars, FramingInv, TypeOK, At
  <1> QED
    BY <1>1, <1>2, <1>3, <1>4, <1>5 DEF Next, Reader

(* The receive buffer is never filled past its capacity, and what FIONREAD *)
(* found is still there when it is read                                    *)
(* (_netadapter_ts_process_raw_connection).                                *)
THEOREM TypeCorrect == Spec => []TypeOK
  <1>1. Spec => []FramingInv
    BY InitInv, NextInv, PTL DEF Spec
  <1>2. FramingInv => TypeOK
    BY DEF FramingInv
  <1> QED
    BY <1>1, <1>2, PTL

-----------------------------------------------------------------------------
(* The refinement                                                          *)

LEMMA InitLines == Init => Lines!Init
  BY ConcatEmptySeq DEF Init, Lines!Init

(* The line in the buffer is the first of all that was sent, and it fits.  *)
LEMMA BufferComplete ==
    ASSUME FramingInv, At("line")
    PROVE  /\ Lines!Complete
           /\ Lines!Line(buffer \o unread) = Lines!Line(buffer)
           /\ Lines!Rest(buffer \o unread) = Lines!Rest(buffer) \o unread
  <1>1. /\ buffer \in Seq(Lines!Bytes) /\ unread \in Seq(Lines!Bytes)
        /\ Lines!HasLine(buffer) /\ Len(buffer) \in Nat /\ Len(buffer) <= Capacity
    BY LenProperties DEF FramingInv, TypeOK
  <1>2. /\ Lines!LineEnd(buffer) \in 1 .. Len(buffer)
        /\ Lines!LineEnd(buffer) \in Lines!LineEnds(buffer \o unread)
        /\ Lines!Line(buffer \o unread) = Lines!Line(buffer)
        /\ Lines!Rest(buffer \o unread) = Lines!Rest(buffer) \o unread
    BY <1>1, BufferLine
  <1>3. Lines!LineEnd(buffer) <= Capacity
    BY <1>1, <1>2, FramingAssumption
  <1> QED
    BY <1>2, <1>3 DEF Lines!Complete, At

(* While nothing in a full buffer ends a line, no line fits.               *)
LEMMA BufferIncomplete ==
    ASSUME FramingInv, At("read"), Len(buffer) = Capacity \/ unread = <<>>
    PROVE  ~Lines!Complete
  <1>1. /\ buffer \in Seq(Lines!Bytes) /\ unread \in Seq(Lines!Bytes)
        /\ ~Lines!HasLine(buffer) /\ Len(buffer) \in Nat
    BY LenProperties DEF FramingInv, TypeOK
  <1>2. ASSUME NEW i \in Lines!LineEnds(buffer \o unread), i <= Capacity
        PROVE  FALSE
    <2>1. i \in 1 .. Len(buffer \o unread)
      BY DEF Lines!LineEnds
    <2>2. i \in 1 .. Len(buffer)
      <3>1. CASE Len(buffer) = Capacity
        <4>1. i \in Int /\ 1 <= i
          BY <2>1
        <4> QED
          BY <1>1, <1>2, <3>1, <4>1
      <3>2. CASE unread = <<>>
        BY <1>1, <2>1, <3>2, ConcatEmptySeq
      <3> QED
        BY <3>1, <3>2
    <2>3. i \in Lines!LineEnds(buffer)
      BY <1>1, <1>2, <2>2, PrefixLineEnds
    <2> QED
      BY <1>1, <2>3 DEF Lines!HasLine
  <1> QED
    BY <1>2 DEF Lines!Complete

LEMMA PeerLines == FramingInv /\ (PeerSends \/ PeerHangsUp) => Lines!Next
  <1> SUFFICES ASSUME FramingInv, PeerSends \/ PeerHangsUp PROVE Lines!Next
    OBVIOUS
  <1>1. CASE PeerSends
    <2>1. PICK b \in Lines!Bytes : unread' = Append(unread, b)
      BY <1>1 DEF PeerSends
    <2>2. (buffer \o unread)' = Append(buffer \o unread, b)
      <3>1. buffer \in Seq(Lines!Bytes) /\ unread \in Seq(Lines!Bytes) /\ buffer' = buffer
        BY <1>1 DEF FramingInv, TypeOK, PeerSends
      <3>2. /\ Append(unread, b) = unread \o <<b>> /\ <<b>> \in Seq(Lines!Bytes)
            /\ buffer \o unread \in Seq(Lines!Bytes)
            /\ Append(buffer \o unread, b) = (buffer \o unread) \o <<b>>
        BY <3>1, ConcatProperties, AppendIsConcat
      <3> QED
        BY <2>1, <3>1, <3>2, ConcatAssociative
    <2> QED
      BY <1>1, <2>2 DEF PeerSends, Lines!Next, Lines!Sends
  <1>2. CASE PeerHangsUp
    BY <1>2 DEF PeerHangsUp, Lines!Next, Lines!HangsUp
  <1> QED
    BY <1>1, <1>2

(* Reading moves bytes from one part of the text to the other.             *)
LEMMA ReadLines == FramingInv /\ (Select \/ ReadSome) => UNCHANGED Lines!vars
  <1> SUFFICES ASSUME FramingInv, Select \/ ReadSome PROVE UNCHANGED Lines!vars
    OBVIOUS
  <1>1. (buffer \o unread)' = buffer \o unread
    BY ReadSizes DEF Select
  <1> QED
    BY <1>1 DEF Select, ReadSome, Lines!vars

LEMMA CloseLines ==
    FramingInv /\ (ReadNothing \/ ReadTooLong \/ LineTooShort) => Lines!Closes
  <1> SUFFICES ASSUME FramingInv, ReadNothing \/ ReadTooLong \/ LineTooShort
               PROVE  Lines!Closes
    OBVIOUS
  <1>1. /\ buffer \in Seq(Lines!Bytes) /\ unread \in Seq(Lines!Bytes)
        /\ Len(buffer) \in Nat /\ Len(unread) \in Nat /\ Len(buffer) <= Capacity
        /\ a2read \in 0 .. Len(unread)
        /\ Len(buffer \o unread) = Len(buffer) + Len(unread)
    BY LenProperties, ConcatProperties DEF FramingInv, TypeOK
  <1>2. CASE ReadNothing
    <2>1. a2read = 0 /\ unread = <<>> /\ hungUp /\ At("read")
      BY <1>1, <1>2 DEF ReadNothing, FramingInv
    <2>2. ~Lines!Complete /\ Len(buffer \o unread) <= Capacity
      BY <1>1, <2>1, BufferIncomplete, ConcatEmptySeq
    <2> QED
      BY <1>2, <2>1, <2>2 DEF ReadNothing, CloseFor, Lines!Closes, At
  <1>3. CASE ReadTooLong
    <2>1. Len(buffer) = Capacity /\ a2read > 0 /\ At("read")
      BY <1>1, <1>3, FramingAssumption DEF ReadTooLong, Room
    <2>2. ~Lines!Complete
      BY <2>1, BufferIncomplete
    <2>3. Len(buffer \o unread) > Capacity
      BY <1>1, <2>1
    <2> QED
      BY <1>3, <2>1, <2>2, <2>3 DEF ReadTooLong, CloseFor, Lines!Closes, At
  <1>4. CASE LineTooShort
    <2>1. Lines!Complete /\ Lines!Line(buffer \o unread) = Lines!Line(buffer)
      BY <1>4, BufferComplete DEF LineTooShort
    <2> QED
      BY <1>4, <2>1 DEF LineTooShort, CloseFor, Lines!Closes, At
  <1> QED
    BY <1>2, <1>3, <1>4

LEMMA LineLines ==
    FramingInv /\ (LinePassed \/ LineInvalid) => Lines!Passes \/ Lines!Refuses
  <1> SUFFICES ASSUME FramingInv, LinePassed \/ LineInvalid
               PROVE  Lines!Passes \/ Lines!Refuses
    OBVIOUS
  <1>1. /\ Lines!Complete
        /\ Lines!Line(buffer \o unread) = Lines!Line(buffer)
        /\ Lines!Rest(buffer \o unread) = Lines!Rest(buffer) \o unread
    BY BufferComplete DEF LinePassed, LineInvalid
  <1>2. CASE LinePassed
    BY <1>1, <1>2 DEF LinePassed, Shift, Lines!Passes
  <1>3. CASE LineInvalid
    <2>1. CASE invalid' > AllowedInvalid /\ CloseFor("invalid")
      BY <1>1, <1>3, <2>1 DEF LineInvalid, CloseFor, Lines!Refuses
    <2>2. CASE invalid' <= AllowedInvalid /\ Shift /\ UNCHANGED last
      BY <1>1, <1>3, <2>2 DEF LineInvalid, Shift, Lines!Refuses
    <2> QED
      BY <1>3, <2>1, <2>2 DEF LineInvalid
  <1> QED
    BY <1>2, <1>3

LEMMA NextLines == FramingInv /\ [Next]_vars => [Lines!Next]_(Lines!vars)
  <1> SUFFICES ASSUME FramingInv, [Next]_vars PROVE [Lines!Next]_(Lines!vars)
    OBVIOUS
  <1>1. CASE PeerSends \/ PeerHangsUp
    BY <1>1, PeerLines
  <1>2. CASE Select \/ ReadSome
    BY <1>2, ReadLines
  <1>3. CASE ReadNothing \/ ReadTooLong \/ LineTooShort
    BY <1>3, CloseLines DEF Lines!Next, Lines!Takes
  <1>4. CASE LinePassed \/ LineInvalid
    BY <1>4, LineLines DEF Lines!Next, Lines!Takes
  <1>5. CASE UNCHANGED vars
    BY <1>5 DEF vars, Lines!vars
  <1> QED
    BY <1>1, <1>2, <1>3, <1>4, <1>5 DEF Next, Reader

(* Whatever is sent and however it is cut up, the lines passed on, the     *)
(* lines refused and the end of the connection are those of the text       *)
(* itself (_netadapter_ts_process_remote_socket).                          *)
THEOREM LinesImplemented == Spec => Lines!Spec
  <1>1. Spec => []FramingInv
    BY InitInv, NextInv, PTL DEF Spec
  <1> QED
    BY <1>1, InitLines, NextLines, PTL DEF Spec, Lines!Spec
=============================================================================
