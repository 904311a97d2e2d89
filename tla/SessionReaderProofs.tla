------------------------- MODULE SessionReaderProofs -------------------------
(***************************************************************************)
(* Proofs about SessionReader, for any lengths of headers, bodies and      *)
(* buffers.                                                                *)
(***************************************************************************)
EXTENDS SessionReader, TLAPS

LEMMA ConcatType ==
  ASSUME NEW S, NEW a \in Seq(S), NEW b \in Seq(S)
  PROVE  a \o b \in Seq(S) /\ Len(a \o b) = Len(a) + Len(b)
OBVIOUS

LEMMA CopiedAndLeft ==
  ASSUME buffer \in Seq(Bytes), NEW n \in Nat, n <= Len(buffer)
  PROVE  /\ Copied(n) \in Seq(Bytes) /\ Len(Copied(n)) = n
         /\ Left(n) \in Seq(Bytes) /\ Len(Left(n)) <= Len(buffer)
BY DEF Copied, Left

(* What is copied fits in what is missing, and is there.                   *)
LEMMA BytesToCopyFits ==
  ASSUME buffer \in Seq(Bytes), NEW remain \in Nat
  PROVE  /\ BytesToCopy(remain) \in Nat
         /\ BytesToCopy(remain) <= remain /\ BytesToCopy(remain) <= Len(buffer)
BY DEF BytesToCopy, AtMost

LEMMA FrameType ==
  ASSUME NEW k \in 1..MaxFrames, NEW n \in Nat
  PROVE  Frame(k, n) \in Seq(Bytes)
<1>1. HeaderLength + n \in Nat
  BY ReaderAssumption
<1>2. \A i \in 1..(HeaderLength + n) : Byte(k, i) \in Bytes
  BY <1>1 DEF Byte, Bytes
<1> QED
  BY <1>1, <1>2 DEF Frame

LEMMA DecodedType ==
  ASSUME frames \in Seq(Lengths), NEW h, NEW len \in Decoded(h)
  PROVE  len \in Nat
<1>1. CASE \E k \in 1..Len(frames) : h = SubSeq(Frame(k, 0), 1, HeaderLength)
  <2>1. PICK k \in 1..Len(frames) : h = SubSeq(Frame(k, 0), 1, HeaderLength)
    BY <1>1
  <2>2. 1 \in 1..HeaderLength
    BY ReaderAssumption
  <2>3. SubSeq(Frame(k, 0), 1, HeaderLength)[1] = Byte(k, 1)
    BY <2>2, ReaderAssumption DEF Frame
  <2>4. h[1].frame = k
    <3>1. h[1] = Byte(k, 1)
      BY <2>1, <2>3
    <3>2. Byte(k, 1).frame = k
      BY DEF Byte
    <3> QED
      BY <3>1, <3>2, Zenon
  <2>5. len = frames[h[1].frame]
    BY <1>1 DEF Decoded
  <2>6. frames[k] \in Nat
    <3>1. frames[k] \in Lengths
      OBVIOUS
    <3> QED
      BY <3>1, ReaderAssumption
  <2> QED
    BY <2>4, <2>5, <2>6, Zenon
<1>2. CASE ~ \E k \in 1..Len(frames) : h = SubSeq(Frame(k, 0), 1, HeaderLength)
  BY <1>2, ReaderAssumption DEF Decoded
<1> QED
  BY <1>1, <1>2

LEMMA ReaderInit == Init => TypeOK
BY ReaderAssumption DEF Init, TypeOK

LEMMA HeadStep ==
  ASSUME TypeOK, state = "parse", headParse,
         head' = head \o Copied(BytesToCopy(HeaderLength - Len(head)))
  PROVE  /\ head' \in Seq(Bytes) /\ Len(head') <= HeaderLength
         /\ Left(BytesToCopy(HeaderLength - Len(head))) \in Seq(Bytes)
         /\ Len(Left(BytesToCopy(HeaderLength - Len(head)))) <= BufferSize
<1> DEFINE remain == HeaderLength - Len(head)
           n == BytesToCopy(remain)
<1>1. remain \in Nat
  BY ReaderAssumption DEF TypeOK
<1>2. n \in Nat /\ n <= remain /\ n <= Len(buffer)
  BY <1>1, BytesToCopyFits DEF TypeOK
<1> HIDE DEF n
<1>3. /\ Copied(n) \in Seq(Bytes) /\ Len(Copied(n)) = n
      /\ Left(n) \in Seq(Bytes) /\ Len(Left(n)) <= Len(buffer)
  BY <1>2, CopiedAndLeft DEF TypeOK
<1>4. head' = head \o Copied(n)
  BY DEF n
<1>5. head' \in Seq(Bytes) /\ Len(head') = Len(head) + n
  <2>1. head \in Seq(Bytes)
    BY DEF TypeOK
  <2> QED
    BY <1>3, <1>4, <2>1, ConcatType
<1>6. Len(head') <= HeaderLength /\ Len(Left(n)) <= BufferSize
  BY <1>1, <1>2, <1>3, <1>5, ReaderAssumption DEF TypeOK
<1> QED
  BY <1>3, <1>5, <1>6 DEF n

LEMMA BodyStep ==
  ASSUME TypeOK, state = "parse", ~headParse,
         body' = body \o Copied(BytesToCopy(total - Len(body)))
  PROVE  /\ body' \in Seq(Bytes) /\ Len(body') <= total
         /\ Left(BytesToCopy(total - Len(body))) \in Seq(Bytes)
         /\ Len(Left(BytesToCopy(total - Len(body)))) <= BufferSize
<1> DEFINE remain == total - Len(body)
           n == BytesToCopy(remain)
<1>1. remain \in Nat
  BY DEF TypeOK
<1>2. n \in Nat /\ n <= remain /\ n <= Len(buffer)
  BY <1>1, BytesToCopyFits DEF TypeOK
<1> HIDE DEF n
<1>3. /\ Copied(n) \in Seq(Bytes) /\ Len(Copied(n)) = n
      /\ Left(n) \in Seq(Bytes) /\ Len(Left(n)) <= Len(buffer)
  BY <1>2, CopiedAndLeft DEF TypeOK
<1>4. body' = body \o Copied(n)
  BY DEF n
<1>5. body' \in Seq(Bytes) /\ Len(body') = Len(body) + n
  <2>1. body \in Seq(Bytes)
    BY DEF TypeOK
  <2> QED
    BY <1>3, <1>4, <2>1, ConcatType
<1>6. Len(body') <= total /\ Len(Left(n)) <= BufferSize
  BY <1>1, <1>2, <1>3, <1>5, ReaderAssumption DEF TypeOK
<1> QED
  BY <1>3, <1>5, <1>6 DEF n

LEMMA ReaderStep == TypeOK /\ [Next]_vars => TypeOK'
<1> SUFFICES ASSUME TypeOK, [Next]_vars PROVE TypeOK'
  OBVIOUS
<1>1. CASE UNCHANGED vars
  BY <1>1 DEF vars, TypeOK
<1>2. ASSUME NEW n \in Lengths, ClientSends(n) PROVE TypeOK'
  <2>1. Len(frames) + 1 \in 1..MaxFrames /\ n \in Nat
    BY <1>2, ReaderAssumption DEF ClientSends, TypeOK
  <2>2. Frame(Len(frames) + 1, n) \in Seq(Bytes)
    BY <2>1, FrameType
  <2>3. wire' \in Seq(Bytes) /\ frames' \in Seq(Lengths) /\ Len(frames') <= MaxFrames
    BY <1>2, <2>1, <2>2, ReaderAssumption DEF ClientSends, TypeOK
  <2> QED
    BY <1>2, <2>3 DEF ClientSends, TypeOK, parser
<1>3. ASSUME NEW n \in 1..BufferSize, Receive(n) PROVE TypeOK'
  <2>1. wire' \in Seq(Bytes) /\ buffer' \in Seq(Bytes) /\ Len(buffer') = n
    BY <1>3, ReaderAssumption DEF Receive, TypeOK
  <2> QED
    BY <1>3, <2>1, ReaderAssumption DEF Receive, TypeOK
<1>4. CASE ReadError
  BY <1>4 DEF ReadError, TypeOK
<1>5. CASE HeadIncomplete
  <2>1. /\ head' \in Seq(Bytes) /\ Len(head') <= HeaderLength
        /\ buffer' \in Seq(Bytes) /\ Len(buffer') <= BufferSize
    BY <1>5, HeadStep DEF HeadIncomplete
  <2> QED
    BY <1>5, <2>1 DEF HeadIncomplete, TypeOK
<1>6. CASE HeadComplete
  <2>1. /\ head' \in Seq(Bytes) /\ Len(head') <= HeaderLength
        /\ buffer' \in Seq(Bytes) /\ Len(buffer') <= BufferSize
    BY <1>6, HeadStep DEF HeadComplete
  <2>2. PICK len \in Decoded(head') :
          \/ /\ len > MaxLength
             /\ state' = "closed"
             /\ UNCHANGED <<headParse, body, total>>
          \/ /\ len <= MaxLength
             /\ total' = len
             /\ body' = << >>
             /\ headParse' = FALSE
             /\ UNCHANGED state
    BY <1>6 DEF HeadComplete
  <2>3. len \in Nat
    BY DecodedType DEF TypeOK
  <2>4. /\ state' \in {"read", "parse", "closed"} /\ headParse' \in BOOLEAN
        /\ total' \in Nat /\ (~headParse' => total' <= MaxLength)
        /\ body' \in Seq(Bytes) /\ Len(body') <= total'
    <3>1. CASE len > MaxLength
      BY <2>2, <2>3, <3>1, ReaderAssumption DEF TypeOK
    <3>2. CASE ~(len > MaxLength)
      <4>1. /\ len <= MaxLength /\ total' = len /\ body' = << >>
            /\ headParse' = FALSE /\ state' = state
        BY <2>2, <3>2
      <4>2. << >> \in Seq(Bytes) /\ Len(<< >>) = 0
        OBVIOUS
      <4>3. body' \in Seq(Bytes) /\ Len(body') = 0
        BY <4>1, <4>2, Zenon
      <4>4. total' \in Nat /\ total' <= MaxLength /\ Len(body') <= total'
        BY <2>3, <4>1, <4>3
      <4> QED
        BY <4>1, <4>3, <4>4 DEF TypeOK
    <3> QED
      BY <3>1, <3>2
  <2> QED
    BY <1>6, <2>1, <2>4 DEF HeadComplete, TypeOK
<1>7. CASE BodyIncomplete
  <2>1. /\ body' \in Seq(Bytes) /\ Len(body') <= total
        /\ buffer' \in Seq(Bytes) /\ Len(buffer') <= BufferSize
    BY <1>7, BodyStep DEF BodyIncomplete
  <2> QED
    BY <1>7, <2>1 DEF BodyIncomplete, TypeOK
<1>8. CASE BodyComplete
  <2>1. /\ body' \in Seq(Bytes) /\ Len(body') <= total
        /\ buffer' \in Seq(Bytes) /\ Len(buffer') <= BufferSize
    BY <1>8, BodyStep DEF BodyComplete, AfterPost
  <2>2. head' \in Seq(Bytes) /\ Len(head') <= HeaderLength
    BY <1>8, ReaderAssumption DEF BodyComplete, Cleared
  <2>3. posted' \in Seq(Seq(Bytes))
    BY <1>8, <2>1 DEF BodyComplete, TypeOK
  <2> QED
    BY <1>8, <2>1, <2>2, <2>3 DEF BodyComplete, TypeOK
<1>9. CASE ReadAgain
  BY <1>9 DEF ReadAgain, TypeOK
<1> QED
  BY <1>1, <1>2, <1>3, <1>4, <1>5, <1>6, <1>7, <1>8, <1>9 DEF Next, Network, HandleRead

(* The loop of handleRead never writes past the block of the header nor    *)
(* past that of the message, and never reads past what was received.       *)
THEOREM ReaderStaysInBounds == Spec => []TypeOK
BY ReaderInit, ReaderStep, PTL DEF Spec

-----------------------------------------------------------------------------
(* The bytes to come, described place by place: no definition here walks   *)
(* over the frames, so that no proof needs an induction over them.         *)

Size(f, k) == HeaderLength + f[k]

(* The bytes of its frame that follow byte b                               *)
Rest(f, b) == Size(f, b.frame) - b.at

(* In s every byte of the frames f is followed by the rest of its frame,   *)
(* and that by the next frame, up to the last one.                         *)
FramedAt(f, s, i) ==
    /\ s[i].frame \in 1..Len(f) /\ s[i].at \in 1..Size(f, s[i].frame)
    /\ i + Rest(f, s[i]) <= Len(s)
    /\ \A d \in 0..Rest(f, s[i]) : s[i + d] = Byte(s[i].frame, s[i].at + d)
    /\ i + Rest(f, s[i]) = Len(s) => s[i].frame = Len(f)
    /\ i + Rest(f, s[i]) < Len(s) =>
          s[i].frame < Len(f) /\ s[i + Rest(f, s[i]) + 1] = Byte(s[i].frame + 1, 1)

(* Byte j of frame k is the first of s, or s is at the end of the frames.  *)
StartsAt(f, s, k, j) == IF s = << >> THEN k = Len(f) + 1 /\ j = 1 ELSE s[1] = Byte(k, j)

Stream(f, s, k, j) == (\A i \in 1..Len(s) : FramedAt(f, s, i)) /\ StartsAt(f, s, k, j)

Current == Len(posted) + 1

HeadOK ==
    /\ Len(head) < HeaderLength
    /\ \A i \in 1..Len(head) : head[i] = Byte(Current, i)
    /\ Stream(frames, buffer \o wire, Current, Len(head) + 1)

(* A message that misses nothing is posted at once, but for an empty one.  *)
BodyOK ==
    /\ Current <= Len(frames) /\ total = frames[Current]
    /\ Len(body) < total \/ total = 0
    /\ \A i \in 1..Len(body) : body[i] = Byte(Current, HeaderLength + i)
    /\ IF total = 0
       THEN Stream(frames, buffer \o wire, Current + 1, 1)
       ELSE Stream(frames, buffer \o wire, Current, HeaderLength + Len(body) + 1)

PostedOK ==
    /\ Len(posted) <= Len(frames)
    /\ \A i \in 1..Len(posted) : posted[i] = Body(i)

OpenOK ==
    /\ state = "read" => buffer = << >>
    /\ IF headParse THEN HeadOK ELSE BodyOK
    /\ posted # << >> /\ Len(posted) = Len(frames) => frames[Len(frames)] # 0

RInv == TypeOK /\ PostedOK /\ (state # "closed" => OpenOK)

LEMMA SeqPlaces ==
  ASSUME NEW s \in Seq(Bytes), NEW n \in Nat, n <= Len(s)
  PROVE  /\ SubSeq(s, n + 1, Len(s)) \in Seq(Bytes)
         /\ Len(SubSeq(s, n + 1, Len(s))) = Len(s) - n
         /\ \A i \in 1..(Len(s) - n) : SubSeq(s, n + 1, Len(s))[i] = s[n + i]
OBVIOUS

LEMMA ByteFields ==
  ASSUME NEW k, NEW j
  PROVE  Byte(k, j).frame = k /\ Byte(k, j).at = j
BY DEF Byte

LEMMA BytesFields ==
  ASSUME NEW s \in Seq(Bytes), NEW i \in 1..Len(s)
  PROVE  s[i] \in Bytes /\ s[i].frame \in Nat /\ s[i].at \in Nat
<1>1. s[i] \in Bytes
  OBVIOUS
<1>2. \A b \in Bytes : b.frame \in Nat /\ b.at \in Nat
  BY ReaderAssumption DEF Bytes
<1> QED
  BY <1>1, <1>2

(* A byte that is in a frame is followed by as many as the frame has more. *)
LEMMA RestType ==
  ASSUME NEW f \in Seq(Nat), NEW b, b.frame \in 1..Len(f), b.at \in 1..Size(f, b.frame)
  PROVE  /\ f[b.frame] \in Nat /\ Size(f, b.frame) \in Nat /\ Rest(f, b) \in Nat
         /\ b.at \in Nat \ {0} /\ b.at + Rest(f, b) = Size(f, b.frame)
<1>1. f[b.frame] \in Nat
  OBVIOUS
<1>2. Size(f, b.frame) \in Nat
  BY <1>1, ReaderAssumption DEF Size
<1> QED
  BY <1>1, <1>2 DEF Rest

(* What is left of a stream of frames after its first n bytes is one.      *)
LEMMA FramedDrop ==
  ASSUME NEW f \in Seq(Nat), NEW s \in Seq(Bytes), NEW n \in Nat, n <= Len(s),
         \A i \in 1..Len(s) : FramedAt(f, s, i),
         NEW i \in 1..(Len(s) - n)
  PROVE  FramedAt(f, SubSeq(s, n + 1, Len(s)), i)
<1> DEFINE t == SubSeq(s, n + 1, Len(s))
           r == Rest(f, s[n + i])
<1>1. /\ t \in Seq(Bytes) /\ Len(t) = Len(s) - n
      /\ \A j \in 1..(Len(s) - n) : t[j] = s[n + j]
  BY SeqPlaces
<1> HIDE DEF t
<1>2. n + i \in 1..Len(s) /\ FramedAt(f, s, n + i) /\ t[i] = s[n + i]
  BY <1>1
<1>3. f[s[n + i].frame] \in Nat /\ r \in Nat
  BY <1>2, RestType DEF FramedAt
<1>4. Rest(f, t[i]) = r
  BY <1>2
<1>f. /\ n + i + r <= Len(s)
      /\ \A d \in 0..r : s[n + i + d] = Byte(s[n + i].frame, s[n + i].at + d)
      /\ n + i + r = Len(s) => s[n + i].frame = Len(f)
      /\ n + i + r < Len(s) =>
            s[n + i].frame < Len(f) /\ s[n + i + r + 1] = Byte(s[n + i].frame + 1, 1)
  BY <1>2 DEF FramedAt
<1>5. i + r <= Len(t)
  BY <1>1, <1>f, <1>3
<1> HIDE DEF r
<1>6. ASSUME NEW d \in 0..r PROVE t[i + d] = Byte(t[i].frame, t[i].at + d)
  <2>1. s[n + i + d] = Byte(s[n + i].frame, s[n + i].at + d)
    BY <1>f
  <2>2. i + d \in 1..(Len(s) - n)
    BY <1>1, <1>3, <1>5
  <2>3. t[i + d] = s[n + (i + d)] /\ n + (i + d) = n + i + d
    BY <1>1, <2>2
  <2> QED
    BY <1>2, <2>1, <2>3
<1>7. i + r = Len(t) => t[i].frame = Len(f)
  BY <1>1, <1>2, <1>3, <1>f
<1>8. ASSUME i + r < Len(t)
      PROVE  t[i].frame < Len(f) /\ t[i + r + 1] = Byte(t[i].frame + 1, 1)
  <2>1. n + i + r < Len(s)
    BY <1>1, <1>3, <1>8
  <2>2. s[n + i].frame < Len(f) /\ s[n + i + r + 1] = Byte(s[n + i].frame + 1, 1)
    BY <1>f, <2>1
  <2>3. i + r + 1 \in 1..(Len(s) - n)
    BY <1>1, <1>3, <1>8
  <2>4. t[i + r + 1] = s[n + (i + r + 1)] /\ n + (i + r + 1) = n + i + r + 1
    BY <1>1, <1>3, <2>3
  <2> QED
    BY <1>2, <2>2, <2>4
<1> QED
  BY <1>2, <1>4, <1>5, <1>6, <1>7, <1>8 DEF FramedAt, t, r

(* The first byte of a stream is one of the frames sent.                   *)
LEMMA StreamFirst ==
  ASSUME NEW f \in Seq(Nat), NEW s \in Seq(Bytes), NEW k \in Nat, NEW j \in Nat \ {0},
         Stream(f, s, k, j), s # << >>
  PROVE  /\ k \in 1..Len(f) /\ j \in 1..Size(f, k)
         /\ Size(f, k) \in Nat /\ Size(f, k) - j \in Nat
         /\ FramedAt(f, s, 1) /\ s[1] = Byte(k, j) /\ Rest(f, s[1]) = Size(f, k) - j
<1>1. 1 \in 1..Len(s) /\ s[1] = Byte(k, j) /\ FramedAt(f, s, 1)
  BY DEF Stream, StartsAt
<1>2. s[1].frame = k /\ s[1].at = j /\ Rest(f, s[1]) = Size(f, k) - j
  BY <1>1, ByteFields DEF Rest
<1>3. k \in 1..Len(f) /\ j \in 1..Size(f, k)
  BY <1>1, <1>2 DEF FramedAt
<1> QED
  BY <1>1, <1>2, <1>3, RestType

(* The first n bytes of a stream, all of one frame, are the n to come, and *)
(* the next one follows them.                                              *)
Drops(f, s, k, j, n) ==
    /\ \A i \in 1..n : s[i] = Byte(k, j + i - 1)
    /\ IF j + n = Size(f, k) + 1 THEN Stream(f, SubSeq(s, n + 1, Len(s)), k + 1, 1)
                                 ELSE Stream(f, SubSeq(s, n + 1, Len(s)), k, j + n)

LEMMA StreamDrop ==
  ASSUME NEW f \in Seq(Nat), NEW s \in Seq(Bytes), NEW k \in Nat, NEW j \in Nat \ {0},
         NEW n \in Nat, Stream(f, s, k, j), n <= Len(s), s # << >>, j + n <= Size(f, k) + 1
  PROVE  Drops(f, s, k, j, n)
<1> DEFINE t == SubSeq(s, n + 1, Len(s))
           r == Size(f, k) - j
<1>1. /\ t \in Seq(Bytes) /\ Len(t) = Len(s) - n
      /\ \A i \in 1..(Len(s) - n) : t[i] = s[n + i]
  BY SeqPlaces
<1>2. \A i \in 1..Len(t) : FramedAt(f, t, i)
  BY <1>1, FramedDrop DEF Stream
<1> HIDE DEF t
<1>3. /\ 1 \in 1..Len(s) /\ s[1] = Byte(k, j) /\ FramedAt(f, s, 1)
      /\ s[1].frame = k /\ s[1].at = j /\ Rest(f, s[1]) = r
  BY StreamFirst, ByteFields
<1>5. k \in 1..Len(f) /\ j \in 1..Size(f, k) /\ Size(f, k) \in Nat /\ r \in Nat
  BY StreamFirst
<1> HIDE DEF r
<1>6. /\ 1 + r <= Len(s)
      /\ \A d \in 0..r : s[1 + d] = Byte(k, j + d)
      /\ 1 + r = Len(s) => k = Len(f)
      /\ 1 + r < Len(s) => s[1 + r + 1] = Byte(k + 1, 1)
  BY <1>3 DEF FramedAt
<1>r. r = Size(f, k) - j
  BY DEF r
<1>7. ASSUME NEW i \in 1..n PROVE s[i] = Byte(k, j + i - 1)
  <2>1. i - 1 \in 0..r
    BY <1>5, <1>r
  <2>2. s[1 + (i - 1)] = Byte(k, j + (i - 1))
    BY <1>6, <2>1
  <2>3. 1 + (i - 1) = i /\ j + (i - 1) = j + i - 1
    OBVIOUS
  <2> QED
    BY <2>2, <2>3
<1>8. CASE j + n = Size(f, k) + 1
  <2>1. n = r + 1
    BY <1>5, <1>8, <1>r
  <2>2. CASE n = Len(s)
    BY <1>1, <1>2, <1>5, <1>6, <1>7, <1>8, <2>1, <2>2 DEF Stream, StartsAt, t, Drops
  <2>3. CASE n < Len(s)
    <3>1. 1 \in 1..Len(t) /\ t[1] = s[n + 1] /\ t # << >>
      BY <1>1, <2>3
    <3>2. t[1] = Byte(k + 1, 1)
      BY <1>5, <1>6, <2>1, <2>3, <3>1
    <3>3. Stream(f, t, k + 1, 1)
      BY <1>2, <3>1, <3>2 DEF Stream, StartsAt
    <3> QED
      BY <1>5, <1>7, <1>8, <3>3 DEF t, Drops
  <2> QED
    BY <2>2, <2>3
<1>9. CASE j + n # Size(f, k) + 1
  <2>1. n \in 0..r
    <3>1. Size(f, k) \in Nat /\ r \in Nat /\ r = Size(f, k) - j
      BY <1>5, <1>r
    <3>2. j + n <= Size(f, k)
      BY <1>9, <3>1
    <3> QED
      BY <3>1, <3>2
  <2>2. s[1 + n] = Byte(k, j + n) /\ n < Len(s) /\ 1 + n = n + 1
    BY <1>5, <1>6, <2>1
  <2>3. 1 \in 1..Len(t) /\ t[1] = s[n + 1] /\ t # << >>
    BY <1>1, <2>2
  <2>4. Stream(f, t, k, j + n)
    BY <1>2, <2>2, <2>3 DEF Stream, StartsAt
  <2> QED
    BY <1>5, <1>7, <1>9, <2>4 DEF t, Drops
<1> QED
  BY <1>8, <1>9

(* One more frame is sent.                                                 *)
LEMMA StreamSend ==
  ASSUME NEW f \in Seq(Nat), NEW s \in Seq(Bytes), NEW k \in Nat, NEW j \in Nat \ {0},
         Stream(f, s, k, j), NEW n \in Nat, Frame(Len(f) + 1, n) \in Seq(Bytes)
  PROVE  Stream(Append(f, n), s \o Frame(Len(f) + 1, n), k, j)
<1> DEFINE m == Len(f) + 1
           g == Append(f, n)
           a == Frame(m, n)
           t == s \o a
<1>1. /\ m \in Nat /\ g \in Seq(Nat) /\ Len(g) = m /\ g[m] = n
      /\ \A i \in 1..Len(f) : g[i] = f[i]
  OBVIOUS
<1>2. HeaderLength + n \in Nat \ {0} /\ HeaderLength \in Nat
  BY ReaderAssumption
<1>3. Len(a) = HeaderLength + n /\ \A i \in 1..(HeaderLength + n) : a[i] = Byte(m, i)
  BY <1>2 DEF Frame
<1>4. a \in Seq(Bytes)
  OBVIOUS
<1> HIDE DEF g, a, m
<1>5. /\ t \in Seq(Bytes) /\ Len(t) = Len(s) + (HeaderLength + n)
      /\ \A i \in 1..Len(s) : t[i] = s[i]
      /\ \A i \in 1..(HeaderLength + n) : t[Len(s) + i] = Byte(m, i)
  <2> HIDE DEF a
  <2>1. t \in Seq(Bytes) /\ Len(t) = Len(s) + Len(a)
    BY <1>4
  <2>2. \A i \in 1..Len(s) : t[i] = s[i]
    BY <1>4
  <2>3. \A i \in 1..Len(a) : t[Len(s) + i] = a[i]
    BY <1>4
  <2> QED
    BY <1>2, <1>3, <2>1, <2>2, <2>3
<1> HIDE DEF t
<1>6. Len(s) \in Nat
  OBVIOUS
<1>7. ASSUME NEW i \in 1..Len(s) PROVE FramedAt(g, t, i)
  <2> DEFINE r == Rest(f, s[i])
  <2>1. FramedAt(f, s, i) /\ t[i] = s[i]
    BY <1>5 DEF Stream
  <2>2. f[s[i].frame] \in Nat /\ r \in Nat /\ Rest(g, t[i]) = r
    <3>1. s[i].frame \in 1..Len(f) /\ s[i].at \in 1..Size(f, s[i].frame)
      BY <2>1 DEF FramedAt
    <3>2. f[s[i].frame] \in Nat /\ r \in Nat
      BY <3>1, RestType
    <3>3. Size(g, s[i].frame) = Size(f, s[i].frame)
      BY <1>1, <3>1 DEF Size
    <3> QED
      BY <2>1, <3>2, <3>3 DEF Rest
  <2>s. Size(g, s[i].frame) = Size(f, s[i].frame)
    BY <1>1, <2>1 DEF FramedAt, Size
  <2>3. /\ s[i].frame \in 1..Len(f) /\ s[i].at \in 1..Size(f, s[i].frame)
        /\ i + r <= Len(s)
        /\ \A d \in 0..r : s[i + d] = Byte(s[i].frame, s[i].at + d)
        /\ i + r = Len(s) => s[i].frame = Len(f)
        /\ i + r < Len(s) => s[i].frame < Len(f) /\ s[i + r + 1] = Byte(s[i].frame + 1, 1)
    BY <2>1 DEF FramedAt
  <2> HIDE DEF r
  <2>a. r \in Nat /\ i + r <= Len(s)
    BY <2>2, <2>3
  <2>b. Len(g) = Len(f) + 1 /\ m = Len(f) + 1 /\ Len(f) \in Nat
    BY <1>1 DEF m
  <2>c. s[i].frame \in 1..Len(f)
    BY <2>3
  <2>4. t[i].frame \in 1..Len(g) /\ t[i].at \in 1..Size(g, t[i].frame)
    <3>1. s[i].frame \in 1..Len(g)
      BY <2>b, <2>c
    <3> QED
      BY <2>1, <2>3, <2>s, <3>1
  <2>5. i + r < Len(t)
    BY <1>2, <1>5, <2>2, <2>3
  <2>6. ASSUME NEW d \in 0..r PROVE t[i + d] = Byte(t[i].frame, t[i].at + d)
    <3>1. i + d \in 1..Len(s)
      BY <1>6, <2>a
    <3> QED
      BY <1>5, <2>1, <2>3, <3>1
  <2>7. t[i].frame < Len(g) /\ t[i + r + 1] = Byte(t[i].frame + 1, 1)
    <3>1. CASE i + r = Len(s)
      <4>1. t[Len(s) + 1] = Byte(m, 1)
        BY <1>2, <1>5
      <4>2. s[i].frame = Len(f) /\ i + r + 1 = Len(s) + 1
        BY <2>3, <3>1
      <4> QED
        BY <2>1, <2>b, <4>1, <4>2
    <3>2. CASE i + r < Len(s)
      <4>1. i + r + 1 \in 1..Len(s)
        BY <1>6, <2>a, <3>2
      <4>2. s[i].frame < Len(f) /\ s[i + r + 1] = Byte(s[i].frame + 1, 1)
        BY <2>3, <3>2
      <4>3. t[i + r + 1] = s[i + r + 1]
        BY <1>5, <4>1
      <4>4. s[i].frame < Len(g)
        BY <2>b, <2>c, <4>2
      <4> QED
        BY <2>1, <4>2, <4>3, <4>4
    <3> QED
      BY <2>2, <2>3, <3>1, <3>2
  <2> QED
    BY <2>2, <2>4, <2>5, <2>6, <2>7 DEF FramedAt
<1>8. ASSUME NEW i \in 1..Len(t), i > Len(s) PROVE FramedAt(g, t, i)
  <2> DEFINE e == i - Len(s)
             r == (HeaderLength + n) - e
  <2>1. e \in 1..(HeaderLength + n) /\ i = Len(s) + e
    BY <1>2, <1>5, <1>8
  <2>r. r = (HeaderLength + n) - e
    OBVIOUS
  <2> HIDE DEF e, r
  <2>2. t[i] = Byte(m, e)
    BY <1>5, <2>1
  <2>3. t[i].frame = m /\ t[i].at = e /\ Size(g, m) = HeaderLength + n
    BY <1>1, <2>2, ByteFields DEF Size
  <2>4. Rest(g, t[i]) = r
    <3>1. Rest(g, t[i]) = Size(g, t[i].frame) - t[i].at
      BY DEF Rest
    <3>2. Rest(g, t[i]) = (HeaderLength + n) - e
      BY <2>3, <3>1, Zenon
    <3> QED
      BY <2>r, <3>2
  <2>5. r \in Nat /\ i + r = Len(t)
    BY <1>2, <1>5, <1>6, <2>1, <2>r
  <2>6. ASSUME NEW d \in 0..r PROVE t[i + d] = Byte(m, e + d)
    <3>1. e + d \in 1..(HeaderLength + n) /\ i + d = Len(s) + (e + d)
      BY <1>2, <1>6, <2>1, <2>5, <2>r
    <3> QED
      BY <1>5, <3>1
  <2>7. m \in 1..Len(g) /\ e \in 1..Size(g, m)
    BY <1>1, <2>1, <2>3 DEF m
  <2> QED
    BY <1>1, <2>3, <2>4, <2>5, <2>6, <2>7 DEF FramedAt
<1>9. \A i \in 1..Len(t) : FramedAt(g, t, i)
  BY <1>5, <1>6, <1>7, <1>8
<1>10. StartsAt(g, t, k, j)
  <2>1. t # << >>
    BY <1>2, <1>5, <1>6
  <2>2. CASE s = << >>
    <3>1. k = m /\ j = 1
      BY <2>2 DEF Stream, StartsAt, m
    <3>2. Len(s) = 0
      BY <2>2
    <3>3. t[0 + 1] = Byte(m, 1)
      BY <1>2, <1>5, <3>2
    <3> QED
      BY <2>1, <3>1, <3>3 DEF StartsAt
  <2>3. CASE s # << >>
    BY <1>5, <2>1, <2>3 DEF Stream, StartsAt
  <2> QED
    BY <2>2, <2>3
<1> QED
  BY <1>9, <1>10 DEF Stream, g, t, a, m

-----------------------------------------------------------------------------
(* What a run through the loop does with the bytes to come                 *)

Pending == buffer \o wire

LEMMA SeqOfMore ==
  ASSUME NEW S, NEW T, S \subseteq T, NEW s \in Seq(S)
  PROVE  s \in Seq(T)
OBVIOUS

LEMMA SeqIsFunction ==
  ASSUME NEW S, NEW s \in Seq(S)
  PROVE  s = [i \in 1..Len(s) |-> s[i]]
OBVIOUS

LEMMA AppendIs ==
  ASSUME NEW S, NEW s \in Seq(S), NEW e, NEW t,
         t = [i \in 1..(Len(s) + 1) |-> t[i]],
         \A i \in 1..Len(s) : t[i] = s[i], t[Len(s) + 1] = e
  PROVE  t = Append(s, e)
<1> DEFINE u == Append(s, e)
<1>1. s \in Seq(S \cup {e}) /\ e \in S \cup {e}
  BY SeqOfMore
<1>2. /\ u \in Seq(S \cup {e}) /\ Len(u) = Len(s) + 1 /\ u[Len(s) + 1] = e
      /\ \A i \in 1..Len(s) : u[i] = s[i]
  BY <1>1
<1>3. Len(s) \in Nat
  OBVIOUS
<1> HIDE DEF u
<1>4. u = [i \in 1..(Len(s) + 1) |-> u[i]]
  BY <1>2, SeqIsFunction
<1>5. \A i \in 1..(Len(s) + 1) : i \in 1..Len(s) \/ i = Len(s) + 1
  BY <1>3
<1>6. \A i \in 1..(Len(s) + 1) : u[i] = t[i]
  BY <1>2, <1>5
<1>7. u = t
  BY <1>4, <1>6
<1> QED
  BY <1>7 DEF u

LEMMA PendingType ==
  ASSUME TypeOK
  PROVE  /\ Pending \in Seq(Bytes) /\ Len(Pending) = Len(buffer) + Len(wire)
         /\ buffer # << >> => Pending # << >>
         /\ frames \in Seq(Nat) /\ Len(frames) \in Nat
         /\ Current \in Nat \ {0} /\ Len(posted) \in Nat /\ Current = Len(posted) + 1
<1>1. buffer \in Seq(Bytes) /\ wire \in Seq(Bytes)
  BY DEF TypeOK
<1>2. frames \in Seq(Nat)
  <2>1. frames \in Seq(Lengths)
    BY DEF TypeOK
  <2>2. Lengths \subseteq Nat
    BY ReaderAssumption
  <2> QED
    BY <2>1, <2>2, SeqOfMore
<1>3. Len(posted) \in Nat
  BY DEF TypeOK
<1>4. buffer # << >> => Pending # << >>
  BY <1>1 DEF Pending
<1> QED
  BY <1>1, <1>2, <1>3, <1>4 DEF Pending, Current

LEMMA Taken ==
  ASSUME TypeOK, NEW n \in Nat, n <= Len(buffer)
  PROVE  /\ n <= Len(Pending)
         /\ Copied(n) \in Seq(Bytes) /\ Len(Copied(n)) = n
         /\ \A i \in 1..n : Copied(n)[i] = Pending[i]
         /\ Left(n) \o wire = SubSeq(Pending, n + 1, Len(Pending))
<1>1. buffer \in Seq(Bytes) /\ wire \in Seq(Bytes)
  BY DEF TypeOK
<1>2. \A i \in 1..Len(buffer) : Pending[i] = buffer[i]
  BY <1>1 DEF Pending
<1>3. \A i \in 1..Len(wire) : Pending[Len(buffer) + i] = wire[i]
  BY <1>1 DEF Pending
<1>4. Pending \in Seq(Bytes) /\ Len(Pending) = Len(buffer) + Len(wire)
  BY PendingType
<1>5. /\ Left(n) \in Seq(Bytes) /\ Len(Left(n)) = Len(buffer) - n
      /\ \A i \in 1..(Len(buffer) - n) : Left(n)[i] = buffer[n + i]
  BY <1>1, SeqPlaces DEF Left
<1>6. n <= Len(Pending)
  BY <1>1, <1>4
<1>7. /\ SubSeq(Pending, n + 1, Len(Pending)) \in Seq(Bytes)
      /\ Len(SubSeq(Pending, n + 1, Len(Pending))) = Len(Pending) - n
      /\ \A i \in 1..(Len(Pending) - n) :
             SubSeq(Pending, n + 1, Len(Pending))[i] = Pending[n + i]
  BY <1>4, <1>6, SeqPlaces
<1>8. Left(n) \o wire = SubSeq(Pending, n + 1, Len(Pending))
  <2> DEFINE l == Left(n)
             a == l \o wire
             b == SubSeq(Pending, n + 1, Len(Pending))
  <2>1. Len(buffer) \in Nat /\ Len(wire) \in Nat
    BY <1>1
  <2>2. l \in Seq(Bytes)
    BY <1>5
  <2> HIDE DEF l
  <2>3. /\ a \in Seq(Bytes) /\ Len(a) = Len(l) + Len(wire)
        /\ \A i \in 1..Len(l) : a[i] = l[i]
        /\ \A i \in 1..Len(wire) : a[Len(l) + i] = wire[i]
    BY <1>1, <2>2
  <2>4. Len(l) = Len(buffer) - n /\ \A i \in 1..(Len(buffer) - n) : l[i] = buffer[n + i]
    BY <1>5 DEF l
  <2>5. Len(a) = Len(b)
    BY <1>4, <1>7, <2>1, <2>3, <2>4
  <2>6. b \in Seq(Bytes)
    BY <1>7
  <2>7. \A i \in 1..(Len(Pending) - n) : b[i] = Pending[n + i]
    BY <1>7
  <2>8. Len(b) = Len(Pending) - n
    BY <1>7
  <2> HIDE DEF a, b
  <2>9. ASSUME NEW i \in 1..Len(b) PROVE a[i] = b[i]
    <3>1. i \in 1..(Len(Pending) - n) /\ b[i] = Pending[n + i]
      BY <2>7, <2>8
    <3>2. CASE i <= Len(buffer) - n
      <4>1. i \in 1..(Len(buffer) - n) /\ i \in 1..Len(l) /\ n + i \in 1..Len(buffer)
        BY <2>1, <2>4, <3>1, <3>2
      <4> QED
        BY <1>2, <2>3, <2>4, <3>1, <4>1
    <3>3. CASE i > Len(buffer) - n
      <4> DEFINE j == i - (Len(buffer) - n)
      <4>1. j \in 1..Len(wire) /\ i = Len(l) + j /\ n + i = Len(buffer) + j
        BY <1>4, <2>1, <2>4, <3>1, <3>3
      <4> HIDE DEF j
      <4> QED
        BY <1>3, <2>3, <3>1, <4>1
    <3> QED
      BY <2>1, <3>1, <3>2, <3>3
  <2>10. a = b
    BY <2>3, <2>5, <2>6, <2>9
  <2> QED
    BY <2>10 DEF a, b, l
<1>9. Copied(n) \in Seq(Bytes) /\ Len(Copied(n)) = n /\ \A i \in 1..n : Copied(n)[i] = buffer[i]
  BY <1>1 DEF Copied
<1> QED
  BY <1>1, <1>2, <1>6, <1>8, <1>9

(* n more bytes of a frame are put behind those that are there.            *)
Part(s, k, o) == \A i \in 1..Len(s) : s[i] = Byte(k, o + i)

LEMMA PutBehind ==
  ASSUME NEW a \in Seq(Bytes), NEW b \in Seq(Bytes), NEW k, NEW o \in Nat,
         Part(a, k, o), Part(b, k, o + Len(a))
  PROVE  Part(a \o b, k, o)
<1> DEFINE c == a \o b
<1>1. /\ c \in Seq(Bytes) /\ Len(c) = Len(a) + Len(b)
      /\ \A i \in 1..Len(a) : c[i] = a[i]
      /\ \A i \in 1..Len(b) : c[Len(a) + i] = b[i]
  OBVIOUS
<1> HIDE DEF c
<1>2. Len(a) \in Nat /\ Len(b) \in Nat
  OBVIOUS
<1>3. ASSUME NEW i \in 1..Len(c) PROVE c[i] = Byte(k, o + i)
  <2>1. CASE i <= Len(a)
    <3>1. i \in 1..Len(a)
      BY <2>1
    <3> QED
      BY <1>1, <3>1 DEF Part
  <2>2. CASE i > Len(a)
    <3> DEFINE j == i - Len(a)
    <3>1. j \in 1..Len(b) /\ i = Len(a) + j /\ (o + Len(a)) + j = o + i
      BY <1>1, <1>2, <2>2
    <3> HIDE DEF j
    <3>2. c[i] = b[j] /\ b[j] = Byte(k, (o + Len(a)) + j)
      BY <1>1, <3>1 DEF Part
    <3> QED
      BY <3>1, <3>2
  <2> QED
    BY <1>2, <2>1, <2>2
<1> QED
  BY <1>3 DEF c, Part

LEMMA HeadTaken ==
  ASSUME TypeOK, HeadOK, buffer # << >>, NEW n, n = BytesToCopy(HeaderLength - Len(head)),
         NEW h, h = head \o Copied(n)
  PROVE  /\ Current \in 1..Len(frames)
         /\ h \in Seq(Bytes) /\ Len(h) \in Nat /\ Len(h) <= HeaderLength
         /\ \A i \in 1..Len(h) : h[i] = Byte(Current, i)
         /\ IF Len(h) = HeaderLength /\ frames[Current] = 0
            THEN Stream(frames, Left(n) \o wire, Current + 1, 1)
            ELSE Stream(frames, Left(n) \o wire, Current, Len(h) + 1)
<1> DEFINE j == Len(head) + 1
<1>1. head \in Seq(Bytes) /\ Len(head) \in Nat /\ buffer \in Seq(Bytes) /\ HeaderLength \in Nat
  BY ReaderAssumption DEF TypeOK
<1>2. HeaderLength - Len(head) \in Nat /\ j \in Nat \ {0}
  BY <1>1 DEF HeadOK
<1>3. n \in Nat /\ n <= HeaderLength - Len(head) /\ n <= Len(buffer)
  BY <1>1, <1>2, BytesToCopyFits
<1>4. /\ n <= Len(Pending) /\ Copied(n) \in Seq(Bytes) /\ Len(Copied(n)) = n
      /\ \A i \in 1..n : Copied(n)[i] = Pending[i]
      /\ Left(n) \o wire = SubSeq(Pending, n + 1, Len(Pending))
  BY <1>3, Taken
<1>5. /\ Pending \in Seq(Bytes) /\ Pending # << >> /\ frames \in Seq(Nat)
      /\ Current \in Nat
  BY PendingType
<1>6. Stream(frames, Pending, Current, j)
  BY DEF HeadOK, Pending
<1>7. Current \in 1..Len(frames)
  BY <1>2, <1>5, <1>6, StreamFirst
<1>8. frames[Current] \in Nat /\ Size(frames, Current) = HeaderLength + frames[Current]
  BY <1>5, <1>7 DEF Size
<1>9. j + n <= HeaderLength + 1 /\ j + n <= Size(frames, Current) + 1
  BY <1>1, <1>2, <1>3, <1>8
<1>10. h \in Seq(Bytes) /\ Len(h) = Len(head) + n
  <2>1. head \in Seq(Bytes) /\ Copied(n) \in Seq(Bytes) /\ Len(Copied(n)) = n
    BY <1>1, <1>4
  <2> QED
    BY <2>1, ConcatType
<1>11. Len(h) + 1 = j + n /\ Len(h) <= HeaderLength /\ Len(h) \in Nat
  BY <1>1, <1>3, <1>10
<1> HIDE DEF j
<1>12. /\ \A i \in 1..n : Pending[i] = Byte(Current, j + i - 1)
       /\ IF j + n = Size(frames, Current) + 1
          THEN Stream(frames, SubSeq(Pending, n + 1, Len(Pending)), Current + 1, 1)
          ELSE Stream(frames, SubSeq(Pending, n + 1, Len(Pending)), Current, j + n)
  <2>1. Drops(frames, Pending, Current, j, n)
    BY <1>2, <1>3, <1>4, <1>5, <1>6, <1>9, StreamDrop
  <2> QED
    BY <2>1 DEF Drops
<1>13. \A i \in 1..Len(h) : h[i] = Byte(Current, i)
  <2>1. Part(head, Current, 0)
    BY <1>1 DEF HeadOK, Part
  <2>2. ASSUME NEW i \in 1..Len(Copied(n))
        PROVE  Copied(n)[i] = Byte(Current, (0 + Len(head)) + i)
    <3>1. i \in 1..n /\ j + i - 1 = (0 + Len(head)) + i
      BY <1>1, <1>4 DEF j
    <3> QED
      BY <1>4, <1>12, <3>1
  <2>3. Part(Copied(n), Current, 0 + Len(head))
    BY <2>2 DEF Part
  <2>4. Part(h, Current, 0)
    BY <1>1, <1>4, <2>1, <2>3, PutBehind
  <2> QED
    BY <1>11, <2>4 DEF Part
<1>14. (j + n = Size(frames, Current) + 1) <=> (Len(h) = HeaderLength /\ frames[Current] = 0)
  BY <1>1, <1>8, <1>9, <1>11
<1> QED
  BY <1>4, <1>7, <1>10, <1>11, <1>12, <1>13, <1>14

LEMMA BodyTaken ==
  ASSUME TypeOK, BodyOK, buffer # << >>, NEW n, n = BytesToCopy(total - Len(body)),
         NEW c, c = body \o Copied(n)
  PROVE  /\ Current \in 1..Len(frames) /\ frames[Current] = total
         /\ c \in Seq(Bytes) /\ Len(c) \in Nat /\ Len(c) <= total
         /\ \A i \in 1..Len(c) : c[i] = Byte(Current, HeaderLength + i)
         /\ IF Len(c) = total
            THEN Stream(frames, Left(n) \o wire, Current + 1, 1)
            ELSE Stream(frames, Left(n) \o wire, Current, HeaderLength + Len(c) + 1)
         /\ total = 0 => Len(c) = 0 /\ Current < Len(frames)
<1>1. /\ body \in Seq(Bytes) /\ Len(body) \in Nat /\ buffer \in Seq(Bytes)
      /\ HeaderLength \in Nat /\ total \in Nat /\ Len(body) <= total
  BY ReaderAssumption DEF TypeOK
<1>2. total - Len(body) \in Nat
  BY <1>1
<1>3. n \in Nat /\ n <= total - Len(body) /\ n <= Len(buffer)
  BY <1>1, <1>2, BytesToCopyFits
<1>4. /\ n <= Len(Pending) /\ Copied(n) \in Seq(Bytes) /\ Len(Copied(n)) = n
      /\ \A i \in 1..n : Copied(n)[i] = Pending[i]
      /\ Left(n) \o wire = SubSeq(Pending, n + 1, Len(Pending))
  BY <1>3, Taken
<1>5. /\ Pending \in Seq(Bytes) /\ Pending # << >> /\ frames \in Seq(Nat)
      /\ Current \in Nat \ {0} /\ Len(frames) \in Nat
  BY PendingType
<1>6. /\ Current \in 1..Len(frames) /\ frames[Current] = total
      /\ Size(frames, Current) = HeaderLength + total
  BY <1>5 DEF BodyOK, Size
<1>7. c \in Seq(Bytes) /\ Len(c) = Len(body) + n /\ Len(c) \in Nat /\ Len(c) <= total
  <2>1. body \in Seq(Bytes) /\ Copied(n) \in Seq(Bytes) /\ Len(Copied(n)) = n
    BY <1>1, <1>4
  <2>2. c \in Seq(Bytes) /\ Len(c) = Len(body) + n
    BY <2>1, ConcatType
  <2>3. Len(body) + n <= total /\ Len(body) + n \in Nat
    BY <1>1, <1>3
  <2> QED
    BY <2>2, <2>3
<1>8. CASE total = 0
  <2>1. n = 0 /\ Len(c) = 0
    BY <1>1, <1>3, <1>7, <1>8
  <2>2. Stream(frames, Pending, Current + 1, 1)
    BY <1>8 DEF BodyOK, Pending
  <2>3. Current + 1 \in 1..Len(frames)
    BY <1>5, <2>2, StreamFirst
  <2>4. SubSeq(Pending, n + 1, Len(Pending)) = Pending
    BY <1>5, <2>1
  <2>5. \A i \in 1..Len(c) : c[i] = Byte(Current, HeaderLength + i)
    BY <2>1
  <2>6. Stream(frames, Left(n) \o wire, Current + 1, 1)
    BY <1>4, <2>2, <2>4
  <2>7. Current < Len(frames)
    BY <1>5, <2>3
  <2> QED
    BY <1>6, <1>7, <1>8, <2>1, <2>5, <2>6, <2>7
<1>9. CASE total # 0
  <2> DEFINE j == HeaderLength + Len(body) + 1
  <2>1. Stream(frames, Pending, Current, j)
    BY <1>9 DEF BodyOK, Pending
  <2>2. j \in Nat \ {0} /\ j + n <= Size(frames, Current) + 1
    BY <1>1, <1>3, <1>6
  <2>3. j + n = HeaderLength + Len(c) + 1
    BY <1>1, <1>3, <1>7
  <2>j. j = HeaderLength + Len(body) + 1
    OBVIOUS
  <2> HIDE DEF j
  <2>4. /\ \A i \in 1..n : Pending[i] = Byte(Current, j + i - 1)
        /\ IF j + n = Size(frames, Current) + 1
           THEN Stream(frames, SubSeq(Pending, n + 1, Len(Pending)), Current + 1, 1)
           ELSE Stream(frames, SubSeq(Pending, n + 1, Len(Pending)), Current, j + n)
    <3>1. Drops(frames, Pending, Current, j, n)
      BY <1>3, <1>4, <1>5, <2>1, <2>2, StreamDrop
    <3> QED
      BY <3>1 DEF Drops
  <2>5. \A i \in 1..Len(c) : c[i] = Byte(Current, HeaderLength + i)
    <3>1. Part(body, Current, HeaderLength)
      BY DEF BodyOK, Part
    <3>2. ASSUME NEW i \in 1..Len(Copied(n))
          PROVE  Copied(n)[i] = Byte(Current, (HeaderLength + Len(body)) + i)
      <4>1. i \in 1..n /\ j + i - 1 = (HeaderLength + Len(body)) + i
        BY <1>1, <1>4, <2>j
      <4> QED
        BY <1>4, <2>4, <4>1
    <3>3. Part(Copied(n), Current, HeaderLength + Len(body))
      BY <3>2 DEF Part
    <3>4. Part(c, Current, HeaderLength)
      BY <1>1, <1>4, <3>1, <3>3, PutBehind
    <3> QED
      BY <3>4 DEF Part
  <2>6. (j + n = Size(frames, Current) + 1) <=> Len(c) = total
    <3>1. Size(frames, Current) = HeaderLength + total
      BY <1>6
    <3>2. HeaderLength \in Nat /\ total \in Nat /\ Len(c) \in Nat
      BY <1>1, <1>7
    <3>3. (HeaderLength + Len(c) + 1 = HeaderLength + total + 1) <=> Len(c) = total
      BY <3>2
    <3> QED
      BY <2>3, <3>1, <3>3
  <2> QED
    BY <1>4, <1>6, <1>7, <1>9, <2>3, <2>4, <2>5, <2>6
<1> QED
  BY <1>8, <1>9

(* A header that is one is decoded to the length the client wrote.         *)
LEMMA DecodedIs ==
  ASSUME frames \in Seq(Nat), NEW k \in 1..Len(frames), NEW h \in Seq(Bytes),
         Len(h) = HeaderLength, \A i \in 1..Len(h) : h[i] = Byte(k, i)
  PROVE  Decoded(h) = {frames[k]}
<1> DEFINE g == SubSeq(Frame(k, 0), 1, HeaderLength)
<1>1. HeaderLength \in Nat \ {0} /\ HeaderLength + 0 = HeaderLength
  BY ReaderAssumption
<1>2. Frame(k, 0) = [i \in 1..HeaderLength |-> Byte(k, i)]
  BY <1>1 DEF Frame
<1>3. Len(g) = HeaderLength /\ g = [i \in 1..HeaderLength |-> Byte(k, i)]
  BY <1>1, <1>2
<1>4. h = [i \in 1..HeaderLength |-> Byte(k, i)]
  BY <1>1
<1>5. h = g
  BY <1>3, <1>4
<1>6. h[1].frame = k
  <2>1. h[1] = Byte(k, 1)
    BY <1>1
  <2> QED
    BY <2>1, ByteFields
<1> QED
  BY <1>5, <1>6 DEF Decoded

-----------------------------------------------------------------------------
(* The invariant                                                           *)

LEMMA RInit == Init => RInv
<1> SUFFICES ASSUME Init PROVE RInv
  OBVIOUS
<1>1. TypeOK
  BY ReaderInit
<1>2. PostedOK
  BY DEF Init, PostedOK
<1>3. HeadOK
  <2>1. Len(head) = 0 /\ Current = 1 /\ Len(frames) = 0
    BY DEF Init, Current
  <2>2. buffer \o wire = << >> /\ Len(<< >>) = 0
    BY DEF Init
  <2>3. Stream(frames, << >>, 1, 1)
    BY <2>1, <2>2 DEF Stream, StartsAt
  <2> QED
    BY <2>1, <2>2, <2>3, ReaderAssumption DEF HeadOK
<1> QED
  BY <1>1, <1>2, <1>3 DEF RInv, OpenOK, Init

(* A step that takes no frame to an end leaves what was posted alone.      *)
LEMMA PostedKept ==
  ASSUME PostedOK, frames' = frames, posted' = posted
  PROVE  PostedOK'
BY DEF PostedOK, Body, BodyOf

LEMMA SendsStep ==
  ASSUME RInv, NEW n \in Lengths, ClientSends(n)
  PROVE  PostedOK' /\ OpenOK'
<1> DEFINE m == Len(frames) + 1
<1>1. TypeOK /\ PostedOK /\ OpenOK
  BY DEF RInv, ClientSends
<1>2. n \in Nat /\ HeaderLength \in Nat
  BY ReaderAssumption
<1>3. /\ Pending \in Seq(Bytes) /\ frames \in Seq(Nat) /\ Len(frames) \in Nat
      /\ Current \in Nat \ {0} /\ Len(posted) \in Nat /\ Current = Len(posted) + 1
  BY <1>1, PendingType
<1>4. /\ frames' = Append(frames, n) /\ Len(frames') = m
      /\ \A i \in 1..Len(frames) : frames'[i] = frames[i]
  BY <1>2, <1>3 DEF ClientSends
<1>5. Frame(m, n) \in Seq(Bytes)
  <2>1. m \in 1..MaxFrames
    BY <1>3, ReaderAssumption DEF ClientSends
  <2> QED
    BY <1>2, <2>1, FrameType
<1>6. buffer' \o wire' = Pending \o Frame(m, n)
  <2>1. buffer \in Seq(Bytes) /\ wire \in Seq(Bytes)
    BY <1>1 DEF TypeOK
  <2>2. buffer \o (wire \o Frame(m, n)) = (buffer \o wire) \o Frame(m, n)
    BY <1>5, <2>1
  <2> QED
    BY <2>2 DEF ClientSends, parser, Pending
<1>7. /\ state' = state /\ headParse' = headParse /\ head' = head /\ body' = body
      /\ total' = total /\ posted' = posted /\ buffer' = buffer /\ Current' = Current
  BY DEF ClientSends, parser, Current
<1>8. ASSUME NEW k \in Nat, NEW j \in Nat \ {0}, Stream(frames, Pending, k, j)
      PROVE  Stream(frames', buffer' \o wire', k, j)
  BY <1>2, <1>3, <1>4, <1>5, <1>6, <1>8, StreamSend
<1>9. PostedOK'
  <2>1. Len(posted) <= Len(frames) /\ \A i \in 1..Len(posted) : posted[i] = Body(i)
    BY <1>1 DEF PostedOK
  <2>2. Len(posted') <= Len(frames')
    BY <1>3, <1>4, <1>7, <2>1
  <2>3. ASSUME NEW i \in 1..Len(posted) PROVE posted'[i] = Body(i)'
    <3>1. frames'[i] = frames[i]
      BY <1>3, <1>4, <2>1
    <3> QED
      BY <1>7, <2>1, <3>1 DEF Body, BodyOf
  <2> QED
    BY <1>7, <2>2, <2>3 DEF PostedOK
<1>10. headParse => HeadOK'
  <2> SUFFICES ASSUME headParse PROVE HeadOK'
    OBVIOUS
  <2>1. HeadOK
    BY <1>1 DEF OpenOK
  <2>2. Len(head) + 1 \in Nat \ {0}
    BY <1>1 DEF TypeOK
  <2>3. Stream(frames', buffer' \o wire', Current, Len(head) + 1)
    BY <1>3, <1>8, <2>1, <2>2 DEF HeadOK, Pending
  <2> QED
    BY <1>7, <2>1, <2>3 DEF HeadOK
<1>11. ~headParse => BodyOK'
  <2> SUFFICES ASSUME ~headParse PROVE BodyOK'
    OBVIOUS
  <2>1. BodyOK
    BY <1>1 DEF OpenOK
  <2>2. Current <= Len(frames) /\ total = frames[Current]
    BY <2>1 DEF BodyOK
  <2>3. Current' <= Len(frames') /\ total' = frames'[Current']
    BY <1>3, <1>4, <1>7, <2>2
  <2>4. /\ Len(body) < total \/ total = 0
        /\ \A i \in 1..Len(body) : body[i] = Byte(Current, HeaderLength + i)
    BY <2>1 DEF BodyOK
  <2>5. CASE total = 0
    <3>1. Current + 1 \in Nat /\ 1 \in Nat \ {0}
      BY <1>3
    <3>2. Stream(frames', buffer' \o wire', Current + 1, 1)
      BY <1>8, <2>1, <2>5, <3>1 DEF BodyOK, Pending
    <3> QED
      BY <1>7, <2>3, <2>4, <2>5, <3>2 DEF BodyOK
  <2>6. CASE total # 0
    <3>1. HeaderLength + Len(body) + 1 \in Nat \ {0}
      BY <1>1, <1>2 DEF TypeOK
    <3>2. Stream(frames', buffer' \o wire', Current, HeaderLength + Len(body) + 1)
      BY <1>3, <1>8, <2>1, <2>6, <3>1 DEF BodyOK, Pending
    <3> QED
      BY <1>7, <2>3, <2>4, <2>6, <3>2 DEF BodyOK
  <2> QED
    BY <2>5, <2>6
<1>12. Len(posted') # Len(frames')
  BY <1>1, <1>3, <1>4, <1>7 DEF PostedOK
<1> QED
  BY <1>1, <1>7, <1>9, <1>10, <1>11, <1>12 DEF OpenOK

LEMMA ReceiveStep ==
  ASSUME RInv, NEW n \in 1..BufferSize, Receive(n)
  PROVE  PostedOK' /\ OpenOK'
<1>1. TypeOK /\ PostedOK /\ OpenOK
  BY DEF RInv, Receive
<1>2. /\ frames' = frames /\ headParse' = headParse /\ head' = head /\ body' = body
      /\ total' = total /\ posted' = posted /\ state' = "parse" /\ Current' = Current
  BY DEF Receive, Current
<1>3. buffer' \o wire' = buffer \o wire
  <2>1. wire \in Seq(Bytes) /\ buffer = << >> /\ n \in Nat /\ n <= Len(wire)
    BY <1>1 DEF TypeOK, OpenOK, Receive
  <2>2. buffer \o wire = wire
    BY <2>1
  <2>3. SubSeq(wire, 1, n) \o SubSeq(wire, n + 1, Len(wire)) = wire
    BY <2>1
  <2> QED
    BY <2>2, <2>3 DEF Receive
<1>4. PostedOK'
  BY <1>1, <1>2, PostedKept
<1>5. headParse => HeadOK'
  BY <1>1, <1>2, <1>3 DEF OpenOK, HeadOK
<1>6. ~headParse => BodyOK'
  BY <1>1, <1>2, <1>3 DEF OpenOK, BodyOK
<1> QED
  BY <1>1, <1>2, <1>4, <1>5, <1>6 DEF OpenOK

LEMMA AgainStep ==
  ASSUME RInv, ReadAgain
  PROVE  PostedOK' /\ OpenOK'
<1>1. PostedOK /\ OpenOK /\ buffer = << >>
  BY DEF RInv, ReadAgain
<1>2. /\ frames' = frames /\ headParse' = headParse /\ head' = head /\ body' = body
      /\ total' = total /\ posted' = posted /\ buffer' = buffer /\ wire' = wire
      /\ Current' = Current
  BY DEF ReadAgain, Current
<1>3. PostedOK'
  BY <1>1, <1>2, PostedKept
<1>4. headParse => HeadOK'
  BY <1>1, <1>2 DEF OpenOK, HeadOK
<1>5. ~headParse => BodyOK'
  BY <1>1, <1>2 DEF OpenOK, BodyOK
<1> QED
  BY <1>1, <1>2, <1>3, <1>4, <1>5 DEF OpenOK

LEMMA HeadIncompleteStep ==
  ASSUME RInv, HeadIncomplete
  PROVE  PostedOK' /\ OpenOK'
<1> DEFINE n == BytesToCopy(HeaderLength - Len(head))
<1>1. TypeOK /\ PostedOK /\ OpenOK /\ HeadOK /\ buffer # << >> /\ headParse
  BY DEF RInv, HeadIncomplete, OpenOK
<1>2. /\ frames' = frames /\ headParse' = headParse /\ wire' = wire /\ state' = "parse"
      /\ posted' = posted /\ Current' = Current
      /\ head' = head \o Copied(n) /\ buffer' = Left(n) /\ Len(head') # HeaderLength
  BY DEF HeadIncomplete, Current
<1> HIDE DEF n
<1>3. /\ Len(head') \in Nat /\ Len(head') <= HeaderLength
      /\ \A i \in 1..Len(head') : head'[i] = Byte(Current, i)
      /\ IF Len(head') = HeaderLength /\ frames[Current] = 0
         THEN Stream(frames, Left(n) \o wire, Current + 1, 1)
         ELSE Stream(frames, Left(n) \o wire, Current, Len(head') + 1)
  BY <1>1, <1>2, HeadTaken DEF n
<1>4. Len(head') < HeaderLength
  BY <1>2, <1>3, ReaderAssumption
<1>5. HeadOK'
  BY <1>2, <1>3, <1>4 DEF HeadOK
<1>6. PostedOK'
  BY <1>1, <1>2, PostedKept
<1> QED
  BY <1>1, <1>2, <1>5, <1>6 DEF OpenOK

LEMMA HeadCompleteStep ==
  ASSUME RInv, HeadComplete
  PROVE  PostedOK' /\ (state' # "closed" => OpenOK')
<1> DEFINE n == BytesToCopy(HeaderLength - Len(head))
<1>1. TypeOK /\ PostedOK /\ OpenOK /\ HeadOK /\ buffer # << >> /\ state = "parse"
  BY DEF RInv, HeadComplete, OpenOK
<1>2. /\ frames' = frames /\ wire' = wire /\ posted' = posted /\ Current' = Current
      /\ head' = head \o Copied(n) /\ buffer' = Left(n) /\ Len(head') = HeaderLength
  BY DEF HeadComplete, Current
<1>3. PICK len \in Decoded(head') :
        \/ /\ len > MaxLength
           /\ state' = "closed"
           /\ UNCHANGED <<headParse, body, total>>
        \/ /\ len <= MaxLength
           /\ total' = len
           /\ body' = << >>
           /\ headParse' = FALSE
           /\ UNCHANGED state
  BY DEF HeadComplete
<1> HIDE DEF n
<1>4. /\ Current \in 1..Len(frames) /\ head' \in Seq(Bytes)
      /\ \A i \in 1..Len(head') : head'[i] = Byte(Current, i)
      /\ IF Len(head') = HeaderLength /\ frames[Current] = 0
         THEN Stream(frames, Left(n) \o wire, Current + 1, 1)
         ELSE Stream(frames, Left(n) \o wire, Current, Len(head') + 1)
  BY <1>1, <1>2, HeadTaken DEF n
<1>5. len = frames[Current] /\ len \in Nat
  <2>1. frames \in Seq(Nat)
    BY <1>1, PendingType
  <2>2. Decoded(head') = {frames[Current]}
    BY <1>2, <1>4, <2>1, DecodedIs
  <2> QED
    BY <1>4, <2>1, <2>2
<1>6. PostedOK'
  BY <1>1, <1>2, PostedKept
<1>7. ASSUME state' # "closed" PROVE OpenOK'
  <2>1. total' = len /\ body' = << >> /\ headParse' = FALSE /\ state' = "parse"
    BY <1>1, <1>3, <1>7
  <2>2. Current' <= Len(frames') /\ total' = frames'[Current']
    BY <1>2, <1>4, <1>5, <2>1
  <2>3. Len(body') = 0 /\ (HeaderLength + Len(body')) + 1 = HeaderLength + 1
    BY <2>1, ReaderAssumption
  <2>4. Len(body') < total' \/ total' = 0
    BY <1>5, <2>1, <2>3
  <2>5. \A i \in 1..Len(body') : body'[i] = Byte(Current', HeaderLength + i)
    BY <2>3
  <2>6. IF total' = 0
        THEN Stream(frames', buffer' \o wire', Current' + 1, 1)
        ELSE Stream(frames', buffer' \o wire', Current', HeaderLength + Len(body') + 1)
    BY <1>2, <1>4, <1>5, <2>1, <2>3
  <2>7. BodyOK'
    BY <2>2, <2>4, <2>5, <2>6 DEF BodyOK
  <2> QED
    BY <1>1, <1>2, <2>1, <2>7 DEF OpenOK
<1> QED
  BY <1>6, <1>7

LEMMA BodyIncompleteStep ==
  ASSUME RInv, BodyIncomplete
  PROVE  PostedOK' /\ OpenOK'
<1> DEFINE n == BytesToCopy(total - Len(body))
<1>1. TypeOK /\ PostedOK /\ OpenOK /\ BodyOK /\ buffer # << >> /\ ~headParse
  BY DEF RInv, BodyIncomplete, OpenOK
<1>2. /\ frames' = frames /\ headParse' = headParse /\ wire' = wire /\ state' = "parse"
      /\ posted' = posted /\ Current' = Current /\ total' = total
      /\ body' = body \o Copied(n) /\ buffer' = Left(n) /\ Len(body') # total
  BY DEF BodyIncomplete, Current
<1> HIDE DEF n
<1>3. /\ Len(body') \in Nat /\ Len(body') <= total
      /\ \A i \in 1..Len(body') : body'[i] = Byte(Current, HeaderLength + i)
      /\ IF Len(body') = total
         THEN Stream(frames, Left(n) \o wire, Current + 1, 1)
         ELSE Stream(frames, Left(n) \o wire, Current, HeaderLength + Len(body') + 1)
      /\ total = 0 => Len(body') = 0
  BY <1>1, <1>2, BodyTaken DEF n
<1>4. Len(body') < total /\ total # 0
  BY <1>1, <1>2, <1>3 DEF TypeOK
<1>5. BodyOK'
  BY <1>1, <1>2, <1>3, <1>4 DEF BodyOK
<1>6. PostedOK'
  BY <1>1, <1>2, PostedKept
<1> QED
  BY <1>1, <1>2, <1>5, <1>6 DEF OpenOK

(* What is posted is the body of the current frame.                        *)
LEMMA BodyPosted ==
  ASSUME RInv, BodyComplete
  PROVE  /\ Current \in 1..Len(frames) /\ posted' = Append(posted, Body(Current))
         /\ Stream(frames, buffer' \o wire', Current + 1, 1)
         /\ frames[Current] = 0 => Current < Len(frames)
<1> DEFINE n == BytesToCopy(total - Len(body))
<1>1. TypeOK /\ BodyOK /\ buffer # << >>
  BY DEF RInv, BodyComplete, OpenOK
<1>2. /\ wire' = wire /\ posted' = Append(posted, body')
      /\ body' = body \o Copied(n) /\ buffer' = Left(n) /\ Len(body') = total
  BY DEF BodyComplete, AfterPost
<1> HIDE DEF n
<1>3. /\ Current \in 1..Len(frames) /\ frames[Current] = total /\ body' \in Seq(Bytes)
      /\ \A i \in 1..Len(body') : body'[i] = Byte(Current, HeaderLength + i)
      /\ IF Len(body') = total
         THEN Stream(frames, Left(n) \o wire, Current + 1, 1)
         ELSE Stream(frames, Left(n) \o wire, Current, HeaderLength + Len(body') + 1)
      /\ total = 0 => Current < Len(frames)
  BY <1>1, <1>2, BodyTaken DEF n
<1>4. body' = Body(Current)
  <2>1. body' = [i \in 1..total |-> body'[i]]
    BY <1>2, <1>3, SeqIsFunction
  <2> QED
    BY <1>2, <1>3, <2>1 DEF Body, BodyOf
<1> QED
  BY <1>2, <1>3, <1>4

LEMMA BodyCompleteStep ==
  ASSUME RInv, BodyComplete
  PROVE  PostedOK' /\ OpenOK'
<1>1. TypeOK /\ PostedOK
  BY DEF RInv
<1>2. /\ frames' = frames /\ headParse' = TRUE /\ state' = "parse" /\ head' = << >>
  BY DEF BodyComplete, Cleared
<1>3. /\ Current \in 1..Len(frames) /\ posted' = Append(posted, Body(Current))
      /\ Stream(frames, buffer' \o wire', Current + 1, 1)
      /\ frames[Current] = 0 => Current < Len(frames)
  BY BodyPosted
<1>4. /\ Len(frames) \in Nat /\ Len(posted) \in Nat /\ Current = Len(posted) + 1
      /\ posted \in Seq(Seq(Bytes))
  BY <1>1, PendingType DEF TypeOK
<1>5. /\ Len(posted') = Current /\ posted'[Current] = Body(Current)
      /\ \A i \in 1..Len(posted) : posted'[i] = posted[i]
  BY <1>3, <1>4
<1>6. Current' = Current + 1
  BY <1>5 DEF Current
<1>7. PostedOK'
  <2>1. Len(posted') <= Len(frames')
    BY <1>2, <1>3, <1>5
  <2>2. ASSUME NEW i \in 1..Len(posted') PROVE posted'[i] = Body(i)
    <3>1. CASE i \in 1..Len(posted)
      BY <1>1, <1>5, <3>1 DEF PostedOK
    <3>2. CASE i = Current
      BY <1>5, <3>2
    <3> QED
      BY <1>4, <1>5, <3>1, <3>2
  <2>3. \A i : Body(i)' = Body(i)
    BY <1>2 DEF Body, BodyOf
  <2> QED
    BY <2>1, <2>2, <2>3 DEF PostedOK
<1>8. HeadOK'
  <2>1. Len(head') = 0 /\ Len(head') + 1 = 1
    BY <1>2
  <2>2. Len(head') < HeaderLength /\ \A i \in 1..Len(head') : head'[i] = Byte(Current', i)
    BY <2>1, ReaderAssumption
  <2>3. Stream(frames', buffer' \o wire', Current', Len(head') + 1)
    BY <1>2, <1>3, <1>6, <2>1
  <2> QED
    BY <2>2, <2>3 DEF HeadOK
<1>9. Len(posted') = Len(frames') => frames'[Len(frames')] # 0
  BY <1>2, <1>3, <1>4, <1>5
<1> QED
  BY <1>2, <1>7, <1>8, <1>9 DEF OpenOK

LEMMA RStep == RInv /\ [Next]_vars => RInv'
<1> SUFFICES ASSUME RInv, [Next]_vars PROVE RInv'
  OBVIOUS
<1>1. TypeOK'
  BY ReaderStep DEF RInv
<1> SUFFICES PostedOK' /\ (state' # "closed" => OpenOK')
  BY <1>1 DEF RInv
<1>2. CASE UNCHANGED vars
  BY <1>2 DEF vars, RInv, PostedOK, OpenOK, HeadOK, BodyOK, Current, Body, BodyOf
<1>3. ASSUME NEW n \in Lengths, ClientSends(n)
      PROVE  PostedOK' /\ (state' # "closed" => OpenOK')
  BY <1>3, SendsStep
<1>4. ASSUME NEW n \in 1..BufferSize, Receive(n)
      PROVE  PostedOK' /\ (state' # "closed" => OpenOK')
  BY <1>4, ReceiveStep
<1>5. CASE ReadError
  BY <1>5, PostedKept DEF ReadError, RInv
<1>6. CASE HeadIncomplete
  BY <1>6, HeadIncompleteStep
<1>7. CASE HeadComplete
  BY <1>7, HeadCompleteStep
<1>8. CASE BodyIncomplete
  BY <1>8, BodyIncompleteStep
<1>9. CASE BodyComplete
  BY <1>9, BodyCompleteStep
<1>10. CASE ReadAgain
  BY <1>10, AgainStep
<1> QED
  BY <1>2, <1>3, <1>4, <1>5, <1>6, <1>7, <1>8, <1>9, <1>10 DEF Next, Network, HandleRead

-----------------------------------------------------------------------------
(* However the bytes were cut into reads, a session that has had all there *)
(* are and waits for more has given every message to the queue, but for an *)
(* empty one that came last.                                               *)
THEOREM ReaderHoldsNothingBack == Spec => []NothingHeldBack
<1>1. RInv => NothingHeldBack
  <2> SUFFICES ASSUME RInv, state = "read", wire = << >>
               PROVE  Len(posted) = Len(frames) - (IF /\ frames # << >>
                                                      /\ frames[Len(frames)] = 0 THEN 1 ELSE 0)
    BY DEF NothingHeldBack
  <2>1. TypeOK /\ PostedOK /\ OpenOK /\ buffer = << >>
    BY DEF RInv, OpenOK
  <2>2. /\ Len(frames) \in Nat /\ Len(posted) \in Nat /\ Current = Len(posted) + 1
        /\ frames \in Seq(Nat)
    BY <2>1, PendingType
  <2>3. buffer \o wire = << >>
    BY <2>1
  <2>4. ASSUME NEW k, NEW j, Stream(frames, buffer \o wire, k, j)
        PROVE  k = Len(frames) + 1 /\ j = 1
    BY <2>3, <2>4 DEF Stream, StartsAt
  <2>5. CASE headParse
    <3>1. Len(posted) = Len(frames)
      BY <2>1, <2>2, <2>4, <2>5 DEF OpenOK, HeadOK
    <3>2. frames # << >> => frames[Len(frames)] # 0
      BY <2>1, <2>2, <3>1 DEF OpenOK
    <3> QED
      BY <2>2, <3>1, <3>2
  <2>6. CASE ~headParse
    <3>1. BodyOK
      BY <2>1, <2>6 DEF OpenOK
    <3>2. total = 0
      <4> SUFFICES ASSUME total # 0 PROVE FALSE
        OBVIOUS
      <4>1. Current = Len(frames) + 1
        BY <2>4, <3>1 DEF BodyOK
      <4> QED
        BY <2>2, <3>1, <4>1 DEF BodyOK
    <3>3. Current = Len(frames)
      BY <2>2, <2>4, <3>1, <3>2 DEF BodyOK
    <3>4. frames[Len(frames)] = 0
      BY <3>1, <3>2, <3>3 DEF BodyOK
    <3>5. frames # << >>
      BY <2>2, <3>3
    <3> QED
      BY <2>2, <3>3, <3>4, <3>5
  <2> QED
    BY <2>5, <2>6
<1> QED
  BY <1>1, RInit, RStep, PTL DEF Spec

(* The messages that reach the queue are the bodies the client sent,       *)
(* whole, in order and none twice, whatever the reads were.                *)
THEOREM ReaderRefinesMailbox == Spec => RefinesMailbox
<1> DEFINE sent == [k \in 1..Len(frames) |-> Body(k)]
<1>1. Init => Box!Init
  BY DEF Init, Box!Init
<1>2. RInv /\ [Next]_vars => [Box!Next]_<<sent, posted>>
  <2> SUFFICES ASSUME RInv, [Next]_vars PROVE [Box!Next]_<<sent, posted>>
    OBVIOUS
  <2>1. ASSUME frames' = frames PROVE sent' = sent
    BY <2>1 DEF Body, BodyOf
  <2>2. /\ Len(frames) \in Nat /\ Len(posted) \in Nat /\ Current = Len(posted) + 1
        /\ frames \in Seq(Nat)
    BY PendingType DEF RInv
  <2>3. ASSUME NEW n \in Lengths, ClientSends(n) PROVE Box!Next
    <3> DEFINE m == Len(frames) + 1
    <3>1. frames' = Append(frames, n) /\ posted' = posted /\ n \in Nat
      BY <2>3, ReaderAssumption DEF ClientSends, parser
    <3>2. Len(frames') = m /\ frames'[m] = n /\ \A i \in 1..Len(frames) : frames'[i] = frames[i]
      BY <2>2, <3>1
    <3>3. sent \in Seq({Body(k) : k \in 1..Len(frames)}) /\ Len(sent) = Len(frames)
      BY <2>2
    <3>4. sent' = Append(sent, BodyOf(m, n))
      <4>1. sent' = [k \in 1..m |-> BodyOf(k, frames'[k])]
        BY <3>2 DEF Body
      <4>2. \A k \in 1..Len(frames) : k \in 1..m /\ sent[k] = BodyOf(k, frames'[k])
        BY <2>2, <3>2 DEF Body
      <4>3. m \in 1..m
        BY <2>2
      <4> HIDE DEF sent
      <4>4. sent' = [k \in 1..m |-> sent'[k]]
        BY <4>1
      <4>5. \A k \in 1..Len(frames) : sent'[k] = sent[k]
        BY <4>1, <4>2
      <4>6. sent'[m] = BodyOf(m, n)
        BY <3>2, <4>1, <4>3
      <4> QED
        BY <3>3, <4>4, <4>5, <4>6, AppendIs
    <3>5. m \in 1..MaxFrames
      BY <2>2, <2>3, ReaderAssumption DEF ClientSends
    <3>6. BodyOf(m, n) \in {BodyOf(k, l) : k \in 1..MaxFrames, l \in Lengths}
      BY <3>5
    <3>7. Box!Send(BodyOf(m, n))
      BY <3>1, <3>4 DEF Box!Send
    <3> QED
      BY <3>6, <3>7 DEF Box!Next
  <2>4. CASE BodyComplete
    <3>1. frames' = frames
      BY <2>4 DEF BodyComplete
    <3>2. Current \in 1..Len(frames) /\ posted' = Append(posted, Body(Current))
      BY <2>4, BodyPosted
    <3>3. Len(sent) = Len(frames) /\ sent[Len(posted) + 1] = Body(Current)
      BY <2>2, <3>2
    <3>4. Len(posted) < Len(sent)
      BY <2>2, <3>2, <3>3
    <3> QED
      BY <2>1, <3>1, <3>2, <3>3, <3>4 DEF Box!Next, Box!Serve
  <2>5. CASE \/ UNCHANGED vars \/ Network \/ ReadError
             \/ HeadIncomplete \/ HeadComplete \/ BodyIncomplete \/ ReadAgain
    <3>1. frames' = frames /\ posted' = posted
      BY <2>5 DEF vars, Network, Receive, ReadError, HeadIncomplete, HeadComplete,
                  BodyIncomplete, ReadAgain
    <3> QED
      BY <2>1, <3>1
  <2> QED
    BY <2>3, <2>4, <2>5 DEF Next, HandleRead
<1> QED
  BY <1>1, <1>2, RInit, RStep, PTL DEF Spec, RefinesMailbox, Box!Spec

-----------------------------------------------------------------------------
(* What the liveness of the loop rests on, and why it closes a session     *)

(* While the buffer is not empty each run through the loop takes a byte,   *)
(* or posts an empty body and goes on with a header, which takes one.      *)
LoopEnds ==
    [][buffer # << >> /\ HandleRead =>
          \/ Len(buffer') < Len(buffer)
          \/ Len(buffer') = Len(buffer) /\ ~headParse /\ headParse']_vars

LEMMA LeftIsLess ==
  ASSUME buffer \in Seq(Bytes), buffer # << >>, NEW remain \in Nat
  PROVE  /\ Left(BytesToCopy(remain)) \in Seq(Bytes)
         /\ remain # 0 => Len(Left(BytesToCopy(remain))) < Len(buffer)
         /\ remain = 0 => Len(Left(BytesToCopy(remain))) = Len(buffer)
<1> DEFINE n == BytesToCopy(remain)
<1>1. Len(buffer) \in Nat /\ Len(buffer) # 0
  OBVIOUS
<1>2. n \in Nat /\ n <= Len(buffer) /\ (remain # 0 => n # 0) /\ (remain = 0 => n = 0)
  BY <1>1 DEF BytesToCopy, AtMost
<1> HIDE DEF n
<1>3. Left(n) \in Seq(Bytes) /\ Len(Left(n)) = Len(buffer) - n
  BY <1>2, SeqPlaces DEF Left
<1>4. (remain # 0 => Len(Left(n)) < Len(buffer)) /\ (remain = 0 => Len(Left(n)) = Len(buffer))
  BY <1>1, <1>2, <1>3
<1> QED
  BY <1>3, <1>4 DEF n

(* handleRead does not stay in its loop for ever, whatever the lengths     *)
(* are: an empty body that takes no byte is not posted again and again.    *)
THEOREM ReaderLoopEnds == Spec => LoopEnds
<1>1. RInv /\ [Next]_vars =>
         [buffer # << >> /\ HandleRead =>
            \/ Len(buffer') < Len(buffer)
            \/ Len(buffer') = Len(buffer) /\ ~headParse /\ headParse']_vars
  <2> SUFFICES ASSUME RInv, buffer # << >>, HandleRead
               PROVE  \/ Len(buffer') < Len(buffer)
                      \/ Len(buffer') = Len(buffer) /\ ~headParse /\ headParse'
    OBVIOUS
  <2>1. TypeOK /\ buffer \in Seq(Bytes)
    BY DEF RInv, TypeOK
  <2>2. CASE HeadIncomplete \/ HeadComplete
    <3>1. HeadOK /\ buffer' = Left(BytesToCopy(HeaderLength - Len(head)))
      BY <2>2 DEF RInv, OpenOK, HeadIncomplete, HeadComplete
    <3>2. HeaderLength - Len(head) \in Nat /\ HeaderLength - Len(head) # 0
      BY <2>1, <3>1, ReaderAssumption DEF HeadOK, TypeOK
    <3> QED
      BY <2>1, <3>1, <3>2, LeftIsLess
  <2>3. CASE BodyIncomplete \/ BodyComplete
    <3>1. /\ ~headParse /\ buffer' = Left(BytesToCopy(total - Len(body)))
          /\ body' = body \o Copied(BytesToCopy(total - Len(body)))
      BY <2>3 DEF BodyIncomplete, BodyComplete, AfterPost
    <3>2. total - Len(body) \in Nat
      BY <2>1 DEF TypeOK
    <3>3. CASE total - Len(body) # 0
      BY <2>1, <3>1, <3>2, <3>3, LeftIsLess
    <3>4. CASE total - Len(body) = 0
      <4>1. Len(buffer') = Len(buffer)
        BY <2>1, <3>1, <3>2, <3>4, LeftIsLess
      <4>2. Len(body) = total
        BY <2>1, <3>4 DEF TypeOK
      <4>3. BytesToCopy(total - Len(body)) = 0
        BY <2>1, <3>4 DEF BytesToCopy, AtMost
      <4>4. Len(body') = total
        <5>1. Copied(0) \in Seq(Bytes) /\ Len(Copied(0)) = 0
          BY <2>1, CopiedAndLeft
        <5>2. body \in Seq(Bytes) /\ Len(body) \in Nat
          BY <2>1 DEF TypeOK
        <5>3. Len(body') = Len(body) + 0
          BY <3>1, <4>3, <5>1, <5>2, ConcatType
        <5> QED
          BY <4>2, <5>2, <5>3
      <4>5. BodyComplete
        BY <2>3, <4>4 DEF BodyIncomplete
      <4> QED
        BY <3>1, <4>1, <4>5 DEF BodyComplete
    <3> QED
      BY <3>3, <3>4
  <2>4. CASE ReadAgain
    BY <2>4 DEF ReadAgain
  <2> QED
    BY <2>2, <2>3, <2>4 DEF HandleRead
<1> QED
  BY <1>1, RInit, RStep, PTL DEF Spec, LoopEnds

(* The reader closes a session for the length of a body only if the body   *)
(* the client sent is too long: it never takes other bytes for a length.   *)
OnlyLongBodiesClose ==
    [][HandleRead /\ state' = "closed" => frames[Current] > MaxLength]_vars

(* CSession::handleRead closes for the length of a body that was sent.     *)
THEOREM ReaderClosesForLength == Spec => OnlyLongBodiesClose
<1>1. RInv /\ [Next]_vars =>
         [HandleRead /\ state' = "closed" => frames[Current] > MaxLength]_vars
  <2> SUFFICES ASSUME RInv, HandleRead, state' = "closed"
               PROVE  frames[Current] > MaxLength
    OBVIOUS
  <2>1. HeadComplete
    BY DEF HandleRead, HeadIncomplete, BodyIncomplete, BodyComplete, ReadAgain
  <2>2. TypeOK /\ HeadOK /\ buffer # << >> /\ state = "parse"
    BY <2>1 DEF RInv, OpenOK, HeadComplete
  <2>3. /\ head' = head \o Copied(BytesToCopy(HeaderLength - Len(head)))
        /\ Len(head') = HeaderLength
    BY <2>1 DEF HeadComplete
  <2>4. /\ Current \in 1..Len(frames) /\ head' \in Seq(Bytes)
        /\ \A i \in 1..Len(head') : head'[i] = Byte(Current, i)
    BY <2>2, <2>3, HeadTaken
  <2>5. Decoded(head') = {frames[Current]}
    BY <2>2, <2>3, <2>4, PendingType, DecodedIs
  <2>6. PICK len \in Decoded(head') : len > MaxLength \/ state' = state
    BY <2>1 DEF HeadComplete
  <2> QED
    BY <2>2, <2>5, <2>6
<1> QED
  BY <1>1, RInit, RStep, PTL DEF Spec, OnlyLongBodiesClose
=============================================================================
