------------------------- MODULE MessageCodecProofs -------------------------
(***************************************************************************)
(* Theorems about MessageCodec, for texts and payloads of every length:    *)
(* what either side sends is what the other reads, only what a binary      *)
(* frame cannot carry is refused, and every frame is read as some message  *)
(* or as none.                                                             *)
(***************************************************************************)
EXTENDS MessageCodec, SequenceTheorems, TLAPS

-----------------------------------------------------------------------------
(***************************************************************************)
(* Texts and bytes                                                         *)
(***************************************************************************)
(* A text is made of bytes, and a size that fits is one.                   *)
LEMMA TextIsBytes ==
  /\ Text \subseteq Seq(Byte)
  /\ \A t \in Text : IsText(t) /\ Len(t) \in Nat
  /\ \A t \in Text : Fits(t) => Len(t) \in Byte
<1> USE MaxByteAssumption
<1>1. 0..(MaxByte - 1) \subseteq Byte
  BY DEF Byte
<1>2. Text \subseteq Seq(Byte)
  BY <1>1, SeqMonotonic DEF Text
<1>3. ASSUME NEW t \in Text PROVE IsText(t) /\ Len(t) \in Nat
  <2>1. Len(t) \in Nat
    BY LenProperties DEF Text
  <2>2. \A i \in 1..Len(t) : t[i] \in 0..(MaxByte - 1)
    BY ElementOfSeq DEF Text
  <2> QED BY <2>1, <2>2 DEF IsText
<1> QED BY <1>2, <1>3 DEF Fits, Byte

(* Bytes that are UTF-8 are a text.                                        *)
LEMMA BytesOfText ==
  ASSUME NEW s \in Seq(Byte), IsText(s)
  PROVE  s \in Text
<1> USE MaxByteAssumption
<1>1. Len(s) \in Nat /\ s \in [1..Len(s) -> Byte]
  BY LenProperties
<1>2. s \in [1..Len(s) -> 0..(MaxByte - 1)]
  BY <1>1 DEF IsText, Byte
<1> QED BY <1>1, <1>2, SeqDef DEF Text

(* The front of a concatenation, and what it leaves.                       *)
LEMMA Front ==
  ASSUME NEW s \in Seq(Byte), NEW t \in Seq(Byte)
  PROVE  /\ s \o t \in Seq(Byte)
         /\ Len(s) \in Nat /\ Len(t) \in Nat
         /\ Len(s \o t) = Len(s) + Len(t)
         /\ SubSeq(s \o t, 1, Len(s)) = s
         /\ SubSeq(s \o t, Len(s) + 1, Len(s \o t)) = t
<1> DEFINE b == s \o t
<1>1. Len(s) \in Nat /\ Len(t) \in Nat
  BY LenProperties
<1>2. /\ b \in Seq(Byte) /\ Len(b) = Len(s) + Len(t)
      /\ \A i \in 1..(Len(s) + Len(t)) : b[i] = IF i <= Len(s) THEN s[i] ELSE t[i - Len(s)]
  BY ConcatProperties
<1> HIDE DEF b
<1>3. \A i \in 1..Len(b) : b[i] \in Byte
  BY <1>2, ElementOfSeq
<1>4. SubSeq(b, 1, Len(s)) = s
  <2> DEFINE f == SubSeq(b, 1, Len(s))
  <2>1. /\ f \in Seq(Byte) /\ Len(f) = Len(s)
        /\ \A i \in 1..Len(s) : f[i] = b[i]
    BY <1>1, <1>2, <1>3, SubSeqProperties
  <2>2. \A i \in 1..Len(f) : f[i] = s[i]
    BY <1>1, <1>2, <2>1
  <2> HIDE DEF f
  <2>3. f = s
    BY <2>1, <2>2, SeqEqual
  <2> QED BY <2>3 DEF f
<1>5. SubSeq(b, Len(s) + 1, Len(b)) = t
  <2> DEFINE f == SubSeq(b, Len(s) + 1, Len(b))
  <2>1. /\ f \in Seq(Byte) /\ Len(f) = Len(t)
        /\ \A i \in 1..Len(t) : f[i] = b[Len(s) + i]
    BY <1>1, <1>2, <1>3, SubSeqProperties
  <2>2. ASSUME NEW i \in 1..Len(f) PROVE f[i] = t[i]
    <3>1. /\ i \in Nat /\ Len(s) + i \in 1..(Len(s) + Len(t)) /\ ~(Len(s) + i <= Len(s))
          /\ (Len(s) + i) - Len(s) = i
      BY <1>1, <2>1
    <3>2. f[i] = b[Len(s) + i]
      BY <2>1
    <3>3. b[Len(s) + i] = t[(Len(s) + i) - Len(s)]
      BY <1>2, <3>1
    <3> QED BY <3>1, <3>2, <3>3
  <2> HIDE DEF f
  <2>3. f = t
    BY <2>1, <2>2, SeqEqual
  <2> QED BY <2>3 DEF f
<1> QED BY <1>1, <1>2, <1>4, <1>5 DEF b

(* What stands between a front and the rest.                               *)
LEMMA Middle ==
  ASSUME NEW a \in Seq(Byte), NEW s \in Seq(Byte), NEW t \in Seq(Byte)
  PROVE  SubSeq(a \o (s \o t), Len(a) + 1, Len(a) + Len(s)) = s
<1> DEFINE b == a \o (s \o t)
           f == SubSeq(b, Len(a) + 1, Len(a) + Len(s))
<1>1. Len(a) \in Nat /\ Len(s) \in Nat /\ Len(t) \in Nat
  BY LenProperties
<1>2. /\ s \o t \in Seq(Byte) /\ Len(s \o t) = Len(s) + Len(t)
      /\ \A i \in 1..Len(s) : (s \o t)[i] = s[i]
  BY <1>1, ConcatProperties
<1>3. /\ b \in Seq(Byte) /\ Len(b) = Len(a) + (Len(s) + Len(t))
      /\ \A i \in 1..(Len(a) + Len(s \o t)) :
           b[i] = IF i <= Len(a) THEN a[i] ELSE (s \o t)[i - Len(a)]
  BY <1>1, <1>2, ConcatProperties
<1> HIDE DEF b
<1>4. \A i \in 1..Len(b) : b[i] \in Byte
  BY <1>3, ElementOfSeq
<1>5. /\ f \in Seq(Byte) /\ Len(f) = Len(s)
      /\ \A i \in 1..Len(s) : f[i] = b[Len(a) + i]
  BY <1>1, <1>3, <1>4, SubSeqProperties
<1>6. ASSUME NEW i \in 1..Len(f) PROVE f[i] = s[i]
  <2>1. /\ i \in 1..Len(s) /\ Len(a) + i \in 1..(Len(a) + Len(s \o t))
        /\ ~(Len(a) + i <= Len(a)) /\ (Len(a) + i) - Len(a) = i
    BY <1>1, <1>2, <1>5
  <2>2. f[i] = b[Len(a) + i]
    BY <1>5, <2>1
  <2>3. b[Len(a) + i] = (s \o t)[(Len(a) + i) - Len(a)]
    BY <1>3, <2>1
  <2> QED BY <1>2, <2>1, <2>2, <2>3
<1> HIDE DEF f
<1>7. f = s
  BY <1>5, <1>6, SeqEqual
<1> QED BY <1>7 DEF f, b

(* A front that grows by what comes after it.                              *)
LEMMA Grown ==
  ASSUME NEW a \in Seq(Byte), NEW s \in Seq(Byte), NEW t \in Seq(Byte)
  PROVE  /\ a \o s \in Seq(Byte) /\ Len(a \o s) = Len(a) + Len(s)
         /\ a \o (s \o t) = (a \o s) \o t
<1>1. a \o (s \o t) = (a \o s) \o t
  BY ConcatAssociative
<1> QED BY <1>1, Front

(* take gets the text in front, and leaves what follows it.                *)
LEMMA TextTaken ==
  ASSUME NEW s \in Text, NEW t \in Seq(Byte), NEW g
  PROVE  TakeText([ok |-> TRUE, left |-> s \o t, got |-> g], Len(s))
           = [ok |-> TRUE, left |-> t, got |-> Append(g, s)]
<1>1. s \in Seq(Byte) /\ IsText(s)
  BY TextIsBytes
<1>2. /\ Len(s) \in Nat /\ Len(t) \in Nat /\ Len(s \o t) = Len(s) + Len(t)
      /\ SubSeq(s \o t, 1, Len(s)) = s
      /\ SubSeq(s \o t, Len(s) + 1, Len(s \o t)) = t
  BY <1>1, Front
<1> DEFINE rd == [ok |-> TRUE, left |-> s \o t, got |-> g]
<1>3. rd.ok = TRUE /\ rd.left = s \o t /\ rd.got = g
  OBVIOUS
<1>4. Len(s) <= Len(s) + Len(t) /\ ~(Len(s) > Len(s \o t))
  BY <1>2
<1> HIDE DEF rd
<1>5. TakeText(rd, Len(s)) = [ok |-> IsText(s), left |-> t, got |-> Append(g, s)]
  BY <1>2, <1>3, <1>4, Zenon DEF TakeText
<1>6. IsText(s) = TRUE
  BY <1>1, Zenon DEF IsText
<1>7. TakeText(rd, Len(s)) = [ok |-> TRUE, left |-> t, got |-> Append(g, s)]
  BY <1>5, <1>6, Zenon
<1> QED BY <1>7 DEF rd

-----------------------------------------------------------------------------
(***************************************************************************)
(* What is sent, and what the server reads                                 *)
(***************************************************************************)
(* The fields of a message.                                                *)
LEMMA MessageFields ==
  ASSUME NEW Status, NEW m \in Messages(Status)
  PROVE  /\ m.kind \in {"control", "broadcast", "reply", "push"}
         /\ m.event \in Text /\ m.payload \in Payload
         /\ m.kind # "control" => m.topic \in Text
         /\ m.kind \in {"reply", "push"} => m.join_reference \in Text
         /\ m.kind \in {"control", "push"} => m.reference \in Optional
         /\ m.kind = "reply" => m.reference \in Text /\ m.status \in Status
         /\ m.kind = "control" => m = Control(m.event, m.payload, m.reference)
         /\ m.kind = "broadcast" => m = Broadcast(m.topic, m.event, m.payload)
         /\ m.kind = "push" =>
              m = Push(m.join_reference, m.reference, m.topic, m.event, m.payload)
         /\ m.kind = "reply" /\ m.event = PhxReply =>
              m = Reply(m.join_reference, m.reference, m.topic, m.status, m.payload)
BY DEF Messages, Control, Broadcast, Push, Reply

(* A frame of the client: bytes, in which the server finds the texts and   *)
(* the payload where they are.                                             *)
LEMMA ServerReadsFrame ==
  ASSUME NEW jr \in Text, NEW ref \in Text, NEW topic \in Text, NEW event \in Text,
         NEW bytes \in Seq(Byte),
         Fits(jr), Fits(ref), Fits(topic), Fits(event)
  PROVE  /\ FrameOf(jr, ref, topic, event, bytes) \in Seq(Byte)
         /\ ServerReadsBinary(FrameOf(jr, ref, topic, event, bytes))
              = <<jr, ref, topic, event, bytes>>
<1> DEFINE h == <<0, Len(jr), Len(ref), Len(topic), Len(event)>>
           r1 == event \o bytes
           r2 == topic \o r1
           r3 == ref \o r2
           r4 == jr \o r3
           b  == h \o r4
<1>0. b = FrameOf(jr, ref, topic, event, bytes)
  BY Zenon DEF FrameOf
<1>1. /\ h \in Seq(Byte) /\ Len(h) = 5
      /\ h[2] = Len(jr) /\ h[3] = Len(ref) /\ h[4] = Len(topic) /\ h[5] = Len(event)
  <2>1. /\ Len(jr) \in Byte /\ Len(ref) \in Byte /\ Len(topic) \in Byte /\ Len(event) \in Byte
        /\ 0 \in Byte
    BY TextIsBytes, MaxByteAssumption DEF Byte
  <2> QED BY <2>1
<1> HIDE DEF h
<1>2. /\ jr \in Seq(Byte) /\ ref \in Seq(Byte) /\ topic \in Seq(Byte) /\ event \in Seq(Byte)
      /\ Len(jr) \in Nat /\ Len(ref) \in Nat /\ Len(topic) \in Nat /\ Len(event) \in Nat
      /\ Len(bytes) \in Nat
  BY TextIsBytes, LenProperties
<1>3. r1 \in Seq(Byte)
  BY <1>2, Front
<1> HIDE DEF r1
<1>4. r2 \in Seq(Byte)
  BY <1>2, <1>3, Front
<1> HIDE DEF r2
<1>5. r3 \in Seq(Byte)
  BY <1>2, <1>4, Front
<1> HIDE DEF r3
<1>6. r4 \in Seq(Byte) /\ Len(r4) \in Nat
  BY <1>2, <1>5, Front
<1> HIDE DEF r4
<1>7. /\ b \in Seq(Byte)
      /\ b[2] = Len(jr) /\ b[3] = Len(ref) /\ b[4] = Len(topic) /\ b[5] = Len(event)
  <2>1. h \in Seq(Byte) /\ r4 \in Seq(Byte)
    BY <1>1, <1>6
  <2>2. b \in Seq(Byte)
    BY <2>1, Front
  <2>3. \A i \in 1..(Len(h) + Len(r4)) : b[i] = IF i <= Len(h) THEN h[i] ELSE r4[i - Len(h)]
    BY <2>1, ConcatProperties
  <2> HIDE DEF b
  <2>4. ASSUME NEW i \in 1..5 PROVE b[i] = h[i]
    <3>1. Len(h) = 5 /\ Len(r4) \in Nat
      BY <1>1, <1>6
    <3>2. i \in 1..(Len(h) + Len(r4)) /\ i <= Len(h)
      BY <3>1
    <3> QED BY <2>3, <3>2, Zenon
  <2> QED BY <1>1, <2>2, <2>4
<1>8. SubSeq(b, 6, 5 + Len(jr)) = jr
  <2>1. h \in Seq(Byte) /\ Len(h) = 5
    BY <1>1
  <2>2. SubSeq(h \o (jr \o r3), 5 + 1, 5 + Len(jr)) = jr
    BY <1>2, <1>5, <2>1, Middle
  <2>3. 5 + 1 = 6
    OBVIOUS
  <2> QED BY <2>2, <2>3, Zenon DEF r4
<1> DEFINE h1 == h \o jr
           h2 == h1 \o ref
           h3 == h2 \o topic
           h4 == h3 \o event
<1>9. h1 \in Seq(Byte) /\ Len(h1) = 5 + Len(jr) /\ b = h1 \o r3
  <2>1. h \in Seq(Byte) /\ Len(h) = 5
    BY <1>1
  <2> QED BY <1>2, <1>5, <2>1, Grown DEF r4
<1> HIDE DEF h1, b
<1>10. h2 \in Seq(Byte) /\ Len(h2) = 5 + Len(jr) + Len(ref) /\ b = h2 \o r2
  BY <1>2, <1>4, <1>9, Grown DEF r3
<1> HIDE DEF h2
<1>11. h3 \in Seq(Byte) /\ Len(h3) = 5 + Len(jr) + Len(ref) + Len(topic) /\ b = h3 \o r1
  BY <1>2, <1>3, <1>10, Grown DEF r2
<1> HIDE DEF h3
<1>12. /\ h4 \in Seq(Byte) /\ Len(h4) = 5 + Len(jr) + Len(ref) + Len(topic) + Len(event)
       /\ b = h4 \o bytes
  BY <1>2, <1>11, Grown DEF r1
<1> HIDE DEF h4
<1>13. SubSeq(b, 5 + Len(jr) + 1, 5 + Len(jr) + Len(ref)) = ref
  BY <1>2, <1>4, <1>9, Middle DEF r3
<1>14. SubSeq(b, 5 + Len(jr) + Len(ref) + 1, 5 + Len(jr) + Len(ref) + Len(topic)) = topic
  BY <1>2, <1>3, <1>10, Middle DEF r2
<1>15. SubSeq(b, 5 + Len(jr) + Len(ref) + Len(topic) + 1,
                 5 + Len(jr) + Len(ref) + Len(topic) + Len(event)) = event
  BY <1>2, <1>11, Middle DEF r1
<1>16. SubSeq(b, 5 + Len(jr) + Len(ref) + Len(topic) + Len(event) + 1, Len(b)) = bytes
  BY <1>12, Front
<1>17. ServerReadsBinary(b) = <<jr, ref, topic, event, bytes>>
  BY <1>7, <1>8, <1>13, <1>14, <1>15, <1>16, Zenon DEF ServerReadsBinary
<1> QED BY <1>0, <1>7, <1>17

(* encode gives a frame, or refuses a message with a text no binary frame  *)
(* can carry; the server reads the frame as what was sent.                 *)
LEMMA Encoded ==
  ASSUME NEW m \in Message
  PROVE  /\ Encode(m) \in Frame \cup {Refused}
         /\ Encode(m) # Refused => ServerReads(Encode(m)) = AsServer(m)
         /\ Encode(m) = Refused =>
              \E t \in {OrEmpty(JoinRefOf(m)), OrEmpty(RefOf(m)), TopicOf(m), m.event} :
                Len(t) > MaxByte
<1>1. /\ m.event \in Text /\ TopicOf(m) \in Text
      /\ JoinRefOf(m) \in Optional /\ RefOf(m) \in Optional
      /\ m.payload \in Payload
  BY MessageFields, NameAssumption DEF Message, TopicOf, JoinRefOf, RefOf, Optional
<1>2. CASE m.payload.type = "binary"
  <2> DEFINE jr == OrEmpty(JoinRefOf(m))
             ref == OrEmpty(RefOf(m))
             topic == TopicOf(m)
  <2>1. jr \in Text /\ ref \in Text
    <3>1. <<>> \in Text
      BY EmptySeq DEF Text
    <3> QED BY <1>1, <3>1 DEF OrEmpty, Optional
  <2>2. topic \in Text /\ m.event \in Text /\ m.payload.bytes \in Seq(Byte)
    BY <1>1, <1>2 DEF Payload
  <2>3. Encode(m) = IF Fits(jr) /\ Fits(ref) /\ Fits(topic) /\ Fits(m.event)
                    THEN Binary(FrameOf(jr, ref, topic, m.event, m.payload.bytes)) ELSE Refused
    BY <1>2, Zenon DEF Encode, EncodeBinary
  <2>4. AsServer(m) = <<jr, ref, topic, m.event, m.payload.bytes>>
    BY <1>2, Zenon DEF AsServer
  <2> HIDE DEF jr, ref, topic
  <2>5. CASE Fits(jr) /\ Fits(ref) /\ Fits(topic) /\ Fits(m.event)
    <3> DEFINE b == FrameOf(jr, ref, topic, m.event, m.payload.bytes)
    <3>1. b \in Seq(Byte) /\ ServerReadsBinary(b) = AsServer(m)
      BY <2>1, <2>2, <2>4, <2>5, ServerReadsFrame
    <3>2. Encode(m) = Binary(b)
      BY <2>3, <2>5
    <3> HIDE DEF b
    <3>3. Binary(b) \in Frame /\ Binary(b) # Refused /\ ServerReads(Binary(b)) = AsServer(m)
      BY <3>1 DEF Binary, Frame, Refused, ServerReads
    <3> QED BY <3>2, <3>3
  <2>6. CASE ~(Fits(jr) /\ Fits(ref) /\ Fits(topic) /\ Fits(m.event))
    <3>1. Encode(m) = Refused
      BY <2>3, <2>6
    <3>2. \E t \in {jr, ref, topic, m.event} : Len(t) > MaxByte
      <4>1. /\ Len(jr) \in Nat /\ Len(ref) \in Nat /\ Len(topic) \in Nat /\ Len(m.event) \in Nat
            /\ MaxByte \in Nat
        BY <2>1, <2>2, TextIsBytes, MaxByteAssumption
      <4> QED BY <2>6, <4>1 DEF Fits
    <3> QED BY <3>1, <3>2 DEF jr, ref, topic
  <2> QED BY <2>5, <2>6
<1>3. CASE m.payload.type # "binary"
  <2> DEFINE f == <<OrNull(JoinRefOf(m)), OrNull(RefOf(m)), String(TopicOf(m)), String(m.event),
                    m.payload.value>>
  <2>1. Encode(m) = [type |-> "text", fields |-> f]
    BY <1>3, Zenon DEF Encode, EncodeJson
  <2>2. AsServer(m) = f
    BY <1>3, Zenon DEF AsServer
  <2>3. f \in Seq(Field)
    <3>1. /\ OrNull(JoinRefOf(m)) \in Field /\ OrNull(RefOf(m)) \in Field
          /\ String(TopicOf(m)) \in Field /\ String(m.event) \in Field
      BY <1>1 DEF OrNull, Optional, Field, String
    <3>2. m.payload.value \in Field
      BY <1>1, <1>3 DEF Payload
    <3> QED BY <3>1, <3>2
  <2> HIDE DEF f
  <2>4. /\ [type |-> "text", fields |-> f] \in Frame
        /\ [type |-> "text", fields |-> f] # Refused
        /\ ServerReads([type |-> "text", fields |-> f]) = f
    BY <2>3 DEF Frame, Refused, ServerReads
  <2> QED BY <2>1, <2>2, <2>4
<1> QED BY <1>2, <1>3

-----------------------------------------------------------------------------
(***************************************************************************)
(* How the client reads a binary frame                                     *)
(***************************************************************************)
Reader == [ok : BOOLEAN, left : Seq(Byte), got : Seq(Seq(Byte))]

(* The sizes of a frame, and the reader past them.                         *)
LEMMA SizesTaken ==
  ASSUME NEW h \in Seq(Byte), NEW t \in Seq(Byte), NEW n \in Nat, Len(h) = n + 1
  PROVE  /\ Start(h \o t, n) = [ok |-> TRUE, left |-> t, got |-> <<>>]
         /\ \A i \in 1..Len(h) : (h \o t)[i] = h[i]
         /\ h \o t # <<>>
<1>1. /\ Len(h \o t) = Len(h) + Len(t) /\ Len(t) \in Nat
      /\ SubSeq(h \o t, Len(h) + 1, Len(h \o t)) = t
  BY Front
<1>2. ~(Len(h \o t) <= n) /\ n + 2 = Len(h) + 1
  BY <1>1
<1>3. Start(h \o t, n) = [ok |-> TRUE, left |-> t, got |-> <<>>]
  BY <1>1, <1>2, Zenon DEF Start
<1>4. ASSUME NEW i \in 1..Len(h) PROVE (h \o t)[i] = h[i]
  <2>1. \A j \in 1..(Len(h) + Len(t)) : (h \o t)[j] = IF j <= Len(h) THEN h[j] ELSE t[j - Len(h)]
    BY ConcatProperties
  <2>2. i \in 1..(Len(h) + Len(t)) /\ i <= Len(h)
    BY <1>1
  <2> QED BY <2>1, <2>2, Zenon
<1>5. h \o t # <<>>
  BY <1>1, EmptySeq
<1> QED BY <1>3, <1>4, <1>5

(* The texts got so far.                                                   *)
LEMMA Got2 ==
  ASSUME NEW s1 \in Text, NEW s2 \in Text
  PROVE  Append(<<s1>>, s2) = <<s1, s2>>
<1>1. <<s1>> \in Seq(Text) /\ Len(<<s1>>) = 1
  OBVIOUS
<1>2. <<s1, s2>> \in Seq(Text) /\ Len(<<s1, s2>>) = 2
  OBVIOUS
<1>3. /\ Append(<<s1>>, s2) \in Seq(Text) /\ Len(Append(<<s1>>, s2)) = 2
      /\ Append(<<s1>>, s2)[1] = s1
      /\ Append(<<s1>>, s2)[2] = s2
  BY <1>1, AppendProperties
<1>4. \A i \in 1..2 : Append(<<s1>>, s2)[i] = <<s1, s2>>[i]
  BY <1>3
<1> QED BY <1>2, <1>3, <1>4, SeqEqual

(* With three texts.                                                       *)
LEMMA Got3 ==
  ASSUME NEW s1 \in Text, NEW s2 \in Text, NEW s3 \in Text
  PROVE  Append(<<s1, s2>>, s3) = <<s1, s2, s3>>
<1>1. <<s1, s2>> \in Seq(Text) /\ Len(<<s1, s2>>) = 2
  OBVIOUS
<1>2. <<s1, s2, s3>> \in Seq(Text) /\ Len(<<s1, s2, s3>>) = 3
  OBVIOUS
<1>3. /\ Append(<<s1, s2>>, s3) \in Seq(Text) /\ Len(Append(<<s1, s2>>, s3)) = 3
      /\ Append(<<s1, s2>>, s3)[1] = s1
      /\ Append(<<s1, s2>>, s3)[2] = s2
      /\ Append(<<s1, s2>>, s3)[3] = s3
  BY <1>1, AppendProperties
<1>4. \A i \in 1..3 : Append(<<s1, s2>>, s3)[i] = <<s1, s2, s3>>[i]
  BY <1>3
<1> QED BY <1>2, <1>3, <1>4, SeqEqual

(* With four.                                                              *)
LEMMA Got4 ==
  ASSUME NEW s1 \in Text, NEW s2 \in Text, NEW s3 \in Text, NEW s4 \in Text
  PROVE  Append(<<s1, s2, s3>>, s4) = <<s1, s2, s3, s4>>
<1>1. <<s1, s2, s3>> \in Seq(Text) /\ Len(<<s1, s2, s3>>) = 3
  OBVIOUS
<1>2. <<s1, s2, s3, s4>> \in Seq(Text) /\ Len(<<s1, s2, s3, s4>>) = 4
  OBVIOUS
<1>3. /\ Append(<<s1, s2, s3>>, s4) \in Seq(Text) /\ Len(Append(<<s1, s2, s3>>, s4)) = 4
      /\ Append(<<s1, s2, s3>>, s4)[1] = s1
      /\ Append(<<s1, s2, s3>>, s4)[2] = s2
      /\ Append(<<s1, s2, s3>>, s4)[3] = s3
      /\ Append(<<s1, s2, s3>>, s4)[4] = s4
  BY <1>1, AppendProperties
<1>4. \A i \in 1..4 : Append(<<s1, s2, s3>>, s4)[i] = <<s1, s2, s3, s4>>[i]
  BY <1>3
<1> QED BY <1>2, <1>3, <1>4, SeqEqual

(* The texts of a frame are taken one after the other.                     *)
LEMMA Taken2 ==
  ASSUME NEW h \in Seq(Byte), Len(h) = 3,
         NEW s1 \in Text, NEW s2 \in Text, NEW t \in Seq(Byte),
         h[2] = Len(s1), h[3] = Len(s2)
  PROVE  After2(h \o (s1 \o (s2 \o t)), 2)
           = [ok |-> TRUE, left |-> t, got |-> <<s1, s2>>]
<1> DEFINE r1 == s2 \o t
           r0 == s1 \o r1
           b == h \o r0
<1>1. r1 \in Seq(Byte)
  BY TextIsBytes, Front
<1> HIDE DEF r1
<1>2. r0 \in Seq(Byte)
  BY <1>1, TextIsBytes, Front
<1>3. /\ Start(b, 2) = [ok |-> TRUE, left |-> r0, got |-> <<>>]
      /\ b[2] = Len(s1) /\ b[3] = Len(s2)
  <2>1. {2, 3} \subseteq 1..Len(h) /\ 2 \in Nat /\ Len(h) = 2 + 1
    OBVIOUS
  <2> HIDE DEF r0
  <2> QED BY <1>2, <2>1, SizesTaken
<1> HIDE DEF b
<1>4. After1(b, 2) = [ok |-> TRUE, left |-> r1, got |-> <<s1>>]
  <2>1. TakeText([ok |-> TRUE, left |-> r0, got |-> <<>>], Len(s1))
          = [ok |-> TRUE, left |-> r1, got |-> Append(<<>>, s1)]
    BY <1>1, TextTaken DEF r0
  <2>2. Append(<<>>, s1) = <<s1>>
    OBVIOUS
  <2> QED BY <1>3, <2>1, <2>2, Zenon DEF After1
<1>5. After2(b, 2) = [ok |-> TRUE, left |-> t, got |-> <<s1, s2>>]
  <2>1. TakeText([ok |-> TRUE, left |-> r1, got |-> <<s1>>], Len(s2))
          = [ok |-> TRUE, left |-> t, got |-> Append(<<s1>>, s2)]
    BY TextTaken DEF r1
  <2>2. Append(<<s1>>, s2) = <<s1, s2>>
    BY Got2
  <2> QED BY <1>4, <1>3, <2>1, <2>2, Zenon DEF After2
<1> QED BY <1>5 DEF b, r0, r1

(* The same, of three texts.                                               *)
LEMMA Taken3 ==
  ASSUME NEW h \in Seq(Byte), Len(h) = 4,
         NEW s1 \in Text, NEW s2 \in Text, NEW s3 \in Text, NEW t \in Seq(Byte),
         h[2] = Len(s1), h[3] = Len(s2), h[4] = Len(s3)
  PROVE  After3(h \o (s1 \o (s2 \o (s3 \o t))), 3)
           = [ok |-> TRUE, left |-> t, got |-> <<s1, s2, s3>>]
<1> DEFINE r2 == s3 \o t
           r1 == s2 \o r2
           r0 == s1 \o r1
           b == h \o r0
<1>1. r2 \in Seq(Byte)
  BY TextIsBytes, Front
<1> HIDE DEF r2
<1>2. r1 \in Seq(Byte)
  BY <1>1, TextIsBytes, Front
<1> HIDE DEF r1
<1>3. r0 \in Seq(Byte)
  BY <1>2, TextIsBytes, Front
<1>4. /\ Start(b, 3) = [ok |-> TRUE, left |-> r0, got |-> <<>>]
      /\ b[2] = Len(s1) /\ b[3] = Len(s2) /\ b[4] = Len(s3)
  <2>1. {2, 3, 4} \subseteq 1..Len(h) /\ 3 \in Nat /\ Len(h) = 3 + 1
    OBVIOUS
  <2> HIDE DEF r0
  <2> QED BY <1>3, <2>1, SizesTaken
<1> HIDE DEF b
<1>5. After1(b, 3) = [ok |-> TRUE, left |-> r1, got |-> <<s1>>]
  <2>1. TakeText([ok |-> TRUE, left |-> r0, got |-> <<>>], Len(s1))
          = [ok |-> TRUE, left |-> r1, got |-> Append(<<>>, s1)]
    BY <1>2, TextTaken DEF r0
  <2>2. Append(<<>>, s1) = <<s1>>
    OBVIOUS
  <2> QED BY <1>4, <2>1, <2>2, Zenon DEF After1
<1>6. After2(b, 3) = [ok |-> TRUE, left |-> r2, got |-> <<s1, s2>>]
  <2>1. TakeText([ok |-> TRUE, left |-> r1, got |-> <<s1>>], Len(s2))
          = [ok |-> TRUE, left |-> r2, got |-> Append(<<s1>>, s2)]
    BY <1>1, TextTaken DEF r1
  <2>2. Append(<<s1>>, s2) = <<s1, s2>>
    BY Got2
  <2> QED BY <1>5, <1>4, <2>1, <2>2, Zenon DEF After2
<1>7. After3(b, 3) = [ok |-> TRUE, left |-> t, got |-> <<s1, s2, s3>>]
  <2>1. TakeText([ok |-> TRUE, left |-> r2, got |-> <<s1, s2>>], Len(s3))
          = [ok |-> TRUE, left |-> t, got |-> Append(<<s1, s2>>, s3)]
    BY TextTaken DEF r2
  <2>2. Append(<<s1, s2>>, s3) = <<s1, s2, s3>>
    BY Got3
  <2> QED BY <1>6, <1>4, <2>1, <2>2, Zenon DEF After3
<1> QED BY <1>7 DEF b, r0, r1, r2

(* The same, of four.                                                      *)
LEMMA Taken4 ==
  ASSUME NEW h \in Seq(Byte), Len(h) = 5,
         NEW s1 \in Text, NEW s2 \in Text, NEW s3 \in Text, NEW s4 \in Text, NEW t \in Seq(Byte),
         h[2] = Len(s1), h[3] = Len(s2), h[4] = Len(s3), h[5] = Len(s4)
  PROVE  After4(h \o (s1 \o (s2 \o (s3 \o (s4 \o t)))), 4)
           = [ok |-> TRUE, left |-> t, got |-> <<s1, s2, s3, s4>>]
<1> DEFINE r3 == s4 \o t
           r2 == s3 \o r3
           r1 == s2 \o r2
           r0 == s1 \o r1
           b == h \o r0
<1>1. r3 \in Seq(Byte)
  BY TextIsBytes, Front
<1> HIDE DEF r3
<1>2. r2 \in Seq(Byte)
  BY <1>1, TextIsBytes, Front
<1> HIDE DEF r2
<1>3. r1 \in Seq(Byte)
  BY <1>2, TextIsBytes, Front
<1> HIDE DEF r1
<1>4. r0 \in Seq(Byte)
  BY <1>3, TextIsBytes, Front
<1>5. /\ Start(b, 4) = [ok |-> TRUE, left |-> r0, got |-> <<>>]
      /\ b[2] = Len(s1) /\ b[3] = Len(s2) /\ b[4] = Len(s3) /\ b[5] = Len(s4)
  <2>1. {2, 3, 4, 5} \subseteq 1..Len(h) /\ 4 \in Nat /\ Len(h) = 4 + 1
    OBVIOUS
  <2> HIDE DEF r0
  <2> QED BY <1>4, <2>1, SizesTaken
<1> HIDE DEF b
<1>6. After1(b, 4) = [ok |-> TRUE, left |-> r1, got |-> <<s1>>]
  <2>1. TakeText([ok |-> TRUE, left |-> r0, got |-> <<>>], Len(s1))
          = [ok |-> TRUE, left |-> r1, got |-> Append(<<>>, s1)]
    BY <1>3, TextTaken DEF r0
  <2>2. Append(<<>>, s1) = <<s1>>
    OBVIOUS
  <2> QED BY <1>5, <2>1, <2>2, Zenon DEF After1
<1>7. After2(b, 4) = [ok |-> TRUE, left |-> r2, got |-> <<s1, s2>>]
  <2>1. TakeText([ok |-> TRUE, left |-> r1, got |-> <<s1>>], Len(s2))
          = [ok |-> TRUE, left |-> r2, got |-> Append(<<s1>>, s2)]
    BY <1>2, TextTaken DEF r1
  <2>2. Append(<<s1>>, s2) = <<s1, s2>>
    BY Got2
  <2> QED BY <1>6, <1>5, <2>1, <2>2, Zenon DEF After2
<1>8. After3(b, 4) = [ok |-> TRUE, left |-> r3, got |-> <<s1, s2, s3>>]
  <2>1. TakeText([ok |-> TRUE, left |-> r2, got |-> <<s1, s2>>], Len(s3))
          = [ok |-> TRUE, left |-> r3, got |-> Append(<<s1, s2>>, s3)]
    BY <1>1, TextTaken DEF r2
  <2>2. Append(<<s1, s2>>, s3) = <<s1, s2, s3>>
    BY Got3
  <2> QED BY <1>7, <1>5, <2>1, <2>2, Zenon DEF After3
<1>9. After4(b, 4) = [ok |-> TRUE, left |-> t, got |-> <<s1, s2, s3, s4>>]
  <2>1. TakeText([ok |-> TRUE, left |-> r3, got |-> <<s1, s2, s3>>], Len(s4))
          = [ok |-> TRUE, left |-> t, got |-> Append(<<s1, s2, s3>>, s4)]
    BY TextTaken DEF r3
  <2>2. Append(<<s1, s2, s3>>, s4) = <<s1, s2, s3, s4>>
    BY Got4
  <2> QED BY <1>8, <1>5, <2>1, <2>2, Zenon DEF After4
<1> QED BY <1>9 DEF b, r0, r1, r2, r3

-----------------------------------------------------------------------------
(***************************************************************************)
(* What the server sends, and what the client reads                        *)
(***************************************************************************)
(* A binary frame of the server is made of bytes and read as what it is.   *)
LEMMA PushRead ==
  ASSUME NEW jr \in Text, NEW topic \in Text, NEW event \in Text, NEW bytes \in Seq(Byte),
         Fits(jr), Fits(topic), Fits(event)
  PROVE  LET b == <<0, Len(jr), Len(topic), Len(event)>> \o (jr \o (topic \o (event \o bytes)))
         IN  b \in Seq(Byte) /\ DecodeBinary(b) = Push(jr, None, topic, event, Binary(bytes))
<1> DEFINE h == <<0, Len(jr), Len(topic), Len(event)>>
           r == jr \o (topic \o (event \o bytes))
           b == h \o r
<1>1. r \in Seq(Byte)
  <2>1. event \o bytes \in Seq(Byte)
    BY TextIsBytes, Front
  <2>2. topic \o (event \o bytes) \in Seq(Byte)
    BY <2>1, TextIsBytes, Front
  <2> QED BY <2>2, TextIsBytes, Front
<1>2. /\ h \in Seq(Byte) /\ Len(h) = 4 /\ 1 \in 1..Len(h)
      /\ h[1] = 0 /\ h[2] = Len(jr) /\ h[3] = Len(topic) /\ h[4] = Len(event)
  <2>1. /\ Len(jr) \in Byte /\ Len(topic) \in Byte /\ Len(event) \in Byte
        /\ 0 \in Byte
    BY TextIsBytes, MaxByteAssumption DEF Byte
  <2> QED BY <2>1
<1> HIDE DEF h
<1>3. After3(b, 3) = [ok |-> TRUE, left |-> bytes, got |-> <<jr, topic, event>>]
  BY <1>2, Taken3
<1> HIDE DEF r
<1>4. b \in Seq(Byte) /\ b # <<>> /\ b[1] = 0
  <2>1. 3 \in Nat /\ Len(h) = 3 + 1
    BY <1>2
  <2> QED BY <1>1, <1>2, <2>1, Front, SizesTaken
<1> HIDE DEF b
<1>5. DecodeBinary(b) = DecodePush(After3(b, 3))
  BY <1>4 DEF DecodeBinary
<1>6. DecodeBinary(b) = Push(jr, None, topic, event, Binary(bytes))
  BY <1>3, <1>5 DEF DecodePush
<1> QED BY <1>4, <1>6 DEF b, h, r

(* The bytes of a reply.                                                   *)
ReplyBytes(jr, ref, topic, status, bytes) ==
  <<1, Len(jr), Len(ref), Len(topic), Len(status)>>
  \o (jr \o (ref \o (topic \o (status \o bytes))))


(* A reply is read as it was written, but for the name of its status.      *)
LEMMA ReplyRead ==
  ASSUME NEW jr \in Text, NEW ref \in Text, NEW topic \in Text, NEW status \in Text,
         NEW bytes \in Seq(Byte),
         Fits(jr), Fits(ref), Fits(topic), Fits(status)
  PROVE  /\ ReplyBytes(jr, ref, topic, status, bytes) \in Seq(Byte)
         /\ DecodeBinary(ReplyBytes(jr, ref, topic, status, bytes))
              = Reply(jr, ref, topic, StatusOf(status), Binary(bytes))
<1> DEFINE h == <<1, Len(jr), Len(ref), Len(topic), Len(status)>>
           r == jr \o (ref \o (topic \o (status \o bytes)))
           b == h \o r
<1>1. r \in Seq(Byte)
  <2>1. status \o bytes \in Seq(Byte)
    BY TextIsBytes, Front
  <2>2. topic \o (status \o bytes) \in Seq(Byte)
    BY <2>1, TextIsBytes, Front
  <2>3. ref \o (topic \o (status \o bytes)) \in Seq(Byte)
    BY <2>2, TextIsBytes, Front
  <2> QED BY <2>3, TextIsBytes, Front
<1>2. /\ h \in Seq(Byte) /\ Len(h) = 5 /\ 1 \in 1..Len(h)
      /\ h[1] = 1 /\ h[2] = Len(jr) /\ h[3] = Len(ref) /\ h[4] = Len(topic) /\ h[5] = Len(status)
  <2>1. /\ Len(jr) \in Byte /\ Len(ref) \in Byte /\ Len(topic) \in Byte /\ Len(status) \in Byte
        /\ 1 \in Byte
    BY TextIsBytes, MaxByteAssumption DEF Byte
  <2> QED BY <2>1
<1> HIDE DEF h
<1>3. After4(b, 4) = [ok |-> TRUE, left |-> bytes, got |-> <<jr, ref, topic, status>>]
  BY <1>2, Taken4
<1> HIDE DEF r
<1>4. b \in Seq(Byte) /\ b # <<>> /\ b[1] = 1
  <2>1. 4 \in Nat /\ Len(h) = 4 + 1
    BY <1>2
  <2> QED BY <1>1, <1>2, <2>1, Front, SizesTaken
<1> HIDE DEF b
<1>5. DecodeBinary(b) = DecodeReply(After4(b, 4))
  BY <1>4 DEF DecodeBinary
<1>6. DecodeBinary(b) = Reply(jr, ref, topic, StatusOf(status), Binary(bytes))
  BY <1>3, <1>5 DEF DecodeReply
<1>7. ReplyBytes(jr, ref, topic, status, bytes) = b
  BY Zenon DEF ReplyBytes, b, h, r
<1> QED BY <1>4, <1>6, <1>7

(* A broadcast is read as it was written.                                  *)
LEMMA BroadcastRead ==
  ASSUME NEW topic \in Text, NEW event \in Text, NEW bytes \in Seq(Byte),
         Fits(topic), Fits(event)
  PROVE  LET b == <<2, Len(topic), Len(event)>> \o (topic \o (event \o bytes))
         IN  b \in Seq(Byte) /\ DecodeBinary(b) = Broadcast(topic, event, Binary(bytes))
<1> DEFINE h == <<2, Len(topic), Len(event)>>
           r == topic \o (event \o bytes)
           b == h \o r
<1>1. r \in Seq(Byte)
  <2>1. event \o bytes \in Seq(Byte)
    BY TextIsBytes, Front
  <2> QED BY <2>1, TextIsBytes, Front
<1>2. /\ h \in Seq(Byte) /\ Len(h) = 3 /\ 1 \in 1..Len(h)
      /\ h[1] = 2 /\ h[2] = Len(topic) /\ h[3] = Len(event)
  <2>1. /\ Len(topic) \in Byte /\ Len(event) \in Byte /\ 2 \in Byte
    BY TextIsBytes, MaxByteAssumption DEF Byte
  <2> QED BY <2>1
<1> HIDE DEF h
<1>3. After2(b, 2) = [ok |-> TRUE, left |-> bytes, got |-> <<topic, event>>]
  BY <1>2, Taken2
<1> HIDE DEF r
<1>4. b \in Seq(Byte) /\ b # <<>> /\ b[1] = 2
  <2>1. 2 \in Nat /\ Len(h) = 2 + 1
    BY <1>2
  <2> QED BY <1>1, <1>2, <2>1, Front, SizesTaken
<1> HIDE DEF b
<1>5. DecodeBinary(b) = DecodeBroadcast(After2(b, 2))
  BY <1>4 DEF DecodeBinary
<1>6. DecodeBinary(b) = Broadcast(topic, event, Binary(bytes))
  BY <1>3, <1>5 DEF DecodeBroadcast
<1> QED BY <1>4, <1>6 DEF b, h, r

-----------------------------------------------------------------------------
(***************************************************************************)
(* What has been read was there                                            *)
(***************************************************************************)
LEMMA StartInverse ==
  ASSUME NEW b \in Seq(Byte), NEW n \in Nat
  PROVE  /\ Start(b, n) \in Reader
         /\ Start(b, n).ok => /\ Len(b) > n /\ Start(b, n).got = <<>>
                              /\ b = SubSeq(b, 1, n + 1) \o Start(b, n).left
<1>1. Len(b) \in Nat /\ \A i \in 1..Len(b) : b[i] \in Byte
  BY LenProperties, ElementOfSeq
<1>2. <<>> \in Seq(Seq(Byte))
  BY EmptySeq
<1>3. CASE Len(b) <= n
  <2>1. Start(b, n) = [ok |-> FALSE, left |-> b, got |-> <<>>]
    BY <1>3 DEF Start
  <2> QED BY <1>2, <2>1 DEF Reader
<1>4. CASE ~(Len(b) <= n)
  <2> DEFINE t == SubSeq(b, n + 2, Len(b))
  <2>1. Start(b, n) = [ok |-> TRUE, left |-> t, got |-> <<>>]
    BY <1>4 DEF Start
  <2>2. t \in Seq(Byte)
    BY <1>1, SubSeqProperties
  <2>3. b = SubSeq(b, 1, n + 1) \o t
    <3>1. 1 \in 1..(Len(b) + 1) /\ n + 1 \in (1 - 1)..Len(b) /\ Len(b) \in (n + 1)..Len(b)
      BY <1>1, <1>4
    <3>2. SubSeq(b, 1, n + 1) \o SubSeq(b, (n + 1) + 1, Len(b)) = SubSeq(b, 1, Len(b))
      BY <3>1, ConcatAdjacentSubSeq
    <3>3. SubSeq(b, 1, Len(b)) = b
      BY SubSeqFull
    <3>4. (n + 1) + 1 = n + 2
      OBVIOUS
    <3> QED BY <3>2, <3>3, <3>4, Zenon
  <2>4. Len(b) > n
    BY <1>1, <1>4
  <2> HIDE DEF t
  <2> QED BY <1>2, <2>1, <2>2, <2>3, <2>4 DEF Reader
<1> QED BY <1>3, <1>4

(* What take leaves and gets, put together, is what it was given.          *)
LEMMA TakeInverse ==
  ASSUME NEW rd \in Reader, NEW n, rd.ok => n \in Nat
  PROVE  /\ TakeText(rd, n) \in Reader
         /\ TakeText(rd, n).ok =>
              /\ rd.ok
              /\ \E s \in Text : /\ Len(s) = n /\ rd.left = s \o TakeText(rd, n).left
                               /\ TakeText(rd, n).got = Append(rd.got, s)
<1> DEFINE l == rd.left
           s == SubSeq(l, 1, n)
           t == SubSeq(l, n + 1, Len(l))
<1>1. /\ l \in Seq(Byte) /\ Len(l) \in Nat /\ rd.got \in Seq(Seq(Byte)) /\ rd.ok \in BOOLEAN
      /\ \A i \in 1..Len(l) : l[i] \in Byte
  BY LenProperties, ElementOfSeq DEF Reader
<1>2. CASE ~rd.ok \/ n > Len(l)
  <2>1. TakeText(rd, n) = [rd EXCEPT !.ok = FALSE]
    BY <1>2, Zenon DEF TakeText
  <2>2. [rd EXCEPT !.ok = FALSE] \in Reader /\ ~[rd EXCEPT !.ok = FALSE].ok
    BY DEF Reader
  <2> QED BY <2>1, <2>2
<1>3. CASE rd.ok /\ ~(n > Len(l))
  <2> DEFINE k == IsText(s)
             g == Append(rd.got, s)
  <2>1. TakeText(rd, n) = [ok |-> k, left |-> t, got |-> g]
    BY <1>3, Zenon DEF TakeText
  <2>2. k \in BOOLEAN
    BY Zenon DEF IsText
  <2>3. n \in Nat /\ n <= Len(l)
    BY <1>1, <1>3
  <2>4. s \in Seq(Byte) /\ Len(s) = n /\ t \in Seq(Byte)
    BY <1>1, <2>3, SubSeqProperties
  <2>5. l = s \o t
    <3>1. 1 \in 1..(Len(l) + 1) /\ n \in (1 - 1)..Len(l) /\ Len(l) \in n..Len(l)
      BY <1>1, <2>3
    <3>2. s \o t = SubSeq(l, 1, Len(l))
      BY <1>1, <3>1, ConcatAdjacentSubSeq
    <3>3. SubSeq(l, 1, Len(l)) = l
      BY <1>1, SubSeqFull
    <3> QED BY <3>2, <3>3
  <2>6. k => s \in Text
    BY <2>4, BytesOfText
  <2>7. g \in Seq(Seq(Byte))
    BY <1>1, <2>4, AppendProperties
  <2> HIDE DEF s, t, k, g
  <2> DEFINE nx == [ok |-> k, left |-> t, got |-> g]
  <2>8. nx \in Reader
    BY <2>2, <2>4, <2>7 DEF Reader
  <2>9. nx.left = t /\ nx.got = g /\ (nx.ok => k)
    BY <2>2
  <2> HIDE DEF nx
  <2>10. nx.ok => /\ rd.ok
                 /\ \E x \in Text : /\ Len(x) = n /\ rd.left = x \o nx.left
                                  /\ nx.got = Append(rd.got, x)
    BY <1>3, <2>4, <2>5, <2>6, <2>9, Zenon DEF g, l
  <2>11. TakeText(rd, n) = nx
    BY <2>1 DEF nx
  <2> QED BY <2>8, <2>10, <2>11, Zenon
<1> QED BY <1>2, <1>3

(* The frame b is its type and n sizes, the texts rd has got, of these     *)
(* sizes, and what rd has left.                                            *)
Begins1(b, n, rd) ==
  \E s1 \in Text :
    /\ rd.got = <<s1>>
    /\ Len(s1) = b[2]
    /\ b = SubSeq(b, 1, n + 1) \o (s1 \o rd.left)

(* After one text: it and what is left make up the frame.                  *)
LEMMA Inverse1 ==
  ASSUME NEW b \in Seq(Byte), NEW n \in Nat, n >= 1
  PROVE  /\ After1(b, n) \in Reader
         /\ After1(b, n).ok => Len(b) > n /\ Begins1(b, n, After1(b, n))
<1> DEFINE rd == Start(b, n)
<1>1. After1(b, n) = TakeText(rd, b[2])
  BY Zenon DEF After1
<1>2. /\ rd \in Reader
      /\ rd.ok => /\ Len(b) > n /\ rd.got = <<>> /\ b = SubSeq(b, 1, n + 1) \o rd.left
  BY StartInverse
<1> HIDE DEF rd
<1>3. rd.ok => b[2] \in Nat
  <2> SUFFICES ASSUME rd.ok PROVE b[2] \in Nat
    OBVIOUS
  <2>1. 2 \in 1..Len(b)
    BY <1>2, LenProperties
  <2>2. Byte \subseteq Nat
    BY MaxByteAssumption DEF Byte
  <2> QED BY <2>1, <2>2, ElementOfSeq
<1> DEFINE nx == TakeText(rd, b[2])
<1>4. /\ nx \in Reader
      /\ nx.ok => /\ rd.ok
                 /\ \E s \in Text : /\ Len(s) = b[2] /\ rd.left = s \o nx.left
                                  /\ nx.got = Append(rd.got, s)
  BY <1>2, <1>3, TakeInverse
<1> HIDE DEF nx
<1>5. ASSUME nx.ok PROVE Len(b) > n /\ Begins1(b, n, nx)
  <2>1. rd.ok
    BY <1>4, <1>5
  <2>2. PICK s1 \in Text : /\ Len(s1) = b[2] /\ rd.left = s1 \o nx.left
                         /\ nx.got = Append(rd.got, s1)
    BY <1>4, <1>5
  <2>3. nx.got = <<s1>>
    <3>1. Append(<<>>, s1) = <<s1>>
      OBVIOUS
    <3> QED BY <1>2, <2>1, <2>2, <3>1, Zenon
  <2> QED BY <1>2, <2>1, <2>2, <2>3 DEF Begins1
<1>6. After1(b, n) = nx
  BY <1>1 DEF nx
<1> HIDE DEF nx
<1> QED BY <1>4, <1>5, <1>6

Begins2(b, n, rd) ==
  \E s1, s2 \in Text :
    /\ rd.got = <<s1, s2>>
    /\ Len(s1) = b[2] /\ Len(s2) = b[3]
    /\ b = SubSeq(b, 1, n + 1) \o (s1 \o (s2 \o rd.left))

(* After two.                                                              *)
LEMMA Inverse2 ==
  ASSUME NEW b \in Seq(Byte), NEW n \in Nat, n >= 2
  PROVE  /\ After2(b, n) \in Reader
         /\ After2(b, n).ok => Len(b) > n /\ Begins2(b, n, After2(b, n))
<1> DEFINE rd == After1(b, n)
<1>1. After2(b, n) = TakeText(rd, b[3])
  BY Zenon DEF After2
<1>2. /\ rd \in Reader
      /\ rd.ok => Len(b) > n /\ Begins1(b, n, rd)
  <2>1. n >= 1
    OBVIOUS
  <2> QED BY <2>1, Inverse1
<1> HIDE DEF rd
<1>3. rd.ok => b[3] \in Nat
  <2> SUFFICES ASSUME rd.ok PROVE b[3] \in Nat
    OBVIOUS
  <2>1. 3 \in 1..Len(b)
    BY <1>2, LenProperties
  <2>2. Byte \subseteq Nat
    BY MaxByteAssumption DEF Byte
  <2> QED BY <2>1, <2>2, ElementOfSeq
<1> DEFINE nx == TakeText(rd, b[3])
<1>4. /\ nx \in Reader
      /\ nx.ok => /\ rd.ok
                 /\ \E s \in Text : /\ Len(s) = b[3] /\ rd.left = s \o nx.left
                                  /\ nx.got = Append(rd.got, s)
  BY <1>2, <1>3, TakeInverse
<1> HIDE DEF nx
<1>5. ASSUME nx.ok PROVE Len(b) > n /\ Begins2(b, n, nx)
  <2>1. rd.ok
    BY <1>4, <1>5
  <2>2. PICK s2 \in Text : /\ Len(s2) = b[3] /\ rd.left = s2 \o nx.left
                         /\ nx.got = Append(rd.got, s2)
    BY <1>4, <1>5
  <2>3. PICK s1 \in Text :
           /\ rd.got = <<s1>>
           /\ Len(s1) = b[2]
           /\ b = SubSeq(b, 1, n + 1) \o (s1 \o rd.left)
    BY <1>2, <2>1 DEF Begins1
  <2>4. nx.got = <<s1, s2>>
    BY <2>2, <2>3, Got2
  <2>5. b = SubSeq(b, 1, n + 1) \o (s1 \o (s2 \o nx.left))
    BY <2>2, <2>3, Zenon
  <2>6. /\ Len(s1) = b[2] /\ Len(s2) = b[3]
    BY <2>2, <2>3
  <2>7. Len(b) > n
    BY <1>2, <2>1
  <2> QED BY <2>4, <2>5, <2>6, <2>7 DEF Begins2
<1>6. After2(b, n) = nx
  BY <1>1 DEF nx
<1> HIDE DEF nx
<1> QED BY <1>4, <1>5, <1>6

Begins3(b, n, rd) ==
  \E s1, s2, s3 \in Text :
    /\ rd.got = <<s1, s2, s3>>
    /\ Len(s1) = b[2] /\ Len(s2) = b[3] /\ Len(s3) = b[4]
    /\ b = SubSeq(b, 1, n + 1) \o (s1 \o (s2 \o (s3 \o rd.left)))

(* After three.                                                            *)
LEMMA Inverse3 ==
  ASSUME NEW b \in Seq(Byte), NEW n \in Nat, n >= 3
  PROVE  /\ After3(b, n) \in Reader
         /\ After3(b, n).ok => Len(b) > n /\ Begins3(b, n, After3(b, n))
<1> DEFINE rd == After2(b, n)
<1>1. After3(b, n) = TakeText(rd, b[4])
  BY Zenon DEF After3
<1>2. /\ rd \in Reader
      /\ rd.ok => Len(b) > n /\ Begins2(b, n, rd)
  <2>1. n >= 2
    OBVIOUS
  <2> QED BY <2>1, Inverse2
<1> HIDE DEF rd
<1>3. rd.ok => b[4] \in Nat
  <2> SUFFICES ASSUME rd.ok PROVE b[4] \in Nat
    OBVIOUS
  <2>1. 4 \in 1..Len(b)
    BY <1>2, LenProperties
  <2>2. Byte \subseteq Nat
    BY MaxByteAssumption DEF Byte
  <2> QED BY <2>1, <2>2, ElementOfSeq
<1> DEFINE nx == TakeText(rd, b[4])
<1>4. /\ nx \in Reader
      /\ nx.ok => /\ rd.ok
                 /\ \E s \in Text : /\ Len(s) = b[4] /\ rd.left = s \o nx.left
                                  /\ nx.got = Append(rd.got, s)
  BY <1>2, <1>3, TakeInverse
<1> HIDE DEF nx
<1>5. ASSUME nx.ok PROVE Len(b) > n /\ Begins3(b, n, nx)
  <2>1. rd.ok
    BY <1>4, <1>5
  <2>2. PICK s3 \in Text : /\ Len(s3) = b[4] /\ rd.left = s3 \o nx.left
                         /\ nx.got = Append(rd.got, s3)
    BY <1>4, <1>5
  <2>3. PICK s1, s2 \in Text :
           /\ rd.got = <<s1, s2>>
           /\ Len(s1) = b[2] /\ Len(s2) = b[3]
           /\ b = SubSeq(b, 1, n + 1) \o (s1 \o (s2 \o rd.left))
    BY <1>2, <2>1 DEF Begins2
  <2>4. nx.got = <<s1, s2, s3>>
    BY <2>2, <2>3, Got3
  <2>5. b = SubSeq(b, 1, n + 1) \o (s1 \o (s2 \o (s3 \o nx.left)))
    BY <2>2, <2>3, Zenon
  <2>6. /\ Len(s1) = b[2] /\ Len(s2) = b[3] /\ Len(s3) = b[4]
    BY <2>2, <2>3
  <2>7. Len(b) > n
    BY <1>2, <2>1
  <2> QED BY <2>4, <2>5, <2>6, <2>7 DEF Begins3
<1>6. After3(b, n) = nx
  BY <1>1 DEF nx
<1> HIDE DEF nx
<1> QED BY <1>4, <1>5, <1>6

Begins4(b, n, rd) ==
  \E s1, s2, s3, s4 \in Text :
    /\ rd.got = <<s1, s2, s3, s4>>
    /\ Len(s1) = b[2] /\ Len(s2) = b[3] /\ Len(s3) = b[4] /\ Len(s4) = b[5]
    /\ b = SubSeq(b, 1, n + 1) \o (s1 \o (s2 \o (s3 \o (s4 \o rd.left))))

(* After four.                                                             *)
LEMMA Inverse4 ==
  ASSUME NEW b \in Seq(Byte), NEW n \in Nat, n >= 4
  PROVE  /\ After4(b, n) \in Reader
         /\ After4(b, n).ok => Len(b) > n /\ Begins4(b, n, After4(b, n))
<1> DEFINE rd == After3(b, n)
<1>1. After4(b, n) = TakeText(rd, b[5])
  BY Zenon DEF After4
<1>2. /\ rd \in Reader
      /\ rd.ok => Len(b) > n /\ Begins3(b, n, rd)
  <2>1. n >= 3
    OBVIOUS
  <2> QED BY <2>1, Inverse3
<1> HIDE DEF rd
<1>3. rd.ok => b[5] \in Nat
  <2> SUFFICES ASSUME rd.ok PROVE b[5] \in Nat
    OBVIOUS
  <2>1. 5 \in 1..Len(b)
    BY <1>2, LenProperties
  <2>2. Byte \subseteq Nat
    BY MaxByteAssumption DEF Byte
  <2> QED BY <2>1, <2>2, ElementOfSeq
<1> DEFINE nx == TakeText(rd, b[5])
<1>4. /\ nx \in Reader
      /\ nx.ok => /\ rd.ok
                 /\ \E s \in Text : /\ Len(s) = b[5] /\ rd.left = s \o nx.left
                                  /\ nx.got = Append(rd.got, s)
  BY <1>2, <1>3, TakeInverse
<1> HIDE DEF nx
<1>5. ASSUME nx.ok PROVE Len(b) > n /\ Begins4(b, n, nx)
  <2>1. rd.ok
    BY <1>4, <1>5
  <2>2. PICK s4 \in Text : /\ Len(s4) = b[5] /\ rd.left = s4 \o nx.left
                         /\ nx.got = Append(rd.got, s4)
    BY <1>4, <1>5
  <2>3. PICK s1, s2, s3 \in Text :
           /\ rd.got = <<s1, s2, s3>>
           /\ Len(s1) = b[2] /\ Len(s2) = b[3] /\ Len(s3) = b[4]
           /\ b = SubSeq(b, 1, n + 1) \o (s1 \o (s2 \o (s3 \o rd.left)))
    BY <1>2, <2>1 DEF Begins3
  <2>4. nx.got = <<s1, s2, s3, s4>>
    BY <2>2, <2>3, Got4
  <2>5. b = SubSeq(b, 1, n + 1) \o (s1 \o (s2 \o (s3 \o (s4 \o nx.left))))
    BY <2>2, <2>3, Zenon
  <2>6. /\ Len(s1) = b[2] /\ Len(s2) = b[3] /\ Len(s3) = b[4] /\ Len(s4) = b[5]
    BY <2>2, <2>3
  <2>7. Len(b) > n
    BY <1>2, <2>1
  <2> QED BY <2>4, <2>5, <2>6, <2>7 DEF Begins4
<1>6. After4(b, n) = nx
  BY <1>1 DEF nx
<1> HIDE DEF nx
<1> QED BY <1>4, <1>5, <1>6

-----------------------------------------------------------------------------
(***************************************************************************)
(* Any binary frame                                                        *)
(***************************************************************************)
(* The type and the sizes of a frame.                                      *)
LEMMA FirstBytes ==
  ASSUME NEW b \in Seq(Byte)
  PROVE  /\ Len(b) > 2 => SubSeq(b, 1, 2 + 1) = <<b[1], b[2], b[3]>>
         /\ Len(b) > 3 => SubSeq(b, 1, 3 + 1) = <<b[1], b[2], b[3], b[4]>>
         /\ Len(b) > 4 => SubSeq(b, 1, 4 + 1) = <<b[1], b[2], b[3], b[4], b[5]>>
<1>1. Len(b) \in Nat /\ \A i \in 1..Len(b) : b[i] \in Byte
  BY LenProperties, ElementOfSeq
<1>2. ASSUME NEW n \in Nat, Len(b) > n
      PROVE  /\ SubSeq(b, 1, n + 1) \in Seq(Byte) /\ Len(SubSeq(b, 1, n + 1)) = n + 1
             /\ \A i \in 1..(n + 1) : SubSeq(b, 1, n + 1)[i] = b[i]
  BY <1>1, <1>2, SubSeqProperties
<1>3. ASSUME Len(b) > 2 PROVE SubSeq(b, 1, 2 + 1) = <<b[1], b[2], b[3]>>
  <2> DEFINE s == SubSeq(b, 1, 2 + 1)
             h == <<b[1], b[2], b[3]>>
  <2>1. h \in Seq(Byte) /\ Len(h) = 3 /\ \A i \in 1..3 : h[i] = b[i]
    BY <1>1, <1>3
  <2>2. s \in Seq(Byte) /\ Len(s) = 3 /\ \A i \in 1..3 : s[i] = b[i]
    BY <1>2, <1>3
  <2> HIDE DEF s, h
  <2>3. s = h
    BY <2>1, <2>2, SeqEqual
  <2> QED BY <2>3 DEF s, h
<1>4. ASSUME Len(b) > 3 PROVE SubSeq(b, 1, 3 + 1) = <<b[1], b[2], b[3], b[4]>>
  <2> DEFINE s == SubSeq(b, 1, 3 + 1)
             h == <<b[1], b[2], b[3], b[4]>>
  <2>1. h \in Seq(Byte) /\ Len(h) = 4 /\ \A i \in 1..4 : h[i] = b[i]
    BY <1>1, <1>4
  <2>2. s \in Seq(Byte) /\ Len(s) = 4 /\ \A i \in 1..4 : s[i] = b[i]
    <3>1. 3 \in Nat /\ 3 + 1 = 4
      OBVIOUS
    <3>2. /\ SubSeq(b, 1, 3 + 1) \in Seq(Byte) /\ Len(SubSeq(b, 1, 3 + 1)) = 3 + 1
          /\ \A i \in 1..(3 + 1) : SubSeq(b, 1, 3 + 1)[i] = b[i]
      BY <1>2, <1>4, <3>1, Zenon
    <3> QED BY <3>1, <3>2, Zenon
  <2> HIDE DEF s, h
  <2>3. s = h
    <3>1. Len(s) = Len(h) /\ \A i \in 1..Len(s) : s[i] = h[i]
      BY <2>1, <2>2, Zenon
    <3> QED BY <2>1, <2>2, <3>1, SeqEqual
  <2> QED BY <2>3 DEF s, h
<1>5. ASSUME Len(b) > 4 PROVE SubSeq(b, 1, 4 + 1) = <<b[1], b[2], b[3], b[4], b[5]>>
  <2> DEFINE s == SubSeq(b, 1, 4 + 1)
             h == <<b[1], b[2], b[3], b[4], b[5]>>
  <2>1. h \in Seq(Byte) /\ Len(h) = 5 /\ \A i \in 1..5 : h[i] = b[i]
    BY <1>1, <1>5
  <2>2. s \in Seq(Byte) /\ Len(s) = 5 /\ \A i \in 1..5 : s[i] = b[i]
    <3>1. 4 \in Nat /\ 4 + 1 = 5
      OBVIOUS
    <3>2. /\ SubSeq(b, 1, 4 + 1) \in Seq(Byte) /\ Len(SubSeq(b, 1, 4 + 1)) = 4 + 1
          /\ \A i \in 1..(4 + 1) : SubSeq(b, 1, 4 + 1)[i] = b[i]
      BY <1>2, <1>5, <3>1, Zenon
    <3> QED BY <3>1, <3>2, Zenon
  <2> HIDE DEF s, h
  <2>3. s = h
    <3>1. Len(s) = Len(h) /\ \A i \in 1..Len(s) : s[i] = h[i]
      BY <2>1, <2>2, Zenon
    <3> QED BY <2>1, <2>2, <3>1, SeqEqual
  <2> QED BY <2>3 DEF s, h
<1> QED BY <1>3, <1>4, <1>5

(* Messages of texts and of a payload of bytes.                            *)
LEMMA BinaryMessages ==
  ASSUME NEW s1 \in Text, NEW s2 \in Text, NEW s3 \in Text, NEW s4 \in {"ok", "error"},
         NEW bytes \in Seq(Byte)
  PROVE  /\ Push(s1, None, s2, s3, Binary(bytes)) \in Message
         /\ Broadcast(s1, s2, Binary(bytes)) \in Message
         /\ Reply(s1, s2, s3, s4, Binary(bytes)) \in Message
         /\ Binary(bytes).type = "binary" /\ Binary(bytes).bytes = bytes
<1>1. Binary(bytes) \in Payload /\ None \in Optional /\ PhxReply \in Text
  BY NameAssumption DEF Binary, Payload, Optional
<1>2. Binary(bytes).type = "binary" /\ Binary(bytes).bytes = bytes
  BY DEF Binary
<1>3. Push(s1, None, s2, s3, Binary(bytes)) \in Message
  BY <1>1 DEF Push, Message, Messages
<1>4. Broadcast(s1, s2, Binary(bytes)) \in Message
  BY <1>1 DEF Broadcast, Message, Messages
<1>5. Reply(s1, s2, s3, s4, Binary(bytes)) \in Message
  BY <1>1 DEF Reply, Message, Messages
<1> QED BY <1>2, <1>3, <1>4, <1>5

(* A text that stands somewhere in a frame.                                *)
Stands(s, b) == \E a \in Seq(Byte), t \in Seq(Byte) : b = a \o (s \o t)

(* Concatenations, in either order.                                        *)
LEMMA Regrouped == \A a, s, t \in Seq(Byte) : a \o (s \o t) = (a \o s) \o t
<1> TAKE a, s, t \in Seq(Byte)
<1>1. a \o (s \o t) = (a \o s) \o t
  BY Grown
<1> QED BY <1>1

(* It also stands in the frame with more before it.                        *)
LEMMA StandsBehind ==
  ASSUME NEW h \in Seq(Byte), NEW s \in Seq(Byte), NEW b \in Seq(Byte), Stands(s, b)
  PROVE  h \o b \in Seq(Byte) /\ Stands(s, h \o b)
<1>1. \A a, x \in Seq(Byte) : h \o (a \o x) = (h \o a) \o x
  BY Regrouped, Zenon
<1>2. PICK a \in Seq(Byte), t \in Seq(Byte) : b = a \o (s \o t)
  BY DEF Stands
<1>3. s \o t \in Seq(Byte)
  BY Front
<1>4. h \o a \in Seq(Byte)
  BY Front
<1>5. h \o b = (h \o a) \o (s \o t)
  BY <1>1, <1>2, <1>3, Zenon
<1>6. h \o b \in Seq(Byte)
  BY Front
<1> QED BY <1>4, <1>5, <1>6, Zenon DEF Stands

(* It is the part of the frame between two places.                         *)
LEMMA StandsBetween ==
  ASSUME NEW s \in Seq(Byte), NEW b \in Seq(Byte), Stands(s, b)
  PROVE  \E i \in 1..(Len(b) + 1), j \in 0..Len(b) : s = SubSeq(b, i, j)
<1>1. PICK a \in Seq(Byte), t \in Seq(Byte) : b = a \o (s \o t)
  BY DEF Stands
<1>2. SubSeq(b, Len(a) + 1, Len(a) + Len(s)) = s
  BY <1>1, Middle
<1>3. /\ Len(a) \in Nat /\ Len(s) \in Nat /\ Len(t) \in Nat
      /\ Len(b) = Len(a) + (Len(s) + Len(t))
  BY <1>1, ConcatProperties, LenProperties
<1>4. Len(a) + 1 \in 1..(Len(b) + 1) /\ Len(a) + Len(s) \in 0..Len(b)
  BY <1>3
<1> QED BY <1>2, <1>4

(* A binary frame is read as a message only if it is the frame of it.      *)
LEMMA BinaryDecoded ==
  ASSUME NEW b \in Seq(Byte)
  PROVE  /\ DecodeBinary(b) \in Message \cup {Failed}
         /\ DecodeBinary(b) # Failed =>
              \E m \in CouldBe(DecodeBinary(b), Binary(b)) : IsFrameOf(Binary(b), m)
<1> DEFINE d == DecodeBinary(b)
<1>1. CASE b = <<>>
  BY <1>1 DEF DecodeBinary
<1>2. CASE b # <<>> /\ b[1] = 0
  <2> DEFINE rd == After3(b, 3)
  <2>1. d = DecodePush(rd)
    BY <1>2 DEF DecodeBinary
  <2>2. rd \in Reader /\ (rd.ok => Len(b) > 3 /\ Begins3(b, 3, rd))
    BY Inverse3
  <2> HIDE DEF rd, d
  <2>3. CASE ~rd.ok
    BY <2>1, <2>3 DEF DecodePush, d
  <2>4. CASE rd.ok
    <3>1. PICK s1, s2, s3 \in Text :
            /\ rd.got = <<s1, s2, s3>>
            /\ Len(s1) = b[2] /\ Len(s2) = b[3] /\ Len(s3) = b[4]
            /\ b = SubSeq(b, 1, 3 + 1) \o (s1 \o (s2 \o (s3 \o rd.left)))
      BY <2>2, <2>4 DEF Begins3
    <3> DEFINE l == rd.left
    <3>2. l \in Seq(Byte)
      BY <2>2 DEF Reader
    <3>3. d = Push(s1, None, s2, s3, Binary(l))
      BY <2>1, <2>4, <3>1 DEF DecodePush
    <3>4. b = <<0, Len(s1), Len(s2), Len(s3)>> \o (s1 \o (s2 \o (s3 \o l)))
      <4>1. SubSeq(b, 1, 3 + 1) = <<0, Len(s1), Len(s2), Len(s3)>>
        BY <1>2, <2>2, <2>4, <3>1, FirstBytes
      <4> QED BY <3>1, <4>1, Zenon
    <3> HIDE DEF l
    <3>5. d \in Message /\ Binary(l).type = "binary" /\ Binary(l).bytes = l
      BY <3>2, <3>3, BinaryMessages
    <3>6. /\ d.kind = "push" /\ d.join_reference = s1 /\ d.topic = s2 /\ d.event = s3
          /\ d.payload.type = "binary" /\ d.payload.bytes = l
      BY <3>3, <3>5 DEF Push
    <3>7. ServerWrites(d) = Binary(b)
      BY <3>4, <3>6, Zenon DEF ServerWrites, BytesOf
    <3>8. d \in CouldBe(d, Binary(b)) /\ IsFrameOf(Binary(b), d)
      BY <3>6, <3>7 DEF CouldBe, IsFrameOf
    <3> QED BY <3>5, <3>8 DEF d
  <2> QED BY <2>3, <2>4
<1>3. CASE b # <<>> /\ b[1] = 2
  <2> DEFINE rd == After2(b, 2)
  <2>1. d = DecodeBroadcast(rd)
    BY <1>3 DEF DecodeBinary
  <2>2. rd \in Reader /\ (rd.ok => Len(b) > 2 /\ Begins2(b, 2, rd))
    BY Inverse2
  <2> HIDE DEF rd, d
  <2>3. CASE ~rd.ok
    BY <2>1, <2>3 DEF DecodeBroadcast, d
  <2>4. CASE rd.ok
    <3>1. PICK s1, s2 \in Text :
            /\ rd.got = <<s1, s2>>
            /\ Len(s1) = b[2] /\ Len(s2) = b[3]
            /\ b = SubSeq(b, 1, 2 + 1) \o (s1 \o (s2 \o rd.left))
      BY <2>2, <2>4 DEF Begins2
    <3> DEFINE l == rd.left
    <3>2. l \in Seq(Byte)
      BY <2>2 DEF Reader
    <3>3. d = Broadcast(s1, s2, Binary(l))
      BY <2>1, <2>4, <3>1 DEF DecodeBroadcast
    <3>4. b = <<2, Len(s1), Len(s2)>> \o (s1 \o (s2 \o l))
      <4>1. SubSeq(b, 1, 2 + 1) = <<2, Len(s1), Len(s2)>>
        BY <1>3, <2>2, <2>4, <3>1, FirstBytes
      <4> QED BY <3>1, <4>1, Zenon
    <3> HIDE DEF l
    <3>5. d \in Message /\ Binary(l).type = "binary" /\ Binary(l).bytes = l
      BY <3>2, <3>3, BinaryMessages
    <3>6. /\ d.kind = "broadcast" /\ d.topic = s1 /\ d.event = s2
          /\ d.payload.type = "binary" /\ d.payload.bytes = l
      BY <3>3, <3>5 DEF Broadcast
    <3>7. ServerWrites(d) = Binary(b)
      <4>1. d.kind # "push" /\ d.kind # "reply"
        BY <3>6
      <4>2. BytesOf(d) = b
        BY <3>4, <3>6, <4>1 DEF BytesOf
      <4> QED BY <3>6, <4>2 DEF ServerWrites
    <3>8. d \in CouldBe(d, Binary(b)) /\ IsFrameOf(Binary(b), d)
      BY <3>6, <3>7 DEF CouldBe, IsFrameOf
    <3> QED BY <3>5, <3>8 DEF d
  <2> QED BY <2>3, <2>4
<1>4. CASE b # <<>> /\ b[1] \notin {0, 1, 2}
  BY <1>4 DEF DecodeBinary
<1>5. CASE b # <<>> /\ b[1] = 1
  <2> DEFINE rd == After4(b, 4)
  <2>1. d = DecodeReply(rd)
    BY <1>5 DEF DecodeBinary
  <2>2. rd \in Reader /\ (rd.ok => Len(b) > 4 /\ Begins4(b, 4, rd))
    BY Inverse4
  <2> HIDE DEF rd, d
  <2>3. CASE ~rd.ok
    BY <2>1, <2>3 DEF DecodeReply, d
  <2>4. CASE rd.ok
    <3>1. PICK s1, s2, s3, s4 \in Text :
            /\ rd.got = <<s1, s2, s3, s4>>
            /\ Len(s1) = b[2] /\ Len(s2) = b[3] /\ Len(s3) = b[4] /\ Len(s4) = b[5]
            /\ b = SubSeq(b, 1, 4 + 1) \o (s1 \o (s2 \o (s3 \o (s4 \o rd.left))))
      BY <2>2, <2>4 DEF Begins4
    <3> DEFINE l == rd.left
               m == [d EXCEPT !.status = s4]
    <3>2. l \in Seq(Byte)
      BY <2>2 DEF Reader
    <3>3. d = Reply(s1, s2, s3, StatusOf(s4), Binary(l))
      BY <2>1, <2>4, <3>1 DEF DecodeReply
    <3>4. b = <<1, Len(s1), Len(s2), Len(s3), Len(s4)>> \o (s1 \o (s2 \o (s3 \o (s4 \o l))))
      <4>1. SubSeq(b, 1, 4 + 1) = <<1, Len(s1), Len(s2), Len(s3), Len(s4)>>
        BY <1>5, <2>2, <2>4, <3>1, FirstBytes
      <4> QED BY <3>1, <4>1, Zenon
    <3> HIDE DEF l
    <3>5. d \in Message /\ Binary(l).type = "binary" /\ Binary(l).bytes = l
      <4>1. StatusOf(s4) \in {"ok", "error"}
        BY DEF StatusOf
      <4> QED BY <3>2, <3>3, <4>1, BinaryMessages
    <3>6. m = Reply(s1, s2, s3, s4, Binary(l)) /\ d.kind = "reply" /\ d.status = StatusOf(s4)
      BY <3>3 DEF Reply
    <3>7. /\ m.kind = "reply" /\ m.join_reference = s1 /\ m.reference = s2 /\ m.topic = s3
          /\ m.status = s4 /\ m.payload.type = "binary" /\ m.payload.bytes = l
      BY <3>5, <3>6 DEF Reply
    <3> HIDE DEF m
    <3>8. ServerWrites(m) = Binary(b)
      <4>1. m.kind # "push"
        BY <3>7
      <4>2. BytesOf(m) = b
        BY <3>4, <3>7, <4>1 DEF BytesOf
      <4> QED BY <3>7, <4>2 DEF ServerWrites
    <3>9. s4 \in StatusTexts(Binary(b))
      <4> DEFINE h == <<1, Len(s1), Len(s2), Len(s3), Len(s4)>>
      <4>1. h \in Seq(Byte)
        <5>1. /\ Len(b) \in Nat /\ Len(b) > 4
              /\ \A i \in 1..Len(b) : b[i] \in Byte
          BY <2>2, <2>4, LenProperties, ElementOfSeq
        <5>2. b[1] \in Byte /\ b[2] \in Byte /\ b[3] \in Byte /\ b[4] \in Byte /\ b[5] \in Byte
          BY <5>1
        <5>3. h = <<b[1], b[2], b[3], b[4], b[5]>>
          BY <1>5, <3>1
        <5> QED BY <5>2, <5>3
      <4>2. b = h \o (s1 \o (s2 \o (s3 \o (s4 \o l))))
        BY <3>4, Zenon DEF h
      <4> HIDE DEF h
      <4>3. \E i \in 1..(Len(b) + 1), j \in 0..Len(b) : s4 = SubSeq(b, i, j)
        <5> DEFINE b3 == s3 \o (s4 \o l)
                   b2 == s2 \o b3
                   b1 == s1 \o b2
        <5>1. s1 \in Seq(Byte) /\ s2 \in Seq(Byte) /\ s3 \in Seq(Byte) /\ s4 \in Seq(Byte)
          BY TextIsBytes
        <5>2. b3 \in Seq(Byte) /\ Stands(s4, b3)
          BY <3>2, <5>1, Front DEF Stands
        <5> HIDE DEF b3
        <5>3. b2 \in Seq(Byte) /\ Stands(s4, b2)
          BY <5>1, <5>2, StandsBehind
        <5> HIDE DEF b2
        <5>4. b1 \in Seq(Byte) /\ Stands(s4, b1)
          BY <5>1, <5>3, StandsBehind
        <5> HIDE DEF b1
        <5>5. Stands(s4, h \o b1)
          BY <4>1, <5>1, <5>4, StandsBehind
        <5>6. b = h \o b1
          BY <4>2, Zenon DEF b1, b2, b3
        <5> QED BY <5>1, <5>5, <5>6, StandsBetween
      <4>4. Binary(b).type = "binary" /\ Binary(b).type # "text" /\ Binary(b).bytes = b
        BY DEF Binary
      <4> QED BY <4>3, <4>4 DEF StatusTexts
    <3>10. m \in CouldBe(d, Binary(b))
      BY <3>6, <3>9 DEF CouldBe, m
    <3>11. IsFrameOf(Binary(b), m)
      BY <3>7, <3>8 DEF IsFrameOf
    <3> QED BY <3>5, <3>10, <3>11 DEF d
  <2> QED BY <2>3, <2>4
<1> QED BY <1>1, <1>2, <1>3, <1>4, <1>5
-----------------------------------------------------------------------------
(***************************************************************************)
(* JSON frames                                                             *)
(***************************************************************************)
(* What a field is, by what decode_json sees in it.                        *)
LEMMA FieldKinds ==
  ASSUME NEW v \in Field
  PROVE  /\ v.json \in {"null", "string", "value", "reply"}
         /\ v.json = "null" => v = Null
         /\ v.json = "string" => v.text \in Text /\ v = String(v.text)
         /\ v.json = "reply" => /\ v.status \in Text /\ v.response \in Field
                               /\ v = ReplyObject(v.status, v.response)
<1>1. CASE v = Null
  BY <1>1 DEF Null
<1>2. CASE v \in [json : {"string"}, text : Text]
  BY <1>2 DEF String
<1>3. CASE v \in [json : {"value"}, value : Json]
  BY <1>3
<1>4. CASE v \in [json : {"reply"}, status : Text, response : [json : {"value"}, value : Json]]
  BY <1>4 DEF ReplyObject, Field, JsonValue
<1> QED BY <1>1, <1>2, <1>3, <1>4 DEF Field, JsonValue

(* References and texts go to JSON and back.                               *)
LEMMA FieldsBack ==
  /\ \A t \in Optional : OrNull(t) \in Field /\ OrNone(OrNull(t)) = t
                        /\ OrNull(t).json \in {"null", "string"}
  /\ \A t \in Text : String(t) \in Field /\ String(t).json = "string" /\ String(t).text = t
  /\ \A v \in Field : v.json \in {"null", "string"} => OrNone(v) \in Optional /\ OrNull(OrNone(v)) = v
<1>1. ASSUME NEW t \in Text
      PROVE  String(t) \in Field /\ String(t).json = "string" /\ String(t).text = t
  BY DEF String, Field
<1>2. Null \in Field /\ Null.json = "null"
  BY DEF Null, Field
<1>3. ASSUME NEW t \in Optional
      PROVE  OrNull(t) \in Field /\ OrNone(OrNull(t)) = t /\ OrNull(t).json \in {"null", "string"}
  BY <1>1, <1>2 DEF OrNull, OrNone, Optional
<1>4. ASSUME NEW v \in Field, v.json \in {"null", "string"}
      PROVE  OrNone(v) \in Optional /\ OrNull(OrNone(v)) = v
  <2>1. CASE v.json = "null"
    BY <2>1, FieldKinds DEF OrNone, OrNull, Optional
  <2>2. CASE v.json = "string"
    <3>1. v.text \in Text /\ v = String(v.text) /\ v.text # None
      BY <2>2, FieldKinds, NameAssumption
    <3>2. OrNone(v) = v.text
      BY <2>2 DEF OrNone
    <3> QED BY <3>1, <3>2 DEF OrNull, Optional
  <2> QED BY <1>4, <2>1, <2>2
<1> QED BY <1>1, <1>3, <1>4

(* The five places of a JSON frame.                                        *)
LEMMA FivePlaces ==
  ASSUME NEW f \in Seq(Field), Len(f) = 5
  PROVE  /\ f[1] \in Field /\ f[2] \in Field /\ f[3] \in Field /\ f[4] \in Field /\ f[5] \in Field
         /\ f = <<f[1], f[2], f[3], f[4], f[5]>>
<1>1. \A i \in 1..Len(f) : f[i] \in Field
  BY ElementOfSeq
<1>2. f[1] \in Field /\ f[2] \in Field /\ f[3] \in Field /\ f[4] \in Field /\ f[5] \in Field
  BY <1>1
<1> DEFINE h == <<f[1], f[2], f[3], f[4], f[5]>>
<1>3. h \in Seq(Field) /\ Len(h) = 5 /\ \A i \in 1..5 : h[i] = f[i]
  BY <1>2
<1> HIDE DEF h
<1>4. Len(h) = Len(f) /\ \A i \in 1..Len(f) : f[i] = h[i]
  BY <1>3, Zenon
<1>5. f = h
  BY <1>3, <1>4, SeqEqual
<1> QED BY <1>2, <1>5 DEF h

(* The topic of a control message is the one place that is not looked at.  *)
LEMMA ThirdPlace ==
  ASSUME NEW a \in Field, NEW b \in Field, NEW c \in Field, NEW d \in Field, NEW e \in Field,
         NEW x \in Field
  PROVE  [<<a, b, x, d, e>> EXCEPT ![3] = c] = <<a, b, c, d, e>>
OBVIOUS

(* What decode_json makes of five fields that are of the right kind.       *)
LEMMA JsonCases ==
  ASSUME NEW f \in Seq(Field), NEW jr, NEW ref, NEW topic, NEW event,
         Len(f) = 5, f[1].json \in {"null", "string"}, f[2].json \in {"null", "string"},
         f[3].json = "string", f[4].json = "string",
         jr = OrNone(f[1]), ref = OrNone(f[2]), topic = f[3].text, event = f[4].text
  PROVE  /\ jr = None /\ ref = None => DecodeJson(f) = Broadcast(topic, event, Value(f[5]))
         /\ jr = None /\ ref # None /\ event \in PhoenixEvent =>
              DecodeJson(f) = Control(event, Value(f[5]), ref)
         /\ jr = None /\ ref # None /\ event \notin PhoenixEvent => DecodeJson(f) = Failed
         /\ jr # None /\ ref # None /\ event = PhxReply /\ f[5].json = "reply" =>
              DecodeJson(f) = Reply(jr, ref, topic, StatusOf(f[5].status), Value(f[5].response))
         /\ jr # None /\ ref # None /\ event = PhxReply /\ f[5].json # "reply" =>
              DecodeJson(f) = Failed
         /\ jr # None /\ (ref = None \/ event # PhxReply) =>
              DecodeJson(f) = Push(jr, ref, topic, event, Value(f[5]))
BY DEF DecodeJson

(* Messages of texts and of a payload that is a JSON value.                *)
LEMMA JsonMessages ==
  ASSUME NEW topic \in Text, NEW event \in Text, NEW v \in Field
  PROVE  /\ Value(v) \in Payload
         /\ Broadcast(topic, event, Value(v)) \in Message
         /\ \A ref \in Optional : Control(event, Value(v), ref) \in Message
         /\ \A jr \in Text, ref \in Optional : Push(jr, ref, topic, event, Value(v)) \in Message
         /\ \A jr, ref \in Text, status \in {"ok", "error"} :
              Reply(jr, ref, topic, status, Value(v)) \in Message
<1>1. Value(v) \in Payload /\ PhxReply \in Text
  BY NameAssumption DEF Value, Payload
<1>2. ASSUME NEW ref \in Optional PROVE Control(event, Value(v), ref) \in Message
  BY <1>1 DEF Control, Message, Messages
<1>3. Broadcast(topic, event, Value(v)) \in Message
  BY <1>1 DEF Broadcast, Message, Messages
<1>4. ASSUME NEW jr \in Text, NEW ref \in Optional
      PROVE  Push(jr, ref, topic, event, Value(v)) \in Message
  BY <1>1 DEF Push, Message, Messages
<1>5. ASSUME NEW jr \in Text, NEW ref \in Text, NEW status \in {"ok", "error"}
      PROVE  Reply(jr, ref, topic, status, Value(v)) \in Message
  BY <1>1 DEF Reply, Message, Messages
<1> QED BY <1>1, <1>2, <1>3, <1>4, <1>5

(* A JSON frame is read as a message only if it is the frame of it.        *)
LEMMA JsonDecoded ==
  ASSUME NEW f \in Seq(Field)
  PROVE  /\ DecodeJson(f) \in Message \cup {Failed}
         /\ DecodeJson(f) # Failed =>
              LET frm == [type |-> "text", fields |-> f]
              IN  \E m \in CouldBe(DecodeJson(f), frm) : IsFrameOf(frm, m)
<1> DEFINE frm == [type |-> "text", fields |-> f]
           d == DecodeJson(f)
<1>1. CASE \/ Len(f) # 5
           \/ f[1].json \notin {"null", "string"} \/ f[2].json \notin {"null", "string"}
           \/ f[3].json # "string" \/ f[4].json # "string"
  BY <1>1, Zenon DEF DecodeJson
<1>2. CASE /\ Len(f) = 5
           /\ f[1].json \in {"null", "string"} /\ f[2].json \in {"null", "string"}
           /\ f[3].json = "string" /\ f[4].json = "string"
  <2> DEFINE jr == OrNone(f[1])
             ref == OrNone(f[2])
             topic == f[3].text
             event == f[4].text
             v == f[5]
  <2>1. /\ f[1] \in Field /\ f[2] \in Field /\ f[3] \in Field /\ f[4] \in Field /\ v \in Field
        /\ f = <<f[1], f[2], f[3], f[4], v>>
    BY <1>2, FivePlaces
  <2>2. jr \in Optional /\ OrNull(jr) = f[1] /\ ref \in Optional /\ OrNull(ref) = f[2]
    BY <1>2, <2>1, FieldsBack
  <2>3. topic \in Text /\ f[3] = String(topic) /\ event \in Text /\ f[4] = String(event)
    BY <1>2, <2>1, FieldKinds
  <2>4. f = <<OrNull(jr), OrNull(ref), String(topic), String(event), v>>
    BY <2>1, <2>2, <2>3, Zenon
  <2>5. /\ jr = None /\ ref = None => d = Broadcast(topic, event, Value(v))
        /\ jr = None /\ ref # None /\ event \in PhoenixEvent => d = Control(event, Value(v), ref)
        /\ jr = None /\ ref # None /\ event \notin PhoenixEvent => d = Failed
        /\ jr # None /\ ref # None /\ event = PhxReply /\ v.json = "reply" =>
             d = Reply(jr, ref, topic, StatusOf(v.status), Value(v.response))
        /\ jr # None /\ ref # None /\ event = PhxReply /\ v.json # "reply" => d = Failed
        /\ jr # None /\ (ref = None \/ event # PhxReply) =>
             d = Push(jr, ref, topic, event, Value(v))
    BY <1>2, JsonCases
  <2>6. /\ jr # None => jr \in Text
        /\ ref # None => ref \in Text
    BY <2>2 DEF Optional
  <2>7. frm.type = "text" /\ frm.fields = f
    OBVIOUS
  <2>8. v \in Field
    BY <2>1
  <2> HIDE DEF jr, ref, topic, event, v, d, frm
  <2>9. CASE jr = None /\ ref = None
    <3>1. d = Broadcast(topic, event, Value(v)) /\ d \in Message
      BY <2>3, <2>5, <2>8, <2>9, JsonMessages
    <3>2. /\ d.kind = "broadcast" /\ d.topic = topic /\ d.event = event
          /\ d.payload.type = "value" /\ d.payload.value = v
      BY <3>1 DEF Broadcast, Value
    <3>3. JoinRefOf(d) = jr /\ RefOf(d) = ref /\ TopicOf(d) = topic
      BY <2>9, <3>2 DEF JoinRefOf, RefOf, TopicOf
    <3>4. FieldsOf(d) = f
      BY <2>4, <3>2, <3>3 DEF FieldsOf
    <3>5. d \in CouldBe(d, frm) /\ IsFrameOf(frm, d)
      BY <3>2, <3>4 DEF CouldBe, IsFrameOf, ServerWrites, frm
    <3> QED BY <3>1, <3>5 DEF d, frm
  <2>10. CASE jr = None /\ ref # None /\ event \in PhoenixEvent
    <3>1. d = Control(event, Value(v), ref) /\ d \in Message
      BY <2>2, <2>3, <2>5, <2>8, <2>10, JsonMessages
    <3>2. /\ d.kind = "control" /\ d.reference = ref /\ d.event = event
          /\ d.payload.type = "value" /\ d.payload.value = v
      BY <3>1 DEF Control, Value
    <3>3. JoinRefOf(d) = jr /\ RefOf(d) = ref
      BY <2>10, <3>2 DEF JoinRefOf, RefOf
    <3> DEFINE g == FieldsOf(d)
    <3>4. g = <<OrNull(jr), OrNull(ref), String(TopicOf(d)), String(event), v>>
      BY <3>2, <3>3 DEF FieldsOf
    <3>5. String(TopicOf(d)) \in Field
      BY <3>2, NameAssumption, FieldsBack DEF TopicOf
    <3> HIDE DEF g
    <3>6. [g EXCEPT ![3] = f[3]] = f
      <4>1. /\ OrNull(jr) \in Field /\ OrNull(ref) \in Field /\ String(topic) \in Field
            /\ String(event) \in Field
        BY <2>2, <2>3, FieldsBack
      <4>2. f[3] = String(topic)
        BY <2>3
      <4> QED BY <2>4, <2>8, <3>4, <3>5, <4>1, <4>2, ThirdPlace
    <3>7. ServerWrites(d) = [type |-> "text", fields |-> g]
      BY <3>2 DEF ServerWrites, g
    <3>8. [ServerWrites(d) EXCEPT !.fields[3] = frm.fields[3]] = frm
      <4>1. [[type |-> "text", fields |-> g] EXCEPT !.fields = [g EXCEPT ![3] = f[3]]] = frm
        BY <3>6 DEF frm
      <4> QED BY <2>7, <3>7, <4>1
    <3>9. d \in CouldBe(d, frm) /\ IsFrameOf(frm, d)
      BY <3>2, <3>8 DEF CouldBe, IsFrameOf
    <3> QED BY <3>1, <3>9 DEF d, frm
  <2>11. CASE jr # None /\ ref # None /\ event = PhxReply /\ v.json = "reply"
    <3>1. v.status \in Text /\ v.response \in Field /\ v = ReplyObject(v.status, v.response)
      BY <2>8, <2>11, FieldKinds
    <3>2. StatusOf(v.status) \in {"ok", "error"}
      BY DEF StatusOf
    <3>3. d = Reply(jr, ref, topic, StatusOf(v.status), Value(v.response)) /\ d \in Message
      <4>1. d = Reply(jr, ref, topic, StatusOf(v.status), Value(v.response))
        BY <2>5, <2>11
      <4>2. Reply(jr, ref, topic, StatusOf(v.status), Value(v.response)) \in Message
        BY <2>3, <2>6, <2>11, <3>1, <3>2, JsonMessages
      <4> QED BY <4>1, <4>2
    <3> DEFINE m == [d EXCEPT !.status = v.status]
    <3>4. d.kind = "reply" /\ d.status = StatusOf(v.status)
      BY <3>3 DEF Reply
    <3>5. m = Reply(jr, ref, topic, v.status, Value(v.response))
      BY <3>3 DEF Reply
    <3>6. /\ m.kind = "reply" /\ m.join_reference = jr /\ m.reference = ref /\ m.topic = topic
          /\ m.event = event /\ m.status = v.status
          /\ m.payload.type = "value" /\ m.payload.value = v.response
      BY <2>11, <3>5 DEF Reply, Value
    <3>7. m \in CouldBe(d, frm)
      <4>1. v.status \in StatusTexts(frm)
        BY <2>7 DEF StatusTexts, v
      <4> QED BY <3>4, <4>1 DEF CouldBe
    <3> HIDE DEF m
    <3>8. JoinRefOf(m) = jr /\ RefOf(m) = ref /\ TopicOf(m) = topic
      BY <3>6 DEF JoinRefOf, RefOf, TopicOf
    <3>9. FieldsOf(m) = f
      BY <2>4, <3>1, <3>6, <3>8 DEF FieldsOf
    <3>10. IsFrameOf(frm, m)
      BY <3>6, <3>9 DEF IsFrameOf, ServerWrites, frm
    <3> QED BY <3>3, <3>7, <3>10 DEF d, frm
  <2>12. CASE jr # None /\ (ref = None \/ event # PhxReply)
    <3>1. d = Push(jr, ref, topic, event, Value(v)) /\ d \in Message
      BY <2>2, <2>3, <2>5, <2>6, <2>8, <2>12, JsonMessages
    <3>2. /\ d.kind = "push" /\ d.join_reference = jr /\ d.reference = ref /\ d.topic = topic
          /\ d.event = event /\ d.payload.type = "value" /\ d.payload.value = v
      BY <3>1 DEF Push, Value
    <3>3. JoinRefOf(d) = jr /\ RefOf(d) = ref /\ TopicOf(d) = topic
      BY <3>2 DEF JoinRefOf, RefOf, TopicOf
    <3>4. FieldsOf(d) = f
      BY <2>4, <3>2, <3>3 DEF FieldsOf
    <3>5. d \in CouldBe(d, frm) /\ IsFrameOf(frm, d)
      BY <3>2, <3>4 DEF CouldBe, IsFrameOf, ServerWrites, frm
    <3> QED BY <3>1, <3>5 DEF d, frm
  <2>13. CASE d = Failed
    BY <2>13 DEF d
  <2> QED BY <2>5, <2>9, <2>10, <2>11, <2>12, <2>13
<1> QED BY <1>1, <1>2

(* Any frame is read as a message only if it is the frame of it.           *)
LEMMA Decoded ==
  ASSUME NEW f \in Frame
  PROVE  /\ Decode(f) \in Message \cup {Failed}
         /\ Decode(f) # Failed => \E m \in CouldBe(Decode(f), f) : IsFrameOf(f, m)
<1>1. CASE f \in [type : {"binary"}, bytes : Seq(Byte)]
  <2>1. f = Binary(f.bytes) /\ f.bytes \in Seq(Byte) /\ Decode(f) = DecodeBinary(f.bytes)
    BY <1>1 DEF Binary, Decode
  <2>2. /\ DecodeBinary(f.bytes) \in Message \cup {Failed}
        /\ DecodeBinary(f.bytes) # Failed =>
             \E m \in CouldBe(DecodeBinary(f.bytes), Binary(f.bytes)) : IsFrameOf(Binary(f.bytes), m)
    BY <2>1, BinaryDecoded
  <2> QED BY <2>1, <2>2, Zenon
<1>2. CASE f \in [type : {"text"}, fields : Seq(Field)]
  <2> DEFINE frm == [type |-> "text", fields |-> f.fields]
  <2>1. f = frm /\ f.fields \in Seq(Field) /\ Decode(f) = DecodeJson(f.fields)
    BY <1>2 DEF Decode
  <2>2. /\ DecodeJson(f.fields) \in Message \cup {Failed}
        /\ DecodeJson(f.fields) # Failed =>
             \E m \in CouldBe(DecodeJson(f.fields), frm) : IsFrameOf(frm, m)
    BY <2>1, JsonDecoded
  <2> HIDE DEF frm
  <2> QED BY <2>1, <2>2, Zenon
<1> QED BY <1>1, <1>2 DEF Frame

-----------------------------------------------------------------------------
(***************************************************************************)
(* What the server writes                                                  *)
(***************************************************************************)
(* The client reads a binary message of the server as it was sent.         *)
LEMMA BinaryWritten ==
  ASSUME NEW m \in Messages(Text), ServersOwn(m), m.payload.type = "binary"
  PROVE  BytesOf(m) \in Seq(Byte) /\ DecodeBinary(BytesOf(m)) = AsClient(m)
<1> DEFINE bytes == m.payload.bytes
<1>1. /\ m.kind \in {"control", "broadcast", "reply", "push"}
      /\ m.event \in Text /\ m.payload \in Payload
      /\ m.kind # "control" => m.topic \in Text
      /\ m.kind \in {"reply", "push"} => m.join_reference \in Text
      /\ m.kind \in {"control", "push"} => m.reference \in Optional
      /\ m.kind = "reply" => m.reference \in Text /\ m.status \in Text
      /\ m.kind = "broadcast" => m = Broadcast(m.topic, m.event, m.payload)
      /\ m.kind = "push" => m = Push(m.join_reference, m.reference, m.topic, m.event, m.payload)
      /\ m.kind = "reply" /\ m.event = PhxReply =>
           m = Reply(m.join_reference, m.reference, m.topic, m.status, m.payload)
  BY MessageFields
<1>2. bytes \in Seq(Byte) /\ m.payload = Binary(bytes)
  BY <1>1 DEF Payload, Binary
<1>3. /\ m.kind # "control" /\ Fits(m.topic) /\ Fits(m.event)
      /\ m.kind = "reply" => Fits(m.status) /\ m.event = PhxReply
      /\ Fits(OrEmpty(JoinRefOf(m))) /\ Fits(OrEmpty(RefOf(m)))
  BY <1>1 DEF ServersOwn
<1>4. \A t \in Text : OrEmpty(t) = t
  BY NameAssumption DEF OrEmpty
<1> HIDE DEF bytes
<1>5. CASE m.kind = "push"
  <2>1. /\ m.topic \in Text /\ m.join_reference \in Text
        /\ m = Push(m.join_reference, m.reference, m.topic, m.event, Binary(bytes))
    BY <1>1, <1>2, <1>5
  <2>2. Fits(m.join_reference)
    BY <1>3, <1>4, <1>5, <2>1 DEF JoinRefOf
  <2>3. BytesOf(m) = <<0, Len(m.join_reference), Len(m.topic), Len(m.event)>>
                     \o (m.join_reference \o (m.topic \o (m.event \o bytes)))
    BY <1>5, Zenon DEF BytesOf, bytes
  <2>4. AsClient(m) = Push(m.join_reference, None, m.topic, m.event, Binary(bytes))
    <3>1. AsClient(m) = [m EXCEPT !.reference = None]
      BY <1>5 DEF AsClient
    <3> QED BY <2>1, <3>1 DEF Push
  <2>5. /\ BytesOf(m) \in Seq(Byte)
        /\ DecodeBinary(BytesOf(m)) = Push(m.join_reference, None, m.topic, m.event, Binary(bytes))
    BY <1>1, <1>2, <1>3, <2>1, <2>2, <2>3, PushRead
  <2> QED BY <2>4, <2>5
<1>6. CASE m.kind = "reply"
  <2>1. /\ m.topic \in Text /\ m.join_reference \in Text /\ m.reference \in Text /\ m.status \in Text
        /\ m = Reply(m.join_reference, m.reference, m.topic, m.status, Binary(bytes))
    BY <1>1, <1>2, <1>3, <1>6
  <2>2. Fits(m.join_reference) /\ Fits(m.reference)
    BY <1>3, <1>4, <1>6, <2>1 DEF JoinRefOf, RefOf
  <2>3. BytesOf(m) = ReplyBytes(m.join_reference, m.reference, m.topic, m.status, bytes)
    <3>1. m.kind # "push"
      BY <1>6
    <3> QED BY <1>6, <3>1 DEF BytesOf, ReplyBytes, bytes
  <2>4. AsClient(m) = Reply(m.join_reference, m.reference, m.topic, StatusOf(m.status), Binary(bytes))
    <3>1. AsClient(m) = [m EXCEPT !.status = StatusOf(m.status)]
      BY <1>6 DEF AsClient
    <3> QED BY <2>1, <3>1 DEF Reply
  <2>5. /\ BytesOf(m) \in Seq(Byte)
        /\ DecodeBinary(BytesOf(m)) =
             Reply(m.join_reference, m.reference, m.topic, StatusOf(m.status), Binary(bytes))
    <3>1. bytes \in Seq(Byte) /\ Fits(m.topic) /\ Fits(m.status)
      BY <1>2, <1>3, <1>6
    <3> DEFINE Back(jr, ref, topic, status) ==
                 Fits(jr) /\ Fits(ref) /\ Fits(topic) /\ Fits(status) =>
                   LET b == ReplyBytes(jr, ref, topic, status, bytes)
                   IN  /\ b \in Seq(Byte)
                       /\ DecodeBinary(b) = Reply(jr, ref, topic, StatusOf(status), Binary(bytes))
    <3>2. ASSUME NEW jr \in Text, NEW ref \in Text, NEW topic \in Text, NEW status \in Text
          PROVE  Back(jr, ref, topic, status)
      BY <3>1, ReplyRead
    <3>3. /\ m.topic \in Text /\ m.join_reference \in Text
          /\ m.reference \in Text /\ m.status \in Text
      BY <2>1
    <3> HIDE DEF Back
    <3>4. Back(m.join_reference, m.reference, m.topic, m.status)
      BY <3>2, <3>3
    <3> QED BY <2>2, <2>3, <3>1, <3>4 DEF Back
  <2> QED BY <2>4, <2>5
<1>7. CASE m.kind = "broadcast"
  <2>1. m.topic \in Text /\ m = Broadcast(m.topic, m.event, Binary(bytes))
    BY <1>1, <1>2, <1>7
  <2>2. BytesOf(m) = <<2, Len(m.topic), Len(m.event)>> \o (m.topic \o (m.event \o bytes))
    <3>1. m.kind # "push" /\ m.kind # "reply"
      BY <1>7
    <3> QED BY <1>7, <3>1 DEF BytesOf, bytes
  <2>3. AsClient(m) = m
    BY <1>7 DEF AsClient
  <2>4. /\ BytesOf(m) \in Seq(Byte)
        /\ DecodeBinary(BytesOf(m)) = Broadcast(m.topic, m.event, Binary(bytes))
    BY <1>1, <1>2, <1>3, <2>1, <2>2, BroadcastRead
  <2> QED BY <2>1, <2>3, <2>4
<1> QED BY <1>1, <1>3, <1>5, <1>6, <1>7

(* And so a JSON message.                                                  *)
LEMMA JsonWritten ==
  ASSUME NEW m \in Messages(Text), ServersOwn(m), m.payload.type = "value"
  PROVE  FieldsOf(m) \in Seq(Field) /\ DecodeJson(FieldsOf(m)) = AsClient(m)
<1> DEFINE f == FieldsOf(m)
           jr == JoinRefOf(m)
           ref == RefOf(m)
           topic == TopicOf(m)
           event == m.event
           v == m.payload.value
           last == IF m.kind = "reply" THEN ReplyObject(m.status, v) ELSE v
<1>1. /\ m.kind \in {"control", "broadcast", "reply", "push"}
      /\ event \in Text /\ m.payload \in Payload
      /\ m.kind # "control" => m.topic \in Text
      /\ m.kind \in {"reply", "push"} => m.join_reference \in Text
      /\ m.kind \in {"control", "push"} => m.reference \in Optional
      /\ m.kind = "reply" => m.reference \in Text /\ m.status \in Text
      /\ m.kind = "control" => m = Control(event, m.payload, m.reference)
      /\ m.kind = "broadcast" => m = Broadcast(m.topic, event, m.payload)
      /\ m.kind = "push" => m = Push(m.join_reference, m.reference, m.topic, event, m.payload)
      /\ m.kind = "reply" /\ m.event = PhxReply =>
           m = Reply(m.join_reference, m.reference, m.topic, m.status, m.payload)
  BY MessageFields
<1>2. v \in Field /\ m.payload = Value(v)
  BY <1>1 DEF Payload, Value
<1>3. /\ m.kind = "control" => event \in PhoenixEvent /\ m.reference # None
      /\ m.kind = "reply" => event = PhxReply /\ v.json = "value"
      /\ m.kind = "push" /\ event = PhxReply => m.reference = None
  BY DEF ServersOwn
<1>4. jr \in Optional /\ ref \in Optional /\ topic \in Text
  BY <1>1, NameAssumption DEF JoinRefOf, RefOf, TopicOf, Optional
<1>5. last \in Field
  <2>1. CASE m.kind = "reply"
    <3>1. v \in [json : {"value"}, value : Json]
      BY <1>2, <1>3, <2>1 DEF Field, JsonValue, Null
    <3>2. ReplyObject(m.status, v) \in Field
      BY <1>1, <2>1, <3>1 DEF ReplyObject, Field, JsonValue
    <3> QED BY <2>1, <3>2
  <2>2. CASE m.kind # "reply"
    BY <1>2, <2>2
  <2> QED BY <2>1, <2>2
<1>6. f = <<OrNull(jr), OrNull(ref), String(topic), String(event), last>>
  BY Zenon DEF FieldsOf
<1>7. /\ OrNull(jr) \in Field /\ OrNone(OrNull(jr)) = jr /\ OrNull(jr).json \in {"null", "string"}
      /\ OrNull(ref) \in Field /\ OrNone(OrNull(ref)) = ref /\ OrNull(ref).json \in {"null", "string"}
      /\ String(topic) \in Field /\ String(topic).json = "string" /\ String(topic).text = topic
      /\ String(event) \in Field /\ String(event).json = "string" /\ String(event).text = event
  BY <1>1, <1>4, FieldsBack
<1> HIDE DEF f, jr, ref, topic, event, v, last
<1>8. /\ f \in Seq(Field) /\ Len(f) = 5
      /\ f[1] = OrNull(jr) /\ f[2] = OrNull(ref) /\ f[3] = String(topic) /\ f[4] = String(event)
      /\ f[5] = last
  BY <1>5, <1>6, <1>7
<1>9. /\ jr = None /\ ref = None => DecodeJson(f) = Broadcast(topic, event, Value(last))
      /\ jr = None /\ ref # None /\ event \in PhoenixEvent =>
           DecodeJson(f) = Control(event, Value(last), ref)
      /\ jr # None /\ ref # None /\ event = PhxReply /\ last.json = "reply" =>
           DecodeJson(f) = Reply(jr, ref, topic, StatusOf(last.status), Value(last.response))
      /\ jr # None /\ (ref = None \/ event # PhxReply) =>
           DecodeJson(f) = Push(jr, ref, topic, event, Value(last))
  BY <1>7, <1>8, JsonCases
<1>10. CASE m.kind = "control"
  <2>1. jr = None /\ ref = m.reference /\ last = v
    BY <1>10 DEF jr, ref, last, JoinRefOf, RefOf
  <2>2. DecodeJson(f) = m
    BY <1>1, <1>2, <1>3, <1>9, <1>10, <2>1
  <2>3. AsClient(m) = m
    BY <1>10 DEF AsClient
  <2> QED BY <1>8, <2>2, <2>3 DEF f
<1>11. CASE m.kind = "broadcast"
  <2>1. jr = None /\ ref = None /\ last = v /\ topic = m.topic
    BY <1>11 DEF jr, ref, last, topic, JoinRefOf, RefOf, TopicOf
  <2>2. DecodeJson(f) = m
    BY <1>1, <1>2, <1>9, <1>11, <2>1
  <2>3. AsClient(m) = m
    BY <1>11 DEF AsClient
  <2> QED BY <1>8, <2>2, <2>3 DEF f
<1>12. CASE m.kind = "push"
  <2>1. jr = m.join_reference /\ ref = m.reference /\ last = v /\ topic = m.topic
    BY <1>12 DEF jr, ref, last, topic, JoinRefOf, RefOf, TopicOf
  <2>2. jr # None
    BY <1>1, <1>12, <2>1, NameAssumption
  <2>3. DecodeJson(f) = m
    BY <1>1, <1>2, <1>3, <1>9, <1>12, <2>1, <2>2
  <2>4. AsClient(m) = m
    BY <1>12 DEF AsClient
  <2> QED BY <1>8, <2>3, <2>4 DEF f
<1>13. CASE m.kind = "reply"
  <2>1. jr = m.join_reference /\ ref = m.reference /\ topic = m.topic /\ last = ReplyObject(m.status, v)
    BY <1>13 DEF jr, ref, last, topic, JoinRefOf, RefOf, TopicOf
  <2>2. jr # None /\ ref # None
    BY <1>1, <1>13, <2>1, NameAssumption
  <2>3. last.json = "reply" /\ last.status = m.status /\ last.response = v
    BY <2>1 DEF ReplyObject
  <2>4. DecodeJson(f) = Reply(jr, ref, topic, StatusOf(m.status), Value(v))
    BY <1>3, <1>9, <1>13, <2>2, <2>3
  <2>5. m = Reply(jr, ref, topic, m.status, Value(v))
    BY <1>1, <1>2, <1>3, <1>13, <2>1 DEF event
  <2>6. AsClient(m) = [m EXCEPT !.status = StatusOf(m.status)]
    BY <1>13 DEF AsClient
  <2>7. AsClient(m) = Reply(jr, ref, topic, StatusOf(m.status), Value(v))
    BY <2>5, <2>6 DEF Reply
  <2> QED BY <1>8, <2>4, <2>7 DEF f
<1> QED BY <1>1, <1>10, <1>11, <1>12, <1>13

(* The client reads every message of the server as it was sent.            *)
LEMMA Written ==
  ASSUME NEW m \in Messages(Text), ServersOwn(m)
  PROVE  ServerWrites(m) \in Frame /\ Decode(ServerWrites(m)) = AsClient(m)
<1>1. CASE m.payload.type = "binary"
  <2> DEFINE b == BytesOf(m)
  <2>1. b \in Seq(Byte) /\ DecodeBinary(b) = AsClient(m)
    BY <1>1, BinaryWritten
  <2>2. ServerWrites(m) = Binary(b)
    BY <1>1 DEF ServerWrites
  <2> HIDE DEF b
  <2>3. Binary(b) \in Frame /\ Decode(Binary(b)) = DecodeBinary(b)
    BY <2>1 DEF Binary, Frame, Decode
  <2> QED BY <2>1, <2>2, <2>3
<1>2. CASE m.payload.type = "value"
  <2> DEFINE f == FieldsOf(m)
  <2>1. f \in Seq(Field) /\ DecodeJson(f) = AsClient(m)
    BY <1>2, JsonWritten
  <2>2. ServerWrites(m) = [type |-> "text", fields |-> f]
    BY <1>2 DEF ServerWrites
  <2> HIDE DEF f
  <2>3. /\ [type |-> "text", fields |-> f] \in Frame
        /\ Decode([type |-> "text", fields |-> f]) = DecodeJson(f)
    BY <2>1 DEF Frame, Decode
  <2> QED BY <2>1, <2>2, <2>3
<1>3. m.payload.type \in {"binary", "value"}
  BY MessageFields DEF Payload
<1> QED BY <1>1, <1>2, <1>3

-----------------------------------------------------------------------------
(***************************************************************************)
(* The system                                                              *)
(***************************************************************************)
(* What a frame is, by who had it made, and what has been made of it.      *)
Carried ==
  /\ from \in {"nobody", "client", "server", "foreign"}
  /\ read \in BOOLEAN
  /\ from = "nobody" => frame = Refused /\ read = FALSE
  /\ from = "client" => said \in ClientMessage /\ frame = Encode(said)
  /\ from = "server" => said \in ServerMessage /\ frame = ServerWrites(said)
  /\ from = "foreign" => frame \in ForeignFrame
  /\ from = "client" /\ read = TRUE => frame # Refused /\ heard = ServerReads(frame)
  /\ from \in {"server", "foreign"} /\ read = TRUE => heard = Decode(frame)

(* It is so from the start, and stays so.                                  *)
LEMMA CarriedInvariant == Spec => []Carried
<1>1. Init => Carried
  BY DEF Init, Carried
<1>2. Carried /\ [Next]_vars => Carried'
  <2> SUFFICES ASSUME Carried, [Next]_vars PROVE Carried'
    OBVIOUS
  <2>1. CASE ClientSends
    <3>1. PICK m \in ClientMessage : Sends("client", m, Encode(m))
      BY <2>1 DEF ClientSends
    <3> QED BY <3>1, Zenon DEF Carried, Sends
  <2>2. CASE ServerSends
    <3>1. PICK m \in ServerMessage : Sends("server", m, ServerWrites(m))
      BY <2>2 DEF ServerSends
    <3> QED BY <3>1, Zenon DEF Carried, Sends
  <2>3. CASE PeerSends
    <3>1. PICK f \in ForeignFrame : Sends("foreign", Nothing, f)
      BY <2>3 DEF PeerSends
    <3> QED BY <3>1, Zenon DEF Carried, Sends
  <2>4. CASE ServerReceives
    BY <2>4, Zenon DEF Carried, ServerReceives, Read
  <2>5. CASE ClientReceives
    BY <2>5, Zenon DEF Carried, ClientReceives, Read
  <2>6. CASE Done
    BY <2>6, Zenon DEF Carried, Done
  <2>7. CASE UNCHANGED vars
    BY <2>7, Zenon DEF Carried, vars
  <2> QED BY <2>1, <2>2, <2>3, <2>4, <2>5, <2>6, <2>7 DEF Next
<1> QED BY <1>1, <1>2, PTL DEF Spec

(* What either side has to say is what its half of the codec takes.        *)
LEMMA Traffic ==
  ASSUME Carried
  PROVE  /\ from = "client" => said \in Message
         /\ from = "server" => said \in Messages(Text) /\ ServersOwn(said)
         /\ from \in {"server", "foreign"} => frame \in Frame
<1>1. from = "client" => said \in Message
  BY TrafficAssumption DEF Carried
<1>2. from = "server" => said \in Messages(Text) /\ ServersOwn(said)
  BY TrafficAssumption DEF Carried
<1>3. CASE from = "server"
  <2>1. frame = ServerWrites(said)
    BY <1>3 DEF Carried
  <2> QED BY <1>1, <1>2, <1>3, <2>1, Written
<1>4. from = "foreign" => frame \in Frame
  BY TrafficAssumption DEF Carried
<1> QED BY <1>1, <1>2, <1>3, <1>4

(* Whatever is sent, a frame is bytes or JSON, and it is read as a message *)
(* or as none.                                                             *)
THEOREM TypeCorrect == Spec => []TypeOK
<1>1. ASSUME Carried PROVE TypeOK
  <2>1. from \in {"nobody", "client", "server", "foreign"} /\ read \in BOOLEAN
    BY <1>1 DEF Carried
  <2>2. frame \in Frame \cup {Refused}
    <3>1. CASE from = "client"
      <4>1. frame = Encode(said) /\ said \in Message
        BY <1>1, <3>1, Traffic DEF Carried
      <4> QED BY <4>1, Encoded
    <3>2. CASE from = "nobody"
      BY <1>1, <3>2 DEF Carried
    <3>3. CASE from \in {"server", "foreign"}
      BY <1>1, <3>3, Traffic
    <3> QED BY <2>1, <3>1, <3>2, <3>3
  <2>3. ASSUME read, from # "client" PROVE heard \in Message \cup {Failed}
    <3>1. read = TRUE
      BY <2>1, <2>3, Zenon
    <3>2. from \in {"server", "foreign"}
      BY <1>1, <2>1, <2>3, <3>1 DEF Carried
    <3>3. heard = Decode(frame) /\ frame \in Frame
      BY <1>1, <3>1, <3>2, Traffic DEF Carried
    <3> QED BY <3>3, Decoded
  <2> QED BY <2>1, <2>2, <2>3, Zenon DEF TypeOK
<1> QED BY <1>1, CarriedInvariant, PTL

(* The server reads every message of the client as it was sent, whatever   *)
(* the lengths of its texts.                                               *)
THEOREM ServerReadsEveryMessage == Spec => []ServerReadsAsSent
<1>1. ASSUME Carried PROVE ServerReadsAsSent
  <2>1. ASSUME from = "client", read PROVE heard = AsServer(said)
    <3>1. read = TRUE
      BY <1>1, <2>1, Zenon DEF Carried
    <3>2. frame = Encode(said) /\ frame # Refused /\ heard = ServerReads(frame) /\ said \in Message
      BY <1>1, <2>1, <3>1, Traffic DEF Carried
    <3> QED BY <3>2, Encoded
  <2> QED BY <2>1, Zenon DEF ServerReadsAsSent
<1> QED BY <1>1, CarriedInvariant, PTL

(* A message is refused only for a text that is longer than a size byte    *)
(* can tell.                                                               *)
THEOREM OnlyTooLongRefused == Spec => []RefusedOnlyTooLong
<1>1. ASSUME Carried PROVE RefusedOnlyTooLong
  <2> SUFFICES ASSUME from = "client", frame = Refused
               PROVE  \E t \in {OrEmpty(JoinRefOf(said)), OrEmpty(RefOf(said)), TopicOf(said),
                                said.event} : Len(t) > MaxByte
    BY DEF RefusedOnlyTooLong
  <2>1. Encode(said) = Refused /\ said \in Message
    BY <1>1, Traffic DEF Carried
  <2> QED BY <2>1, Encoded
<1> QED BY <1>1, CarriedInvariant, PTL

(* The client makes of every message of the server what it is.             *)
THEOREM ClientReadsEveryMessage == Spec => []ClientReadsAsSent
<1>1. ASSUME Carried PROVE ClientReadsAsSent
  <2>1. ASSUME from = "server", read PROVE heard = AsClient(said)
    <3>1. read = TRUE
      BY <1>1, <2>1, Zenon DEF Carried
    <3>2. /\ frame = ServerWrites(said) /\ heard = Decode(frame)
          /\ said \in Messages(Text) /\ ServersOwn(said)
      BY <1>1, <2>1, <3>1, Traffic DEF Carried
    <3> QED BY <3>2, Written
  <2> QED BY <2>1, Zenon DEF ClientReadsAsSent
<1> QED BY <1>1, CarriedInvariant, PTL

(* Whatever frame comes, a message is made of it only if it is the frame   *)
(* of that message.                                                        *)
THEOREM NothingIsReadIntoFrame == Spec => []NothingReadIntoFrame
<1>1. ASSUME Carried PROVE NothingReadIntoFrame
  <2>1. ASSUME from = "foreign", read, heard # Failed
        PROVE  \E m \in CouldBe(heard, frame) : IsFrameOf(frame, m)
    <3>1. read = TRUE
      BY <1>1, <2>1, Zenon DEF Carried
    <3>2. frame \in Frame /\ heard = Decode(frame)
      BY <1>1, <2>1, <3>1, Traffic DEF Carried
    <3>3. Decode(frame) # Failed => \E m \in CouldBe(Decode(frame), frame) : IsFrameOf(frame, m)
      BY <3>2, Decoded
    <3> QED BY <2>1, <3>2, <3>3, Zenon
  <2> QED BY <2>1, Zenon DEF NothingReadIntoFrame
<1> QED BY <1>1, CarriedInvariant, PTL
=============================================================================
