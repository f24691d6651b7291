---------------------------- MODULE MessageCodec ----------------------------
(***************************************************************************)
(* How a `Message` becomes a WebSocket frame and a frame a message         *)
(* (src/rust/message.rs).                                                  *)
(*                                                                         *)
(* Messages with a binary payload go in binary frames: a type, the sizes   *)
(* of some texts, one byte each, the texts and the payload.  All others go *)
(* as the JSON array of the V2 serializer.  The frames of a client and of  *)
(* a server have different texts in them.  The server is the environment.  *)
(***************************************************************************)
EXTENDS Integers, Sequences

CONSTANTS MaxByte,       \* the largest byte (255), which is in no UTF-8 text
          PhoenixEvent,  \* the names of the PhoenixEvents
          PhxReply,      \* the name of PhoenixEvent::Reply
          Phoenix,       \* the topic of control messages
          OkStatus,      \* the status of a reply that is ReplyStatus::Ok
          Json,          \* JSON values that are neither null, strings nor replies
          None,          \* no reference
          ClientMessage, \* what the client sends
          ServerMessage, \* what the server sends, with a status that is a text
          ForeignFrame   \* frames a peer might send that no serializer made

(* The types of binary frames, 0 to 2, are bytes.                          *)
ASSUME MaxByteAssumption == MaxByte \in Nat \ {0, 1}

Byte == 0..MaxByte
Text == Seq(0..(MaxByte - 1))
IsText(s) == \A i \in 1..Len(s) : s[i] # MaxByte

ASSUME NameAssumption ==
  /\ PhoenixEvent \subseteq Text /\ PhxReply \in PhoenixEvent
  /\ Phoenix \in Text /\ OkStatus \in Text
  /\ None \notin Text

(* JSON values, as far as decode_json looks into them.                     *)
Null                  == [json |-> "null"]
String(t)             == [json |-> "string", text |-> t]
ReplyObject(s, value) == [json |-> "reply", status |-> s, response |-> value]
JsonValue == [json : {"value"}, value : Json]
             \cup [json : {"reply"}, status : Text, response : [json : {"value"}, value : Json]]
Field == {Null} \cup [json : {"string"}, text : Text] \cup JsonValue

Value(v)  == [type |-> "value", value |-> v]
Binary(b) == [type |-> "binary", bytes |-> b]
Payload == [type : {"value"}, value : Field] \cup [type : {"binary"}, bytes : Seq(Byte)]

Control(event, payload, ref) ==
  [kind |-> "control", event |-> event, payload |-> payload, reference |-> ref]
Broadcast(topic, event, payload) ==
  [kind |-> "broadcast", topic |-> topic, event |-> event, payload |-> payload]
Reply(joinRef, ref, topic, status, payload) ==
  [kind |-> "reply", join_reference |-> joinRef, reference |-> ref, topic |-> topic,
   event |-> PhxReply, status |-> status, payload |-> payload]
Push(joinRef, ref, topic, event, payload) ==
  [kind |-> "push", join_reference |-> joinRef, reference |-> ref, topic |-> topic,
   event |-> event, payload |-> payload]
Failed == [kind |-> "error"]

Optional == Text \cup {None}
Messages(Status) ==
  [kind : {"control"}, event : Text, payload : Payload, reference : Optional]
  \cup [kind : {"broadcast"}, topic : Text, event : Text, payload : Payload]
  \cup [kind : {"reply"}, join_reference : Text, reference : Text, topic : Text,
        event : Text, status : Status, payload : Payload]
  \cup [kind : {"push"}, join_reference : Text, reference : Optional, topic : Text,
        event : Text, payload : Payload]
Message == Messages({"ok", "error"})
Frame == [type : {"binary"}, bytes : Seq(Byte)] \cup [type : {"text"}, fields : Seq(Field)]

-----------------------------------------------------------------------------
(***************************************************************************)
(* Message::encode                                                         *)
(***************************************************************************)
JoinRefOf(m) == IF m.kind \in {"push", "reply"} THEN m.join_reference ELSE None
RefOf(m)     == IF m.kind = "broadcast" THEN None ELSE m.reference
TopicOf(m)   == IF m.kind = "control" THEN Phoenix ELSE m.topic

OrEmpty(t) == IF t = None THEN <<>> ELSE t
OrNull(t)  == IF t = None THEN Null ELSE String(t)

\* Mutant: the longest text a size byte can tell is refused.
FitsBelow(t) == Len(t) < MaxByte
\* Mutant: a text is refused when its size has one more byte than that.
FitsAbove(t) == Len(t) <= MaxByte + 1
(* u8::try_from of the length.                                             *)
Fits(t) == Len(t) <= MaxByte

\* Mutant: the sizes of the two references are swapped.
FrameOfSwapped(jr, ref, topic, event, bytes) ==
  <<0, Len(ref), Len(jr), Len(topic), Len(event)>> \o (jr \o (ref \o (topic \o (event \o bytes))))
(* A frame of the client, which is always a push.                          *)
FrameOf(jr, ref, topic, event, bytes) ==
  <<0, Len(jr), Len(ref), Len(topic), Len(event)>> \o (jr \o (ref \o (topic \o (event \o bytes))))

Refused == [type |-> "refused"]
EncodeBinary(m) ==
  LET jr == OrEmpty(JoinRefOf(m))
      ref == OrEmpty(RefOf(m))
  IN  IF Fits(jr) /\ Fits(ref) /\ Fits(TopicOf(m)) /\ Fits(m.event)
      THEN Binary(FrameOf(jr, ref, TopicOf(m), m.event, m.payload.bytes))
      ELSE Refused

EncodeJson(m) ==
  [type |-> "text",
   fields |-> <<OrNull(JoinRefOf(m)), OrNull(RefOf(m)), String(TopicOf(m)), String(m.event),
                m.payload.value>>]

Encode(m) == IF m.payload.type = "binary" THEN EncodeBinary(m) ELSE EncodeJson(m)

-----------------------------------------------------------------------------
(***************************************************************************)
(* Message::decode                                                         *)
(***************************************************************************)
StatusOf(text) == IF text = OkStatus THEN "ok" ELSE "error"
OrNone(field)  == IF field.json = "null" THEN None ELSE field.text

DecodeJson(f) ==
  IF \/ Len(f) # 5
     \/ f[1].json \notin {"null", "string"} \/ f[2].json \notin {"null", "string"}
     \/ f[3].json # "string" \/ f[4].json # "string"
  THEN Failed
  ELSE LET joinRef == OrNone(f[1])
           ref     == OrNone(f[2])
           topic   == f[3].text
           event   == f[4].text
       IN CASE joinRef = None /\ ref = None -> Broadcast(topic, event, Value(f[5]))
            [] joinRef = None /\ ref # None ->
                 IF event \in PhoenixEvent THEN Control(event, Value(f[5]), ref) ELSE Failed
            [] joinRef # None /\ ref # None /\ event = PhxReply ->
                 IF f[5].json = "reply"
                 THEN Reply(joinRef, ref, topic, StatusOf(f[5].status), Value(f[5].response))
                 ELSE Failed
            [] OTHER -> Push(joinRef, ref, topic, event, Value(f[5]))

\* Mutant: a text that is cut short is taken as far as it goes.
TakeTextShort(rd, n) ==
  LET k == IF n > Len(rd.left) THEN Len(rd.left) ELSE n IN
  IF ~rd.ok THEN rd
  ELSE [ok |-> IsText(SubSeq(rd.left, 1, k)),
        left |-> SubSeq(rd.left, k + 1, Len(rd.left)),
        got |-> Append(rd.got, SubSeq(rd.left, 1, k))]
(* take: the next n bytes, which have to be UTF-8; what has been got is    *)
(* kept beside what is left, until a step fails.                           *)
TakeText(rd, n) ==
  IF ~rd.ok \/ n > Len(rd.left) THEN [rd EXCEPT !.ok = FALSE]
  ELSE [ok |-> IsText(SubSeq(rd.left, 1, n)),
        left |-> SubSeq(rd.left, n + 1, Len(rd.left)),
        got |-> Append(rd.got, SubSeq(rd.left, 1, n))]

(* take_first: the type and n sizes, one byte each.                        *)
Start(b, n) ==
  IF Len(b) <= n THEN [ok |-> FALSE, left |-> b, got |-> <<>>]
  ELSE [ok |-> TRUE, left |-> SubSeq(b, n + 2, Len(b)), got |-> <<>>]

(* The reader after the first texts of a frame that has n of them.         *)
After1(b, n) == TakeText(Start(b, n), b[2])
After2(b, n) == TakeText(After1(b, n), b[3])
After3(b, n) == TakeText(After2(b, n), b[4])
After4(b, n) == TakeText(After3(b, n), b[5])

DecodePush(rd) ==
  IF rd.ok THEN Push(rd.got[1], None, rd.got[2], rd.got[3], Binary(rd.left)) ELSE Failed
DecodeReply(rd) ==
  IF rd.ok THEN Reply(rd.got[1], rd.got[2], rd.got[3], StatusOf(rd.got[4]), Binary(rd.left))
  ELSE Failed
DecodeBroadcast(rd) ==
  IF rd.ok THEN Broadcast(rd.got[1], rd.got[2], Binary(rd.left)) ELSE Failed

\* Mutant: a push is read as the client writes it, with a reference.
DecodeBinaryAsSent(b) ==
  IF b = <<>> THEN Failed
  ELSE CASE b[1] = 0 -> DecodePush(After4(b, 4))
         [] b[1] = 1 -> DecodeReply(After4(b, 4))
         [] b[1] = 2 -> DecodeBroadcast(After2(b, 2))
         [] OTHER    -> Failed
DecodeBinary(b) ==
  IF b = <<>> THEN Failed
  ELSE CASE b[1] = 0 -> DecodePush(After3(b, 3))
         [] b[1] = 1 -> DecodeReply(After4(b, 4))
         [] b[1] = 2 -> DecodeBroadcast(After2(b, 2))
         [] OTHER    -> Failed

Decode(frame) ==
  IF frame.type = "binary" THEN DecodeBinary(frame.bytes) ELSE DecodeJson(frame.fields)

-----------------------------------------------------------------------------
(***************************************************************************)
(* The environment: the V2 serializer of a Phoenix server                  *)
(***************************************************************************)
(* A client's frame is <<0, four sizes>>, the four texts and the payload.  *)
ServerReadsBinary(b) ==
  LET o1 == 5 + b[2]
      o2 == o1 + b[3]
      o3 == o2 + b[4]
      o4 == o3 + b[5]
  IN  <<SubSeq(b, 6, o1), SubSeq(b, o1 + 1, o2), SubSeq(b, o2 + 1, o3),
        SubSeq(b, o3 + 1, o4), SubSeq(b, o4 + 1, Len(b))>>

ServerReads(frame) ==
  IF frame.type = "binary" THEN ServerReadsBinary(frame.bytes) ELSE frame.fields

BytesOf(m) ==
  CASE m.kind = "push" ->
         <<0, Len(m.join_reference), Len(m.topic), Len(m.event)>>
         \o (m.join_reference \o (m.topic \o (m.event \o m.payload.bytes)))
    [] m.kind = "reply" ->
         <<1, Len(m.join_reference), Len(m.reference), Len(m.topic), Len(m.status)>>
         \o (m.join_reference \o (m.reference \o (m.topic \o (m.status \o m.payload.bytes))))
    [] m.kind = "broadcast" ->
         <<2, Len(m.topic), Len(m.event)>> \o (m.topic \o (m.event \o m.payload.bytes))

FieldsOf(m) ==
  <<OrNull(JoinRefOf(m)), OrNull(RefOf(m)), String(TopicOf(m)), String(m.event),
    IF m.kind = "reply" THEN ReplyObject(m.status, m.payload.value) ELSE m.payload.value>>

ServerWrites(m) ==
  IF m.payload.type = "binary" THEN Binary(BytesOf(m)) ELSE [type |-> "text", fields |-> FieldsOf(m)]

(* A binary frame has one byte for a size, and no control message: the     *)
(* server answers heartbeats in JSON, and only to a PhoenixEvent.          *)
ServersOwn(m) ==
  /\ m.kind = "control" => /\ m.payload.type = "value" /\ m.event \in PhoenixEvent
                           /\ m.reference # None
  /\ m.kind = "reply" => /\ m.event = PhxReply
                         /\ m.payload.type = "value" => m.payload.value.json = "value"
  /\ m.kind = "push" /\ m.event = PhxReply => m.reference = None
  /\ m.payload.type = "binary" =>
       /\ Fits(OrEmpty(JoinRefOf(m))) /\ Fits(OrEmpty(RefOf(m)))
       /\ Fits(m.topic) /\ Fits(m.event)
       /\ m.kind = "reply" => Fits(m.status)

ASSUME TrafficAssumption ==
  /\ ClientMessage \subseteq Message
  /\ ServerMessage \subseteq {m \in Messages(Text) : ServersOwn(m)}
  /\ ForeignFrame \subseteq Frame

-----------------------------------------------------------------------------
(***************************************************************************)
(* One frame at a time, of the client, the server or anybody               *)
(***************************************************************************)
VARIABLES
  from,   \* who has the frame made: "nobody", "client", "server" or "foreign"
  said,   \* the message it was made of
  frame,  \* the frame
  read,   \* whether it has been read
  heard   \* what it has been read as
vars == <<from, said, frame, read, heard>>

Nothing == [kind |-> "nothing"]
Init == from = "nobody" /\ said = Nothing /\ frame = Refused /\ read = FALSE /\ heard = Nothing

Sends(who, m, f) ==
  /\ from = "nobody"
  /\ from' = who /\ said' = m /\ frame' = f /\ read' = FALSE /\ heard' = Nothing

ClientSends == \E m \in ClientMessage : Sends("client", m, Encode(m))
ServerSends == \E m \in ServerMessage : Sends("server", m, ServerWrites(m))
PeerSends   == \E f \in ForeignFrame : Sends("foreign", Nothing, f)

Read(what) == /\ ~read /\ read' = TRUE /\ heard' = what
              /\ UNCHANGED <<from, said, frame>>
ServerReceives == from = "client" /\ frame # Refused /\ Read(ServerReads(frame))
ClientReceives == from \in {"server", "foreign"} /\ Read(Decode(frame))

Done == /\ read \/ (from = "client" /\ frame = Refused)
        /\ from' = "nobody" /\ said' = Nothing /\ frame' = Refused
        /\ read' = FALSE /\ heard' = Nothing

Next == ClientSends \/ ServerSends \/ PeerSends \/ ServerReceives \/ ClientReceives \/ Done

Spec == Init /\ [][Next]_vars

-----------------------------------------------------------------------------
(***************************************************************************)
(* Properties                                                              *)
(***************************************************************************)
(* A frame is made of bytes and of JSON, and is read as some message or as *)
(* none: every size that is written is a byte.                             *)
TypeOK ==
  /\ from \in {"nobody", "client", "server", "foreign"}
  /\ frame \in Frame \cup {Refused}
  /\ read \in BOOLEAN
  /\ read /\ from # "client" => heard \in Message \cup {Failed}

(* What the server is to read of a message, an absent reference being the  *)
(* empty text in a binary frame and null in JSON.                          *)
AsServer(m) ==
  IF m.payload.type = "binary"
  THEN <<OrEmpty(JoinRefOf(m)), OrEmpty(RefOf(m)), TopicOf(m), m.event, m.payload.bytes>>
  ELSE <<OrNull(JoinRefOf(m)), OrNull(RefOf(m)), String(TopicOf(m)), String(m.event),
         m.payload.value>>

(* The server reads every message as it was sent, with its texts at the    *)
(* longest a size byte can tell and at the shortest: encode_binary and the *)
(* layout of a server's reader agree on where each text ends.              *)
ServerReadsAsSent == from = "client" /\ read => heard = AsServer(said)

(* A message is refused only when a binary frame cannot carry it: its      *)
(* caller is never given an error for a text of 255 bytes.                 *)
RefusedOnlyTooLong ==
  from = "client" /\ frame = Refused =>
    \E t \in {OrEmpty(JoinRefOf(said)), OrEmpty(RefOf(said)), TopicOf(said), said.event} :
      Len(t) > MaxByte

(* What the client is to make of a message of the server: any status but   *)
(* ok is an error, and a binary push comes without a reference.            *)
AsClient(m) ==
  IF m.kind = "reply" THEN [m EXCEPT !.status = StatusOf(m.status)]
  ELSE IF m.kind = "push" /\ m.payload.type = "binary" THEN [m EXCEPT !.reference = None]
  ELSE m

(* The client makes of every message of the server what it is: replies     *)
(* stay replies to their reference, pushes and broadcasts keep topic and   *)
(* event, in JSON as in binary.                                            *)
ClientReadsAsSent == from = "server" /\ read => heard = AsClient(said)

(* Whatever frame comes, a message is made of it only if it is the frame   *)
(* of that message: one that is cut short, or whose sizes say more than it *)
(* has, is never taken for another channel's or another event.  The topic  *)
(* of a control message is not looked at.                                  *)
StatusTexts(f) ==
  IF f.type = "text" THEN {f.fields[5].status}
  ELSE {SubSeq(f.bytes, i, j) : i \in 1..(Len(f.bytes) + 1), j \in 0..Len(f.bytes)}
CouldBe(m, f) ==
  IF m.kind # "reply" THEN {m}
  ELSE {[m EXCEPT !.status = s] : s \in {t \in StatusTexts(f) : StatusOf(t) = m.status}}
IsFrameOf(f, m) ==
  f = IF m.kind = "control" THEN [ServerWrites(m) EXCEPT !.fields[3] = f.fields[3]]
      ELSE ServerWrites(m)
NothingReadIntoFrame ==
  from = "foreign" /\ read /\ heard # Failed => \E m \in CouldBe(heard, frame) : IsFrameOf(frame, m)
=============================================================================
