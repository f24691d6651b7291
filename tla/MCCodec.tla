------------------------------ MODULE MCCodec ------------------------------
(***************************************************************************)
(* An instance of MessageCodec for TLC: bytes are 0..3, so that 3 is the   *)
(* longest text of a binary frame and the byte no text has, and a type of  *)
(* frame there is not.                                                     *)
(***************************************************************************)
EXTENDS MessageCodec

Reply1    == <<0, 1>>
Heartbeat == <<1, 1>>
Names     == {Reply1, Heartbeat}
Topic0    == <<0>>
Ok1       == <<1>>

(* Empty, short, at the longest and one too long.                          *)
Texts     == {<<>>, <<1>>, <<0, 2, 0>>}
TooLong   == <<0, 0, 0, 0>>
Events    == {<<2>>, Reply1, Heartbeat, <<1, 1, 1>>}
Object    == [json |-> "value", value |-> CHOOSE v \in Json : TRUE]
Bodies    == {Binary(<<>>), Binary(<<3, 0>>), Value(Object)}

Sent(texts, events) ==
  [kind : {"push"}, join_reference : texts, reference : texts \cup {None}, topic : texts,
   event : events, payload : Bodies]
  \cup [kind : {"broadcast"}, topic : texts, event : events, payload : Bodies]
Replies(statuses) ==
  [kind : {"reply"}, join_reference : Texts, reference : Texts, topic : Texts,
   event : {Reply1}, status : statuses, payload : Bodies]
Controls(events) ==
  [kind : {"control"}, event : events, payload : Bodies, reference : Texts \cup {None}]

ToServer == Sent(Texts \cup {TooLong}, Events \cup {TooLong}) \cup Replies({"ok"})
            \cup Controls(Events \cup {TooLong})
ToClient == {m \in Sent(Texts, Events) \cup Replies({Ok1, <<>>, <<0, 1, 2>>})
                   \cup Controls(Names) : ServersOwn(m)}

(* Every binary frame of up to five bytes, and longer ones of small sizes; *)
(* JSON arrays with every kind of element at every place.                  *)
Bytes(n, bytes) == {Binary(b) : b \in UNION {[1..k -> bytes] : k \in 0..n}}
Elements == {Null, String(<<1>>), Object}
Arrays ==
  {<<a, b, c, d, e>> : a \in Elements, b \in Elements, c \in Elements,
     d \in {String(t) : t \in Events} \cup {Null},
     e \in {Object, Null, ReplyObject(Ok1, Object), ReplyObject(<<>>, Object)}}
Lengths == {<<>>, <<Null, Null, String(<<1>>), String(<<2>>)>>,
            <<Null, Null, String(<<1>>), String(<<2>>), Object, Null>>}
Foreign == Bytes(5, Byte) \cup Bytes(7, {0, 1, 2})
           \cup {[type |-> "text", fields |-> f] : f \in Arrays \cup Lengths}
=============================================================================
