---------------------------- MODULE ExchangeProofs ----------------------------
(***************************************************************************)
(* Proofs about Exchange, for any messages and answers, sizes of socket,   *)
(* and interleaving of the client and the worker.                          *)
(***************************************************************************)
EXTENDS Exchange, SequenceTheorems, TLAPS

-----------------------------------------------------------------------------
(* What has been read of a frame F, and what is still to come of it.       *)

Message == (Sends \cup Answers) \ {NULL}
Unit ==
    Nat \cup {Zero} \cup {message.value : message \in Message}
        \cup UNION {Range(message.data) : message \in {m \in Message : m.data # NULL}}
WholeFrame ==
    {F \in [value : Unit, size : {0, 1}, data : Seq(Unit)] : Len(F.data) = F.size}
Carried(at, frame, F, rest) ==
    /\ at = "head" => frame = Nothing /\ rest = Units(F)
    /\ at = "size" => frame = [Nothing EXCEPT !.value = F.value] /\ rest = <<F.size>> \o F.data
    /\ at = "data" => /\ frame = [Nothing EXCEPT !.value = F.value, !.size = 1]
                      /\ F.size = 1 /\ rest = F.data
    /\ at \notin Reading => frame = F

\* What a read makes of a side: it goes on, and takes the next part of F.
WentOn(side, new, next) ==
    \E at \in {"size", "data", next} : \E frame : new = [side EXCEPT !.at = at, !.frame = frame]
TookPart(side, new, next, F, rest) ==
    \E at \in {"size", "data", next} : \E frame :
       new = [side EXCEPT !.at = at, !.frame = frame] /\ Carried(at, frame, F, rest)

Unread == {"connect", "refused", "write", "head"}
Uncalled == {"accept", "call"} \cup Reading
Replied == {"write", "free", "close", "closed"}
ReplyFrame ==
    IF server.answer = NULL THEN [value |-> Zero, size |-> 0, data |-> <<>>]
    ELSE AsFrame(server.answer)

\* The two sides, whatever is sent.
Sides ==
    /\ client = [at |-> client.at, message |-> client.message, out |-> client.out,
                 frame |-> client.frame]
    /\ server = [at |-> server.at, frame |-> server.frame, answer |-> server.answer,
                 response |-> server.response, out |-> server.out]
    /\ client.at \in Unread \cup Reading \cup {"done"}
    /\ server.at \in Uncalled \cup Replied
    /\ client.at \in {"connect", "refused"} <=> server.at = "accept"
    /\ client.at \in {"connect", "refused"} => up = <<>>
    /\ client.at \notin {"connect", "refused"} => client.message \in Sends
    /\ server.answer \in Answers \cup {NULL}
    /\ server.at = "accept" => server.frame = Nothing
    /\ client.at \in Unread => client.frame = Nothing
    /\ server.at \in Uncalled => /\ down = <<>> /\ server.answer = NULL
                                /\ client.at \in Unread

\* The message on its way up, and the reply on its way down.
MessageCarried ==
    client.at \notin {"connect", "refused"} /\ Whole(client.message) =>
        /\ client.out \in Seq(Unit) /\ (client.at = "write" <=> client.out # <<>>)
        /\ server.at \notin {"close", "closed"} =>
              /\ up \in Seq(Unit)
              /\ Carried(server.at, server.frame, AsFrame(client.message), up \o client.out)
ReplyCarried ==
    server.at \in Replied /\ Whole(server.answer) =>
        /\ down \in Seq(Unit) /\ server.out \in Seq(Unit)
        /\ server.at = "write" <=> server.out # <<>>
        /\ Carried(IF client.at = "write" THEN "head" ELSE client.at, client.frame, ReplyFrame,
                   down \o server.out)

ExchangeInv == Sides /\ MessageCarried /\ ReplyCarried

-----------------------------------------------------------------------------
(* Frames and units.                                                       *)

LEMMA FramesWhole ==
    ASSUME MessageAssumption, NEW message \in Message, Whole(message)
    PROVE  /\ AsFrame(message) \in WholeFrame /\ FromFrame(AsFrame(message)) = message
           /\ message = [value |-> message.value, data |-> message.data]
  <1>1. /\ message = [value |-> message.value, data |-> message.data] /\ message # NULL
        /\ message.value \in Unit
        /\ (message.data = NULL \/ message.data \in Seq(Range(message.data)))
    BY DEF MessageAssumption, Message, Unit
  <1>2. CASE message.data = NULL
    <2>1. AsFrame(message) = [value |-> message.value, size |-> 0, data |-> <<>>]
      BY <1>2 DEF AsFrame
    <2>2. <<>> \in Seq(Unit) /\ Len(<<>>) = 0
      OBVIOUS
    <2>3. AsFrame(message) \in WholeFrame
      <3>1. AsFrame(message) \in [value : Unit, size : {0, 1}, data : Seq(Unit)]
        BY <1>1, <2>1, <2>2
      <3> QED
        BY <2>1, <2>2, <3>1 DEF WholeFrame
    <2>4. FromFrame(AsFrame(message)) = [value |-> message.value, data |-> NULL]
      BY <2>1 DEF FromFrame
    <2> QED
      BY <1>1, <1>2, <2>3, <2>4
  <1>3. CASE message.data # NULL
    <2>1. Len(message.data) = 1 /\ message.data \in Seq(Range(message.data))
      BY <1>1, <1>3 DEF Whole
    <2>2. AsFrame(message) = [value |-> message.value, size |-> 1, data |-> message.data]
      BY <1>3, <2>1 DEF AsFrame
    <2>3. Range(message.data) \subseteq Unit
      BY <1>3 DEF Unit
    <2>4. message.data \in Seq(Unit)
      BY <2>1, <2>3
    <2>5. AsFrame(message) \in WholeFrame
      <3>1. AsFrame(message) \in [value : Unit, size : {0, 1}, data : Seq(Unit)]
        BY <1>1, <2>2, <2>4
      <3>2. Len(AsFrame(message).data) = AsFrame(message).size
        BY <2>1, <2>2
      <3> QED
        BY <3>1, <3>2 DEF WholeFrame
    <2>6. FromFrame(AsFrame(message)) = [value |-> message.value, data |-> message.data]
      BY <2>2 DEF FromFrame
    <2> QED
      BY <1>1, <2>5, <2>6
  <1> QED
    BY <1>2, <1>3, <1>1

LEMMA Prefixed ==
    ASSUME NEW x \in Unit, NEW q \in Seq(Unit)
    PROVE  /\ <<x>> \o q \in Seq(Unit) /\ <<x>> \o q # <<>>
           /\ Head(<<x>> \o q) = x /\ Tail(<<x>> \o q) = q
  <1> DEFINE p == <<x>> \o q
  <1>1. /\ <<x>> \in Seq(Unit) /\ p \in Seq(Unit) /\ Len(p) = Len(q) + 1 /\ p[1] = x
        /\ \A i \in 1 .. Len(q) : p[i + 1] = q[i]
    OBVIOUS
  <1> HIDE DEF p
  <1>2. p # <<>> /\ Head(p) = x
    BY <1>1
  <1>3. /\ Tail(p) \in Seq(Unit) /\ Len(Tail(p)) = Len(q)
        /\ \A i \in 1 .. Len(q) : Tail(p)[i] = q[i]
    BY <1>1, <1>2
  <1>4. Tail(p) = q
    BY <1>3, SeqEqual
  <1> QED
    BY <1>1, <1>2, <1>4 DEF p

LEMMA UnitsOf ==
    ASSUME NEW F \in WholeFrame
    PROVE  /\ Units(F) \in Seq(Unit) /\ Units(F) # <<>>
           /\ Head(Units(F)) = F.value /\ Tail(Units(F)) = <<F.size>> \o F.data
           /\ <<F.size>> \o F.data \in Seq(Unit) /\ <<F.size>> \o F.data # <<>>
           /\ Head(<<F.size>> \o F.data) = F.size /\ Tail(<<F.size>> \o F.data) = F.data
           /\ F.size = 0 => F.data = <<>>
           /\ F.size = 1 => F.data # <<>> /\ Tail(F.data) = <<>> /\ F.data = <<Head(F.data)>>
  <1>1. F.value \in Unit /\ F.size \in {0, 1} /\ F.size \in Unit /\ F.data \in Seq(Unit)
        /\ Len(F.data) = F.size /\ F = [value |-> F.value, size |-> F.size, data |-> F.data]
    BY DEF WholeFrame, Unit
  <1>2. /\ Units(F) \in Seq(Unit) /\ Units(F) # <<>>
        /\ Head(Units(F)) = F.value /\ Tail(Units(F)) = <<F.size>> \o F.data
    BY <1>1 DEF Units
  <1>3. /\ <<F.size>> \o F.data \in Seq(Unit) /\ <<F.size>> \o F.data # <<>>
        /\ Head(<<F.size>> \o F.data) = F.size /\ Tail(<<F.size>> \o F.data) = F.data
    BY <1>1, Prefixed
  <1>4. F.size = 0 => F.data = <<>>
    BY <1>1
  <1>5. F.size = 1 => F.data # <<>> /\ Tail(F.data) = <<>> /\ F.data = <<Head(F.data)>>
    <2> SUFFICES ASSUME F.size = 1
                 PROVE  F.data # <<>> /\ Tail(F.data) = <<>> /\ F.data = <<Head(F.data)>>
      OBVIOUS
    <2>1. F.data # <<>> /\ Head(F.data) = F.data[1] /\ F.data[1] \in Unit
      BY <1>1
    <2>2. Tail(F.data) \in Seq(Unit) /\ Len(Tail(F.data)) = 0
      BY <1>1, <2>1, HeadTailProperties
    <2>3. Tail(F.data) = <<>>
      BY <2>2, EmptySeq
    <2>4. <<F.data[1]>> \in Seq(Unit) /\ Len(<<F.data[1]>>) = 1
      BY <2>1
    <2>5. \A i \in 1 .. 1 : F.data[i] = <<F.data[1]>>[i]
      OBVIOUS
    <2>6. F.data = <<F.data[1]>>
      BY <1>1, <2>4, <2>5, SeqEqual
    <2> QED
      BY <2>1, <2>3, <2>6
  <1> QED
    BY <1>2, <1>3, <1>4, <1>5

LEMMA OneUnit ==
    ASSUME NEW channel \in Seq(Unit), NEW closed, NEW units \in Found(channel, 1, closed),
           closed => channel # <<>>
    PROVE  /\ channel # <<>> /\ units = <<Head(channel)>> /\ Len(units) = 1
           /\ SubSeq(channel, Len(units) + 1, Len(channel)) = Tail(channel)
  <1>1. PICK k \in 1 .. (IF 1 < Len(channel) THEN 1 ELSE Len(channel)) : units = SubSeq(channel, 1, k)
    BY DEF Found
  <1>2. k = 1 /\ Len(channel) >= 1
    <2>1. Len(channel) \in Nat
      OBVIOUS
    <2> QED
      BY <1>1, <2>1
  <1>3. channel # <<>> /\ Head(channel) = channel[1] /\ 1 \in 1 .. Len(channel)
    BY <1>2
  <1>4. /\ SubSeq(channel, 1, 1) = SubSeq(channel, 1, 0) \o <<channel[1]>>
        /\ SubSeq(channel, 1, 0) = <<>>
    <2>1. 1 \in 1 .. Len(channel) /\ 1 - 1 = 0
      BY <1>3
    <2>2. SubSeq(channel, 1, 1) = SubSeq(channel, 1, 1 - 1) \o <<channel[1]>>
      BY <2>1, SubSeqRecursiveSecond
    <2> QED
      BY <2>2
  <1>5. channel[1] \in Unit
    BY <1>3
  <1>6. units = <<channel[1]>>
    <2>1. <<channel[1]>> \in Seq(Unit)
      BY <1>5
    <2> QED
      BY <1>1, <1>2, <1>4, <2>1, ConcatEmptySeq
  <1>7. SubSeq(channel, 2, Len(channel)) = Tail(channel)
    BY <1>3, TailIsSubSeq
  <1> QED
    BY <1>3, <1>6, <1>7

\* A unit that moves from what is to be written to what is in flight, and one
\* that is read.
LEMMA Moved ==
    ASSUME NEW channel \in Seq(Unit), NEW out \in Seq(Unit), out # <<>>
    PROVE  /\ Append(channel, Head(out)) \in Seq(Unit) /\ Tail(out) \in Seq(Unit)
           /\ Append(channel, Head(out)) \o Tail(out) = channel \o out
           /\ Len(out) = 1 <=> Tail(out) = <<>>
  <1>1. /\ Head(out) \in Unit /\ Head(out) = out[1] /\ Tail(out) \in Seq(Unit) /\ Len(out) \in Nat
        /\ Len(Tail(out)) = Len(out) - 1 /\ \A i \in 1 .. Len(out) - 1 : Tail(out)[i] = out[i + 1]
    OBVIOUS
  <1>2. <<Head(out)>> \in Seq(Unit) /\ Append(channel, Head(out)) = channel \o <<Head(out)>>
    BY <1>1, AppendIsConcat
  <1>3. <<Head(out)>> \o Tail(out) = out
    <2> DEFINE joined == <<Head(out)>> \o Tail(out)
    <2>1. joined \in Seq(Unit) /\ Len(joined) = Len(out)
      BY <1>1, <1>2
    <2>2. \A i \in 1 .. Len(out) : joined[i] = out[i]
      BY <1>1, <1>2
    <2> HIDE DEF joined
    <2>3. joined = out
      BY <2>1, <2>2, SeqEqual
    <2> QED
      BY <2>3 DEF joined
  <1>4. Append(channel, Head(out)) \o Tail(out) = channel \o out
    BY <1>1, <1>2, <1>3, ConcatAssociative
  <1>5. Len(out) = 1 <=> Tail(out) = <<>>
    <2>1. ASSUME Len(out) = 1 PROVE Tail(out) = <<>>
      <3>1. Len(Tail(out)) = 0
        BY <1>1, <2>1
      <3> QED
        BY <1>1, <3>1, EmptySeq
    <2>2. ASSUME Tail(out) = <<>> PROVE Len(out) = 1
      <3>1. Len(<<>>) = 0
        OBVIOUS
      <3>2. Len(Tail(out)) = 0
        BY <2>2, <3>1, Zenon
      <3>3. PICK n \in Nat : n = Len(out)
        BY <1>1
      <3>4. n - 1 = 0
        BY <1>1, <3>2, <3>3, Zenon
      <3>5. n = 1
        <4>1. \A k \in Nat : k - 1 = 0 => k = 1
          OBVIOUS
        <4> QED
          BY <3>4, <4>1, Zenon
      <3> QED
        BY <3>3, <3>5, Zenon
    <2> QED
      BY <2>1, <2>2
  <1> QED
    BY <1>1, <1>2, <1>4, <1>5

LEMMA Taken ==
    ASSUME NEW channel \in Seq(Unit), NEW out \in Seq(Unit), channel # <<>>
    PROVE  /\ Tail(channel) \in Seq(Unit) /\ Tail(channel) \o out = Tail(channel \o out)
           /\ Head(channel) = Head(channel \o out)
  <1> DEFINE both == channel \o out
             left == Tail(channel) \o out
  <1>1. /\ both \in Seq(Unit) /\ Len(both) = Len(channel) + Len(out) /\ both # <<>>
        /\ \A i \in 1 .. Len(both) :
              both[i] = IF i <= Len(channel) THEN channel[i] ELSE out[i - Len(channel)]
        /\ Len(channel) \in Nat /\ Len(channel) >= 1 /\ Len(out) \in Nat
    OBVIOUS
  <1>2. /\ Tail(channel) \in Seq(Unit) /\ Len(Tail(channel)) = Len(channel) - 1
        /\ \A i \in 1 .. Len(channel) - 1 : Tail(channel)[i] = channel[i + 1]
    BY <1>1
  <1>3. /\ left \in Seq(Unit) /\ Len(left) = Len(both) - 1
        /\ \A i \in 1 .. Len(both) - 1 :
              left[i] = IF i <= Len(channel) - 1 THEN channel[i + 1] ELSE out[i - Len(channel) + 1]
    BY <1>1, <1>2
  <1>4. /\ Tail(both) \in Seq(Unit) /\ Len(Tail(both)) = Len(both) - 1
        /\ \A i \in 1 .. Len(both) - 1 : Tail(both)[i] = both[i + 1]
    BY <1>1
  <1>5. left = Tail(both)
    <2> HIDE DEF left, both
    <2>1. ASSUME NEW i \in 1 .. Len(both) - 1 PROVE left[i] = Tail(both)[i]
      <3>1. i + 1 \in 1 .. Len(both) /\ Tail(both)[i] = both[i + 1]
        BY <1>1, <1>4
      <3>2. both[i + 1] = IF i + 1 <= Len(channel) THEN channel[i + 1]
                          ELSE out[(i + 1) - Len(channel)]
        BY <1>1, <3>1
      <3>3. left[i] = IF i <= Len(channel) - 1 THEN channel[i + 1] ELSE out[i - Len(channel) + 1]
        BY <1>3
      <3>4. (i + 1) - Len(channel) = i - Len(channel) + 1
            /\ (i + 1 <= Len(channel) <=> i <= Len(channel) - 1)
        BY <1>1, <3>1
      <3> QED
        BY <3>1, <3>2, <3>3, <3>4
    <2> QED
      BY <1>3, <1>4, <2>1, SeqEqual
  <1>6. Head(channel) = Head(both)
    BY <1>1
  <1> QED
    BY <1>2, <1>5, <1>6

-----------------------------------------------------------------------------
(* A read of a frame.                                                      *)

LEMMA FilledWhole ==
    ASSUME NEW x \in Unit
    PROVE  Filled(<<x>>, 1) = <<x>> /\ Filled(<<x>>, 1)[1] = x
  <1>1. <<x>> \in Seq(Unit) /\ Len(<<x>>) = 1 /\ <<x>>[1] = x
    OBVIOUS
  <1>2. [i \in 1 .. 1 - Len(<<x>>) |-> Garbage] = <<>>
    <2>1. 1 .. 1 - Len(<<x>>) = {}
      BY <1>1
    <2>2. [i \in {} |-> Garbage] = <<>>
      OBVIOUS
    <2> QED
      BY <2>1, <2>2
  <1>3. <<x>> \o <<>> = <<x>>
    BY <1>1, ConcatEmptySeq
  <1> QED
    BY <1>1, <1>2, <1>3 DEF Filled

\* Whatever was found, a read moves on and changes nothing but the frame.
LEMMA ReadShape ==
    ASSUME NEW side, NEW channel, NEW units, NEW next, side.at \in Reading
    PROVE  WentOn(side, ReadInto(side, channel, units, next), next)
  <1>1. CASE side.at = "head"
    <2>1. ReadInto(side, channel, units, next)
            = [side EXCEPT !.at = "size",
                           !.frame = [side.frame EXCEPT !.value = Filled(units, 1)[1]]]
      BY <1>1 DEF ReadInto
    <2> QED
      BY <2>1 DEF WentOn
  <1>2. CASE side.at = "size" /\ units = <<>>
    <2>1. ReadInto(side, channel, units, next)
            = [side EXCEPT !.at = "data", !.frame = [side.frame EXCEPT !.size = 1]]
      BY <1>2 DEF ReadInto
    <2> QED
      BY <2>1 DEF WentOn
  <1>3. CASE side.at = "size" /\ units # <<>>
    <2>1. ReadInto(side, channel, units, next)
            = [side EXCEPT !.at = IF units[1] = 0 THEN next ELSE "data",
                           !.frame = [side.frame EXCEPT !.size = units[1]]]
      BY <1>3 DEF ReadInto
    <2> QED
      BY <2>1 DEF WentOn
  <1>4. CASE side.at = "data"
    <2>1. ReadInto(side, channel, units, next)
            = [side EXCEPT !.at = next,
                           !.frame = [side.frame EXCEPT !.data = Filled(units, side.frame.size)]]
      BY <1>4 DEF ReadInto
    <2> QED
      BY <2>1 DEF WentOn
  <1> QED
    BY <1>1, <1>2, <1>3, <1>4 DEF Reading

LEMMA Takes ==
    ASSUME NEW side, NEW next, NEW F, NEW rest, NEW at \in {"size", "data", next}, NEW frame,
           Carried(at, frame, F, rest)
    PROVE  TookPart(side, [side EXCEPT !.at = at, !.frame = frame], next, F, rest)
  BY DEF TookPart

\* As long as a frame of at most one unit is on its way, a read takes its next
\* part.
LEMMA ReadStep ==
    ASSUME NEW side, NEW next, next \notin Reading, side.at \in Reading,
           NEW F \in WholeFrame, NEW channel \in Seq(Unit), NEW out \in Seq(Unit),
           Carried(side.at, side.frame, F, channel \o out),
           NEW closed, closed => out = <<>>, NEW units \in Found(channel, Wanted(side), closed)
    PROVE  /\ SubSeq(channel, Len(units) + 1, Len(channel)) \in Seq(Unit)
           /\ TookPart(side, ReadInto(side, channel, units, next), next, F,
                       SubSeq(channel, Len(units) + 1, Len(channel)) \o out)
  <1> DEFINE rest == channel \o out
             left == SubSeq(channel, Len(units) + 1, Len(channel))
  <1>1. /\ F.value \in Unit /\ F.size \in {0, 1}
        /\ F = [value |-> F.value, size |-> F.size, data |-> F.data]
    BY DEF WholeFrame
  <1>2. rest # <<>> /\ Wanted(side) = 1
    BY UnitsOf, <1>1 DEF Carried, Reading, Wanted, Nothing
  <1>3. closed => channel # <<>>
    BY <1>2
  <1>4. /\ channel # <<>> /\ units = <<Head(channel)>> /\ left = Tail(channel)
    BY <1>2, <1>3, OneUnit
  <1>5. /\ left \in Seq(Unit) /\ left \o out = Tail(rest) /\ units = <<Head(rest)>>
        /\ Head(rest) \in Unit
    BY <1>4, Taken
  <1> HIDE DEF rest, left
  <1>6. Filled(units, 1) = units /\ units[1] = Head(rest) /\ units # <<>>
    BY <1>5, FilledWhole
  <1>7. CASE side.at = "head"
    <2>1. /\ side.frame = Nothing /\ Head(rest) = F.value
          /\ Tail(rest) = <<F.size>> \o F.data
      BY <1>7, UnitsOf DEF Carried, rest
    <2>2. ReadInto(side, channel, units, next)
            = [side EXCEPT !.at = "size", !.frame = [Nothing EXCEPT !.value = F.value]]
      BY <1>6, <1>7, <2>1 DEF ReadInto
    <2>3. Carried("size", [Nothing EXCEPT !.value = F.value], F, left \o out)
      BY <1>5, <2>1 DEF Carried, Reading
    <2>4. TookPart(side, [side EXCEPT !.at = "size", !.frame = [Nothing EXCEPT !.value = F.value]],
                   next, F, left \o out)
      BY <2>3, Takes
    <2> QED
      BY <1>5, <2>2, <2>4 DEF left
  <1>8. CASE side.at = "size"
    <2>1. /\ side.frame = [Nothing EXCEPT !.value = F.value] /\ Head(rest) = F.size
          /\ Tail(rest) = F.data
      BY <1>8, UnitsOf DEF Carried, rest
    <2> DEFINE at == IF F.size = 0 THEN next ELSE "data"
               frame == [Nothing EXCEPT !.value = F.value, !.size = F.size]
    <2>2. ReadInto(side, channel, units, next) = [side EXCEPT !.at = at, !.frame = frame]
      BY <1>6, <1>8, <2>1 DEF ReadInto
    <2>3. Carried(at, frame, F, left \o out)
      <3>1. CASE F.size = 0
        <4>1. F.data = <<>>
          BY <3>1, UnitsOf
        <4>2. frame = [value |-> F.value, size |-> F.size, data |-> <<>>]
          <5>1. [Nothing EXCEPT !.value = F.value]
                  = [value |-> F.value, size |-> 0, data |-> <<>>]
            BY DEF Nothing
          <5>2. frame = [[Nothing EXCEPT !.value = F.value] EXCEPT !.size = F.size]
            OBVIOUS
          <5>3. \A v, s : [[value |-> v, size |-> 0, data |-> <<>>] EXCEPT !.size = s]
                            = [value |-> v, size |-> s, data |-> <<>>]
            OBVIOUS
          <5> QED
            BY <5>1, <5>2, <5>3, Zenon
        <4>3. frame = F
          BY <1>1, <4>1, <4>2, Zenon
        <4> QED
          BY <3>1, <4>3 DEF Carried, Reading
      <3>2. CASE F.size = 1
        BY <1>5, <2>1, <3>2 DEF Carried, Reading
      <3> QED
        BY <1>1, <3>1, <3>2
    <2>4. at \in {"size", "data", next}
      OBVIOUS
    <2> HIDE DEF at, frame
    <2>5. TookPart(side, [side EXCEPT !.at = at, !.frame = frame], next, F, left \o out)
      BY <2>3, <2>4, Takes
    <2> QED
      BY <1>5, <2>2, <2>5 DEF left
  <1>9. CASE side.at = "data"
    <2>1. /\ side.frame = [Nothing EXCEPT !.value = F.value, !.size = 1]
          /\ F.size = 1 /\ rest = F.data
      BY <1>9 DEF Carried, rest, Reading
    <2>2. units = F.data
      BY <1>5, <2>1, UnitsOf
    <2>3. ReadInto(side, channel, units, next) = [side EXCEPT !.at = next, !.frame = F]
      <3>1. side.frame.size = 1
        BY <2>1 DEF Nothing
      <3>2. [side.frame EXCEPT !.data = F.data] = F
        BY <1>1, <2>1 DEF Nothing
      <3> QED
        BY <1>6, <1>9, <2>2, <3>1, <3>2 DEF ReadInto
    <2>4. Carried(next, F, F, left \o out)
      BY DEF Carried, Reading
    <2>5. TookPart(side, [side EXCEPT !.at = next, !.frame = F], next, F, left \o out)
      BY <2>4, Takes
    <2> QED
      BY <1>5, <2>3, <2>5 DEF left
  <1> QED
    BY <1>7, <1>8, <1>9 DEF Reading

-----------------------------------------------------------------------------
(* The invariant holds at first, and every step keeps it.                  *)

LEMMA InitInv ==
    ASSUME Init
    PROVE  ExchangeInv
  BY DEF Init, ExchangeInv, Sides, MessageCarried, ReplyCarried, Unread, Uncalled, Replied, Reading

LEMMA ConnectKeeps ==
    ASSUME MessageAssumption, ExchangeInv, ClientConnect
    PROVE  ExchangeInv'
  <1>1. Sides /\ up = <<>> /\ server.at = "accept" /\ client.at = "connect"
    BY DEF ExchangeInv, Sides, ClientConnect
  <1>2. PICK message \in Sends :
           \/ /\ client' = [client EXCEPT !.at = "write", !.message = message,
                                          !.out = Units(AsFrame(message))]
              /\ server' = [server EXCEPT !.at = "head"]
           \/ client' = [client EXCEPT !.at = "refused"] /\ UNCHANGED server
    BY DEF ClientConnect
  <1>3. UNCHANGED <<up, down, freed>>
    BY DEF ClientConnect
  <1>4. CASE client' = [client EXCEPT !.at = "refused"] /\ UNCHANGED server
    <2>1. Sides'
      BY <1>1, <1>3, <1>4 DEF Sides, Unread, Uncalled, Replied, Reading
    <2>2. MessageCarried' /\ ReplyCarried'
      BY <1>1, <1>4 DEF MessageCarried, ReplyCarried, Replied, Sides
    <2> QED
      BY <2>1, <2>2 DEF ExchangeInv
  <1>5. CASE /\ client' = [client EXCEPT !.at = "write", !.message = message,
                                         !.out = Units(AsFrame(message))]
             /\ server' = [server EXCEPT !.at = "head"]
    <2>1. /\ client'.at = "write" /\ client'.message = message
          /\ client'.out = Units(AsFrame(message)) /\ client'.frame = Nothing
          /\ server'.at = "head" /\ server'.frame = Nothing
      BY <1>1, <1>5 DEF Sides, Unread
    <2>2. Sides'
      BY <1>1, <1>3, <1>5, <2>1 DEF Sides, Unread, Uncalled, Replied, Reading
    <2>3. MessageCarried'
      <3> SUFFICES ASSUME Whole(message)
                   PROVE  MessageCarried'
        BY <2>1 DEF MessageCarried
      <3>1. AsFrame(message) \in WholeFrame
        BY FramesWhole DEF Message, MessageAssumption
      <3>2. Units(AsFrame(message)) \in Seq(Unit) /\ Units(AsFrame(message)) # <<>>
        BY <3>1, UnitsOf
      <3>3. <<>> \o Units(AsFrame(message)) = Units(AsFrame(message)) /\ <<>> \in Seq(Unit)
        BY <3>2, ConcatEmptySeq
      <3>4. up' = <<>>
        BY <1>1, <1>3
      <3> QED
        BY <2>1, <3>2, <3>3, <3>4 DEF MessageCarried, Carried, Reading
    <2>4. ReplyCarried'
      BY <2>1 DEF ReplyCarried, Replied
    <2> QED
      BY <2>2, <2>3, <2>4 DEF ExchangeInv
  <1> QED
    BY <1>2, <1>4, <1>5

LEMMA WriteKeeps ==
    ASSUME ExchangeInv, ClientWrite
    PROVE  ExchangeInv'
  <1>1. Sides /\ MessageCarried /\ ReplyCarried /\ client.at = "write"
    BY DEF ExchangeInv, ClientWrite
  <1>2. /\ client'.at = IF Len(client.out) = 1 THEN "head" ELSE "write"
        /\ client'.out = Tail(client.out) /\ client'.frame = client.frame
        /\ client'.message = client.message /\ UNCHANGED <<server, down>>
        /\ up' = IF Closed THEN up ELSE Append(up, Head(client.out))
        /\ client' = [at |-> client'.at, message |-> client'.message, out |-> client'.out,
                      frame |-> client'.frame]
    BY <1>1 DEF ClientWrite, Sides
  <1>3. client'.at \in {"head", "write"}
    BY <1>2
  <1>4. Sides'
    BY <1>1, <1>2, <1>3 DEF Sides, Unread, Uncalled, Replied, Reading
  <1>5. MessageCarried'
    <2> SUFFICES ASSUME Whole(client.message)
                 PROVE  MessageCarried'
      BY <1>2 DEF MessageCarried
    <2>1. client.out \in Seq(Unit) /\ client.out # <<>>
      BY <1>1 DEF MessageCarried
    <2>2. client'.out \in Seq(Unit) /\ (client'.at = "write" <=> client'.out # <<>>)
      <3>1. Tail(client.out) \in Seq(Unit) /\ (Len(client.out) = 1 <=> Tail(client.out) = <<>>)
        <4>1. <<>> \in Seq(Unit)
          OBVIOUS
        <4> QED
          BY <2>1, <4>1, Moved
      <3> QED
        BY <1>2, <3>1
    <2>3. ASSUME server.at \notin {"close", "closed"}
          PROVE  /\ up' \in Seq(Unit)
                 /\ Carried(server.at, server.frame, AsFrame(client.message), up' \o client'.out)
      <3>1. /\ up \in Seq(Unit)
            /\ Carried(server.at, server.frame, AsFrame(client.message), up \o client.out)
        BY <1>1, <2>3 DEF MessageCarried
      <3>2. up' = Append(up, Head(client.out))
        BY <1>2, <2>3 DEF Closed
      <3>3. up' \in Seq(Unit) /\ up' \o client'.out = up \o client.out
        BY <1>2, <2>1, <3>1, <3>2, Moved
      <3> QED
        BY <3>1, <3>3
    <2> QED
      BY <1>2, <2>2, <2>3 DEF MessageCarried
  <1>6. ReplyCarried'
    <2>1. (IF client.at = "write" THEN "head" ELSE client.at) = "head"
      BY <1>1
    <2>2. (IF client'.at = "write" THEN "head" ELSE client'.at) = "head"
      BY <1>3
    <2>3. ReplyFrame' = ReplyFrame
      BY <1>2 DEF ReplyFrame
    <2> QED
      BY <1>1, <1>2, <2>1, <2>2, <2>3 DEF ReplyCarried
  <1> QED
    BY <1>4, <1>5, <1>6 DEF ExchangeInv

LEMMA ReplyWhole ==
    ASSUME MessageAssumption, server.answer \in Answers \cup {NULL}, Whole(server.answer)
    PROVE  ReplyFrame \in WholeFrame
  <1>1. CASE server.answer = NULL
    <2>1. ReplyFrame = [value |-> Zero, size |-> 0, data |-> <<>>]
      BY <1>1 DEF ReplyFrame
    <2>2. <<>> \in Seq(Unit) /\ Len(<<>>) = 0 /\ Zero \in Unit
      BY DEF Unit
    <2>3. ReplyFrame \in [value : Unit, size : {0, 1}, data : Seq(Unit)]
      BY <2>1, <2>2
    <2> QED
      BY <2>1, <2>2, <2>3 DEF WholeFrame
  <1>2. CASE server.answer # NULL
    BY <1>2, FramesWhole DEF ReplyFrame, Message
  <1> QED
    BY <1>1, <1>2

LEMMA ClientReadKeeps ==
    ASSUME MessageAssumption, ExchangeInv, ClientRead
    PROVE  ExchangeInv'
  <1>1. Sides /\ MessageCarried /\ ReplyCarried /\ client.at \in Reading
    BY DEF ExchangeInv, ClientRead
  <1>2. PICK units \in Found(down, Wanted(client), Closed) :
           /\ client' = ReadInto(client, down, units, "done")
           /\ down' = SubSeq(down, Len(units) + 1, Len(down))
    BY DEF ClientRead
  <1>3. UNCHANGED <<server, up>>
    BY DEF ClientRead
  <1>4. server.at \in Replied
    <2> SUFFICES ASSUME server.at \in Uncalled
                 PROVE  FALSE
      BY <1>1 DEF Sides
    <2>1. down = <<>> /\ client.at = "head" /\ ~Closed
      BY <1>1 DEF Sides, Unread, Reading, Closed, Uncalled
    <2>2. Wanted(client) = 1 /\ Len(down) = 0
      BY <2>1 DEF Wanted
    <2>3. Found(down, Wanted(client), Closed) = {}
      BY <2>1, <2>2 DEF Found
    <2> QED
      BY <1>2, <2>3
  <1>5. ASSUME NEW at \in {"size", "data", "done"}, NEW frame,
               client' = [client EXCEPT !.at = at, !.frame = frame]
        PROVE  Sides' /\ MessageCarried'
    <2>1. client'.at = at /\ client'.message = client.message /\ client'.out = client.out
      BY <1>1, <1>5 DEF Sides
    <2>2. Sides'
      BY <1>1, <1>3, <1>4, <1>5, <2>1 DEF Sides, Unread, Uncalled, Replied, Reading
    <2>3. client.at \notin {"connect", "refused", "write"} /\ client'.at # "write"
      BY <1>1, <2>1 DEF Reading
    <2>4. MessageCarried'
      BY <1>1, <1>3, <2>1, <2>3 DEF MessageCarried
    <2> QED
      BY <2>2, <2>4
  <1>6. CASE Whole(server.answer)
    <2>1. /\ down \in Seq(Unit) /\ server.out \in Seq(Unit)
          /\ server.at = "write" <=> server.out # <<>>
          /\ Carried(client.at, client.frame, ReplyFrame, down \o server.out)
      <3>1. (IF client.at = "write" THEN "head" ELSE client.at) = client.at
        BY <1>1 DEF Reading
      <3> QED
        BY <1>1, <1>4, <1>6, <3>1 DEF ReplyCarried
    <2>2. ReplyFrame \in WholeFrame
      BY <1>1, <1>6, ReplyWhole DEF Sides
    <2>3. Closed => server.out = <<>>
      BY <2>1 DEF Closed
    <2>4. "done" \notin Reading
      BY DEF Reading
    <2>5. PICK at \in {"size", "data", "done"} : \E frame :
             /\ client' = [client EXCEPT !.at = at, !.frame = frame]
             /\ Carried(at, frame, ReplyFrame, down' \o server.out)
      <3>1. /\ SubSeq(down, Len(units) + 1, Len(down)) \in Seq(Unit)
            /\ TookPart(client, ReadInto(client, down, units, "done"), "done", ReplyFrame,
                        SubSeq(down, Len(units) + 1, Len(down)) \o server.out)
        BY <1>1, <1>2, <2>1, <2>2, <2>3, <2>4, ReadStep
      <3>2. TookPart(client, client', "done", ReplyFrame, down' \o server.out)
        BY <1>2, <3>1
      <3> QED
        BY <3>2 DEF TookPart
    <2>a. PICK frame : /\ client' = [client EXCEPT !.at = at, !.frame = frame]
                       /\ Carried(at, frame, ReplyFrame, down' \o server.out)
      BY <2>5
    <2>6. Sides' /\ MessageCarried'
      BY <1>5, <2>a
    <2>7. client'.at = at /\ client'.frame = frame
      BY <1>1, <2>a DEF Sides
    <2>8. ReplyFrame' = ReplyFrame
      BY <1>3 DEF ReplyFrame
    <2>9. (IF client'.at = "write" THEN "head" ELSE client'.at) = at
      BY <2>7
    <2>10. down' \in Seq(Unit)
      BY <1>1, <1>2, <2>1, <2>2, <2>3, <2>4, ReadStep
    <2>11. ReplyCarried'
      BY <1>3, <2>1, <2>a, <2>7, <2>8, <2>9, <2>10 DEF ReplyCarried
    <2> QED
      BY <2>6, <2>11 DEF ExchangeInv
  <1>7. CASE ~Whole(server.answer)
    <2>1. PICK at \in {"size", "data", "done"} : \E frame :
             /\ client' = [client EXCEPT !.at = at, !.frame = frame]
      <3>1. WentOn(client, ReadInto(client, down, units, "done"), "done")
        BY <1>1, ReadShape
      <3>2. WentOn(client, client', "done")
        BY <1>2, <3>1
      <3> QED
        BY <3>2 DEF WentOn
    <2>2. Sides' /\ MessageCarried'
      BY <1>5, <2>1
    <2>3. ReplyCarried'
      BY <1>3, <1>7 DEF ReplyCarried
    <2> QED
      BY <2>2, <2>3 DEF ExchangeInv
  <1> QED
    BY <1>6, <1>7

LEMMA ServerReadKeeps ==
    ASSUME MessageAssumption, ExchangeInv, ServerRead
    PROVE  ExchangeInv'
  <1>1. Sides /\ MessageCarried /\ ReplyCarried /\ server.at \in Reading
    BY DEF ExchangeInv, ServerRead
  <1>2. PICK units \in Found(up, Wanted(server), FALSE) :
           /\ server' = ReadInto(server, up, units, "call")
           /\ up' = SubSeq(up, Len(units) + 1, Len(up))
    BY DEF ServerRead
  <1>3. UNCHANGED <<client, down>>
    BY DEF ServerRead
  <1>4. ASSUME NEW at \in {"size", "data", "call"}, NEW frame,
               server' = [server EXCEPT !.at = at, !.frame = frame]
        PROVE  Sides' /\ ReplyCarried'
    <2>1. server'.at = at /\ server'.answer = server.answer /\ server'.out = server.out
      BY <1>1, <1>4 DEF Sides
    <2>2. Sides'
      BY <1>1, <1>3, <1>4, <2>1 DEF Sides, Unread, Uncalled, Replied, Reading
    <2>3. ReplyCarried'
      BY <2>1 DEF ReplyCarried, Replied
    <2> QED
      BY <2>2, <2>3
  <1>5. client.at \notin {"connect", "refused"} /\ client.message \in Message
    <2>1. server.at # "accept"
      BY <1>1 DEF Reading
    <2> QED
      BY <1>1, <2>1 DEF Sides, Message, MessageAssumption
  <1>6. CASE Whole(client.message)
    <2>1. /\ client.out \in Seq(Unit) /\ (client.at = "write" <=> client.out # <<>>)
          /\ up \in Seq(Unit)
          /\ Carried(server.at, server.frame, AsFrame(client.message), up \o client.out)
      BY <1>1, <1>5, <1>6 DEF MessageCarried, Reading
    <2>2. AsFrame(client.message) \in WholeFrame
      BY <1>5, <1>6, FramesWhole
    <2>3. "call" \notin Reading
      BY DEF Reading
    <2>4. PICK at \in {"size", "data", "call"} : \E frame :
             /\ server' = [server EXCEPT !.at = at, !.frame = frame]
             /\ Carried(at, frame, AsFrame(client.message), up' \o client.out)
      <3>1. /\ SubSeq(up, Len(units) + 1, Len(up)) \in Seq(Unit)
            /\ TookPart(server, ReadInto(server, up, units, "call"), "call", AsFrame(client.message),
                        SubSeq(up, Len(units) + 1, Len(up)) \o client.out)
        BY <1>1, <1>2, <2>1, <2>2, <2>3, ReadStep
      <3>2. TookPart(server, server', "call", AsFrame(client.message), up' \o client.out)
        BY <1>2, <3>1
      <3> QED
        BY <3>2 DEF TookPart
    <2>a. PICK frame : /\ server' = [server EXCEPT !.at = at, !.frame = frame]
                       /\ Carried(at, frame, AsFrame(client.message), up' \o client.out)
      BY <2>4
    <2>5. Sides' /\ ReplyCarried'
      BY <1>4, <2>a
    <2>6. server'.at = at /\ server'.frame = frame
      BY <1>1, <2>a DEF Sides
    <2>7. up' \in Seq(Unit)
      BY <1>1, <1>2, <2>1, <2>2, <2>3, ReadStep
    <2>8. MessageCarried'
      BY <1>3, <2>1, <2>a, <2>6, <2>7 DEF MessageCarried
    <2> QED
      BY <2>5, <2>8 DEF ExchangeInv
  <1>7. CASE ~Whole(client.message)
    <2>1. PICK at \in {"size", "data", "call"} : \E frame :
             /\ server' = [server EXCEPT !.at = at, !.frame = frame]
      <3>1. WentOn(server, ReadInto(server, up, units, "call"), "call")
        BY <1>1, ReadShape
      <3>2. WentOn(server, server', "call")
        BY <1>2, <3>1
      <3> QED
        BY <3>2 DEF WentOn
    <2>2. Sides' /\ ReplyCarried'
      BY <1>4, <2>1
    <2>3. MessageCarried'
      BY <1>3, <1>7 DEF MessageCarried
    <2> QED
      BY <2>2, <2>3 DEF ExchangeInv
  <1> QED
    BY <1>6, <1>7

LEMMA CallKeeps ==
    ASSUME MessageAssumption, ExchangeInv, ServerCall
    PROVE  ExchangeInv'
  <1>1. Sides /\ MessageCarried /\ ReplyCarried /\ server.at = "call"
    BY DEF ExchangeInv, ServerCall
  <1>2. PICK answer, response :
           /\ answer \in Answers \cup {NULL}
           /\ server' = [server EXCEPT !.at = "write", !.answer = answer, !.response = response,
                                       !.out = IF answer = NULL THEN Zeros
                                               ELSE Units(AsFrame(answer))]
    <2>1. PICK answer \in Answers :
             IF answer = NULL
             THEN \E size \in {0, 1} :
                     server' = [server EXCEPT !.at = "write", !.out = Zeros,
                                              !.response = [Nothing EXCEPT !.size = size]]
             ELSE server' = [server EXCEPT !.at = "write", !.answer = answer,
                                           !.out = Units(AsFrame(answer)),
                                           !.response = AsFrame(answer)]
      BY DEF ServerCall
    <2>2. server.answer = NULL
      BY <1>1 DEF Sides, Uncalled
    <2>3. CASE answer = NULL
      <3>1. PICK size \in {0, 1} :
               server' = [server EXCEPT !.at = "write", !.out = Zeros,
                                        !.response = [Nothing EXCEPT !.size = size]]
        BY <2>1, <2>3
      <3>2. server' = [server EXCEPT !.at = "write", !.answer = NULL,
                                     !.response = [Nothing EXCEPT !.size = size],
                                     !.out = Zeros]
        BY <1>1, <2>2, <3>1 DEF Sides
      <3> QED
        BY <3>2
    <2>4. CASE answer # NULL
      <3>1. server' = [server EXCEPT !.at = "write", !.answer = answer,
                                     !.response = AsFrame(answer),
                                     !.out = Units(AsFrame(answer))]
        BY <1>1, <2>1, <2>4 DEF Sides
      <3> QED
        BY <2>4, <3>1
    <2> QED
      BY <2>3, <2>4
  <1>3. /\ UNCHANGED <<client, up, down>> /\ server'.at = "write" /\ server'.answer = answer
        /\ server'.frame = server.frame
        /\ server'.out = IF answer = NULL THEN Zeros ELSE Units(AsFrame(answer))
    BY <1>1, <1>2 DEF ServerCall, Sides
  <1>4. Sides'
    BY <1>1, <1>2, <1>3 DEF Sides, Unread, Uncalled, Replied, Reading
  <1>5. MessageCarried'
    BY <1>1, <1>3 DEF MessageCarried, Carried, Reading
  <1>6. ReplyCarried'
    <2> SUFFICES ASSUME Whole(answer)
                 PROVE  ReplyCarried'
      BY <1>3 DEF ReplyCarried
    <2>1. server'.out = Units(ReplyFrame')
      <3>1. CASE answer = NULL
        <4>1. Zero \in Unit /\ 0 \in Unit
          BY DEF Unit
        <4>2. Zeros \in Seq(Unit)
          BY <4>1 DEF Zeros
        <4>3. Units([value |-> Zero, size |-> 0, data |-> <<>>]) = Zeros \o <<>>
          BY DEF Units, Zeros
        <4>4. ReplyFrame' = [value |-> Zero, size |-> 0, data |-> <<>>]
          BY <1>3, <3>1 DEF ReplyFrame
        <4> QED
          BY <1>3, <3>1, <4>2, <4>3, <4>4, ConcatEmptySeq
      <3>2. CASE answer # NULL
        BY <1>3, <3>2 DEF ReplyFrame
      <3> QED
        BY <3>1, <3>2
    <2>2. ReplyFrame' \in WholeFrame
      <3>1. CASE answer = NULL
        <4>1. ReplyFrame' = [value |-> Zero, size |-> 0, data |-> <<>>]
          BY <1>3, <3>1 DEF ReplyFrame
        <4>2. <<>> \in Seq(Unit) /\ Len(<<>>) = 0 /\ Zero \in Unit
          BY DEF Unit
        <4>3. ReplyFrame' \in [value : Unit, size : {0, 1}, data : Seq(Unit)]
          BY <4>1, <4>2
        <4> QED
          BY <4>1, <4>2, <4>3 DEF WholeFrame
      <3>2. CASE answer # NULL
        BY <1>2, <1>3, <3>2, FramesWhole DEF ReplyFrame, Message
      <3> QED
        BY <3>1, <3>2
    <2>3. server'.out \in Seq(Unit) /\ server'.out # <<>>
      BY <2>1, <2>2, UnitsOf
    <2>4. client'.frame = Nothing /\ down' = <<>>
          /\ (IF client'.at = "write" THEN "head" ELSE client'.at) = "head"
      BY <1>1, <1>3 DEF Sides, Uncalled, Unread
    <2>5. down' \o server'.out = Units(ReplyFrame') /\ <<>> \in Seq(Unit)
      BY <2>1, <2>3, <2>4, ConcatEmptySeq
    <2>6. Carried("head", Nothing, ReplyFrame', Units(ReplyFrame'))
      BY DEF Carried, Reading
    <2> QED
      BY <1>3, <2>3, <2>4, <2>5, <2>6 DEF ReplyCarried
  <1> QED
    BY <1>4, <1>5, <1>6 DEF ExchangeInv

LEMMA ServerWriteKeeps ==
    ASSUME ExchangeInv, ServerWrite
    PROVE  ExchangeInv'
  <1>1. Sides /\ MessageCarried /\ ReplyCarried /\ server.at = "write"
    BY DEF ExchangeInv, ServerWrite
  <1>2. /\ UNCHANGED <<client, up>> /\ down' = Append(down, Head(server.out))
        /\ server'.at = IF Len(server.out) = 1 THEN "free" ELSE "write"
        /\ server'.out = Tail(server.out) /\ server'.frame = server.frame
        /\ server'.answer = server.answer
        /\ server' = [at |-> server'.at, frame |-> server'.frame, answer |-> server'.answer,
                      response |-> server'.response, out |-> server'.out]
    BY <1>1 DEF ServerWrite, Sides
  <1>3. server'.at \in {"free", "write"}
    BY <1>2
  <1>4. Sides'
    BY <1>1, <1>2, <1>3 DEF Sides, Unread, Uncalled, Replied, Reading
  <1>5. MessageCarried'
    BY <1>1, <1>2, <1>3 DEF MessageCarried, Carried, Reading
  <1>6. ReplyCarried'
    <2> SUFFICES ASSUME Whole(server.answer)
                 PROVE  ReplyCarried'
      BY <1>2 DEF ReplyCarried
    <2>1. /\ down \in Seq(Unit) /\ server.out \in Seq(Unit) /\ server.out # <<>>
          /\ Carried(IF client.at = "write" THEN "head" ELSE client.at, client.frame,
                     ReplyFrame, down \o server.out)
      BY <1>1 DEF ReplyCarried, Replied
    <2>2. /\ down' \in Seq(Unit) /\ server'.out \in Seq(Unit)
          /\ down' \o server'.out = down \o server.out
          /\ Len(server.out) = 1 <=> server'.out = <<>>
      <3>1. /\ Append(down, Head(server.out)) \in Seq(Unit) /\ Tail(server.out) \in Seq(Unit)
            /\ Append(down, Head(server.out)) \o Tail(server.out) = down \o server.out
            /\ Len(server.out) = 1 <=> Tail(server.out) = <<>>
        BY <2>1, Moved
      <3> QED
        BY <1>2, <3>1
    <2>3. server'.at = "write" <=> server'.out # <<>>
      BY <1>2, <2>2
    <2>4. ReplyFrame' = ReplyFrame
      BY <1>2 DEF ReplyFrame
    <2> QED
      BY <1>2, <2>1, <2>2, <2>3, <2>4 DEF ReplyCarried
  <1> QED
    BY <1>4, <1>5, <1>6 DEF ExchangeInv

LEMMA EndKeeps ==
    ASSUME ExchangeInv, ServerFree \/ ServerClose
    PROVE  ExchangeInv'
  <1>1. Sides /\ MessageCarried /\ ReplyCarried /\ server.at \in {"free", "close"}
    BY DEF ExchangeInv, ServerFree, ServerClose
  <1>2. /\ UNCHANGED <<client, up, down>> /\ server'.at \in {"close", "closed"}
        /\ server'.out = server.out /\ server'.answer = server.answer
        /\ server' = [at |-> server'.at, frame |-> server'.frame, answer |-> server'.answer,
                      response |-> server'.response, out |-> server'.out]
    BY <1>1 DEF ServerFree, ServerClose, Sides
  <1>3. Sides'
    BY <1>1, <1>2 DEF Sides, Unread, Uncalled, Replied, Reading
  <1>4. MessageCarried'
    BY <1>1, <1>2 DEF MessageCarried
  <1>5. ReplyFrame' = ReplyFrame /\ server.at \in Replied /\ server.at # "write"
    BY <1>1, <1>2 DEF ReplyFrame, Replied
  <1>6. ReplyCarried'
    BY <1>1, <1>2, <1>5 DEF ReplyCarried
  <1> QED
    BY <1>3, <1>4, <1>6 DEF ExchangeInv

\* Both sides agree on where each frame is: what one has read of it and what is
\* in flight and still to be written make up the frame, unless its data comes in
\* pieces.
THEOREM ExchangeHolds ==
    ASSUME MessageAssumption
    PROVE  Spec => []ExchangeInv
  <1>1. Init => ExchangeInv
    BY InitInv
  <1>2. ASSUME ExchangeInv, [Next]_vars
        PROVE  ExchangeInv'
    <2>1. CASE ClientConnect
      BY <1>2, <2>1, ConnectKeeps
    <2>2. CASE ClientWrite
      BY <1>2, <2>2, WriteKeeps
    <2>3. CASE ClientRead
      BY <1>2, <2>3, ClientReadKeeps
    <2>4. CASE ServerRead
      BY <1>2, <2>4, ServerReadKeeps
    <2>5. CASE ServerCall
      BY <1>2, <2>5, CallKeeps
    <2>6. CASE ServerWrite
      BY <1>2, <2>6, ServerWriteKeeps
    <2>7. CASE ServerFree \/ ServerClose
      BY <1>2, <2>7, EndKeeps
    <2>8. CASE UNCHANGED vars
      BY <1>2, <2>8
      DEF vars, ExchangeInv, Sides, MessageCarried, ReplyCarried, ReplyFrame
    <2> QED
      BY <1>2, <2>1, <2>2, <2>3, <2>4, <2>5, <2>6, <2>7, <2>8 DEF Next, Client, Server
  <1> QED
    BY <1>1, <1>2, PTL DEF Spec

\* The callback gets the message as the client has it, and the client what the
\* callback returned or zeros, for any messages and answers whose data comes in
\* one piece (module.c, tcp_client.c, tcp_server.c, message.c).
THEOREM DataArrives ==
    ASSUME MessageAssumption
    PROVE  Spec => []DataIntact
  <1>1. ASSUME ExchangeInv
        PROVE  ReceivedAsSent
    <2> SUFFICES ASSUME server.at \in {"call", "write", "free"}, Whole(client.message)
                 PROVE  FromFrame(server.frame) = client.message
      BY DEF ReceivedAsSent
    <2>1. /\ client.at \notin {"connect", "refused"} /\ client.message \in Message
          /\ Whole(client.message)
      BY <1>1 DEF ExchangeInv, Sides, Message, MessageAssumption
    <2>2. server.frame = AsFrame(client.message)
      BY <1>1, <2>1 DEF ExchangeInv, MessageCarried, Carried, Reading
    <2> QED
      BY <2>1, <2>2, FramesWhole
  <1>2. ASSUME ExchangeInv
        PROVE  ReplyAsAnswered
    <2> SUFFICES ASSUME client.at = "done", Whole(server.answer)
                 PROVE  FromFrame(client.frame) = IF server.answer # NULL THEN server.answer
                                                  ELSE [value |-> Zero, data |-> NULL]
      BY DEF ReplyAsAnswered
    <2>1. server.at \in Replied /\ server.answer \in Answers \cup {NULL}
      BY <1>2 DEF ExchangeInv, Sides, Unread
    <2>2. client.frame = ReplyFrame
      BY <1>2, <2>1 DEF ExchangeInv, ReplyCarried, Carried, Reading
    <2>3. CASE server.answer = NULL
      BY <2>2, <2>3 DEF ReplyFrame, FromFrame
    <2>4. CASE server.answer # NULL
      BY <2>1, <2>2, <2>4, FramesWhole DEF ReplyFrame, Message
    <2> QED
      BY <2>3, <2>4
  <1>3. ExchangeInv => DataIntact
    BY <1>1, <1>2 DEF DataIntact
  <1> QED
    BY <1>3, ExchangeHolds, PTL

===============================================================================
