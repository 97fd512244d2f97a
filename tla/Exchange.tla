------------------------------- MODULE Exchange -------------------------------
(***************************************************************************)
(* One request and its reply on a stream socket: send_message of the       *)
(* client (network/module.c, tcp_client.c), what a worker of the server    *)
(* does with the connection (tcp_server.c), and the conversion between     *)
(* Python messages and frames (message.c).                                 *)
(*                                                                         *)
(* A frame travels as a head, a size and as many units of data; the six    *)
(* parameters and the token are one value.  A read of data returns what    *)
(* there is, up to what was asked for, and nobody reads on.                *)
(***************************************************************************)
EXTENDS Integers, Sequences, FiniteSets, SequencesExt

CONSTANTS Sends,      \* the messages a client may send
          Answers,    \* what the callback may return, NULL when it fails or is not set
          Capacity,   \* units a socket holds in each direction
          Zero,       \* the value whose bytes are all zero
          Garbage,    \* what an uninitialised byte is read as
          NULL

\* A message has a value and data, a sequence of units or NULL.
ASSUME MessageAssumption ==
    /\ NULL \notin Sends
    /\ \A message \in (Sends \cup Answers) \ {NULL} :
          /\ message = [value |-> message.value, data |-> message.data]
          /\ message.data = NULL \/ message.data \in Seq(Range(message.data))

VARIABLES client,     \* [at, message, out, frame]: the message as Python has it, the reply
          server,     \* [at, frame, answer, response, out]
          up, down,   \* the units in flight to the server and to the client
          freed       \* the buffers of the worker in the order it frees them

vars == <<client, server, up, down, freed>>

Nothing == [value |-> Garbage, size |-> 0, data |-> <<>>]

\* PyMessage_AsMessageFrame and PyMessage_FromMessageFrame: no data and empty
\* data are the same frame.
AsFrame(message) ==
    IF message.data = NULL THEN [value |-> message.value, size |-> 0, data |-> <<>>]
    ELSE [value |-> message.value, size |-> Len(message.data), data |-> message.data]
FromFrame(frame) ==
    [value |-> frame.value, data |-> IF frame.size = 0 THEN NULL ELSE frame.data]

\* A slip: a frame without data is sent without its size.
UnitsSized(frame) ==
    IF frame.size = 0 THEN <<frame.value>> ELSE <<frame.value, frame.size>> \o frame.data
\* What is written for a frame, and in place of a reply.
Units(frame) == <<frame.value, frame.size>> \o frame.data
\* A slip: only the head is zeroed.
ZerosHead == <<Zero>>
Zeros == <<Zero, 0>>

Init ==
    /\ client = [at |-> "connect", message |-> NULL, out |-> <<>>, frame |-> Nothing]
    /\ server = [at |-> "accept", frame |-> Nothing, answer |-> NULL, response |-> Nothing,
                 out |-> <<>>]
    /\ up = <<>> /\ down = <<>> /\ freed = <<>>

-----------------------------------------------------------------------------
(* Reading and writing                                                     *)

\* What a read of n units can find: some of what is there and, when the peer
\* has closed, nothing.  The rest of the buffer is as it was.
Found(channel, n, closed) ==
    {SubSeq(channel, 1, k) : k \in 1 .. (IF n < Len(channel) THEN n ELSE Len(channel))}
    \cup (IF closed /\ channel = <<>> THEN {<<>>} ELSE {})
Filled(units, n) == units \o [i \in 1 .. n - Len(units) |-> Garbage]
Closed == server.at = "closed"

\* The next of the three reads of a frame, and what is done after the last.
\* (A size that never came is what the stack holds; here it is 1.)
ReadInto(side, channel, units, next) ==
    CASE side.at = "head" -> [side EXCEPT !.at = "size", !.frame.value = Filled(units, 1)[1]]
      [] side.at = "size" ->
            IF units = <<>> THEN [side EXCEPT !.at = "data", !.frame.size = 1]
            ELSE [side EXCEPT !.at = IF units[1] = 0 THEN next ELSE "data",
                              !.frame.size = units[1]]
      [] side.at = "data" -> [side EXCEPT !.at = next,
                                          !.frame.data = Filled(units, side.frame.size)]
Wanted(side) == IF side.at = "data" THEN side.frame.size ELSE 1
Reading == {"head", "size", "data"}

-----------------------------------------------------------------------------
(* The client                                                              *)

ClientConnect ==
    /\ client.at = "connect"
    /\ \E message \in Sends :
          \/ /\ client' = [client EXCEPT !.at = "write", !.message = message,
                                         !.out = Units(AsFrame(message))]
             /\ server' = [server EXCEPT !.at = "head"]
          \/ client' = [client EXCEPT !.at = "refused"] /\ UNCHANGED server
    /\ UNCHANGED <<up, down, freed>>

\* What is written after the server has closed is lost.
ClientWrite ==
    /\ client.at = "write" /\ (Closed \/ Len(up) < Capacity)
    /\ up' = IF Closed THEN up ELSE Append(up, Head(client.out))
    /\ client' = [client EXCEPT !.out = Tail(@),
                                !.at = IF Len(client.out) = 1 THEN "head" ELSE "write"]
    /\ UNCHANGED <<server, down, freed>>

ClientRead ==
    /\ client.at \in Reading
    /\ \E units \in Found(down, Wanted(client), Closed) :
          /\ client' = ReadInto(client, down, units, "done")
          /\ down' = SubSeq(down, Len(units) + 1, Len(down))
    /\ UNCHANGED <<server, up, freed>>

Client == ClientConnect \/ ClientWrite \/ ClientRead

-----------------------------------------------------------------------------
(* The worker                                                              *)

ServerRead ==
    /\ server.at \in Reading
    /\ \E units \in Found(up, Wanted(server), FALSE) :
          /\ server' = ReadInto(server, up, units, "call")
          /\ up' = SubSeq(up, Len(units) + 1, Len(up))
    /\ UNCHANGED <<client, down, freed>>

\* Without an answer the response stays uninitialised, its size is anything.
ServerCall ==
    /\ server.at = "call"
    /\ \E answer \in Answers :
          IF answer = NULL
          THEN \E size \in {0, 1} :
                  server' = [server EXCEPT !.at = "write", !.out = Zeros,
                                           !.response = [Nothing EXCEPT !.size = size]]
          ELSE server' = [server EXCEPT !.at = "write", !.answer = answer,
                                        !.out = Units(AsFrame(answer)),
                                        !.response = AsFrame(answer)]
    /\ UNCHANGED <<client, up, down, freed>>

ServerWrite ==
    /\ server.at = "write" /\ Len(down) < Capacity
    /\ down' = Append(down, Head(server.out))
    /\ server' = [server EXCEPT !.out = Tail(@),
                                !.at = IF Len(server.out) = 1 THEN "free" ELSE "write"]
    /\ UNCHANGED <<client, up, freed>>

\* The buffer of the message is freed for the message and for the response;
\* without data it is NULL.
ServerFree ==
    /\ server.at = "free"
    /\ freed' = IF server.frame.size = 0 THEN <<>>
                ELSE IF server.response.size = 0 THEN <<"message">>
                ELSE <<"message", "message">>
    /\ server' = [server EXCEPT !.at = "close"]
    /\ UNCHANGED <<client, up, down>>

ServerClose ==
    /\ server.at = "close"
    /\ server' = [server EXCEPT !.at = "closed"]
    /\ UNCHANGED <<client, up, down, freed>>

Server == ServerRead \/ ServerCall \/ ServerWrite \/ ServerFree \/ ServerClose

Next == Client \/ Server

\* Both sides go on when they can, and the callback returns.
Spec == Init /\ [][Next]_vars /\ WF_vars(Client) /\ WF_vars(Server)

-----------------------------------------------------------------------------
(* What an exchange promises                                               *)

\* Data of one unit cannot come in two pieces.
Whole(message) == message = NULL \/ message.data = NULL \/ Len(message.data) = 1

\* The callback gets the message as the client has it, whenever the three reads
\* return, if its data comes in one piece.  (More may arrive cut off and filled
\* up with whatever malloc returned.)
ReceivedAsSent ==
    server.at \in {"call", "write", "free"} /\ Whole(client.message) =>
        FromFrame(server.frame) = client.message

\* send_message returns what the callback returned, or zeros without data.
ReplyAsAnswered ==
    client.at = "done" /\ Whole(client.message) /\ Whole(server.answer) =>
        FromFrame(client.frame) = IF server.answer # NULL THEN server.answer
                                  ELSE [value |-> Zero, data |-> NULL]

\* Data of one piece arrives as it was handed over, in both directions.
DataIntact == ReceivedAsSent /\ ReplyAsAnswered

\* Of the data one unit at least is read, and the rest is looked at no more
\* (tcp_server.c:108, tcp_client.c:62).  If what the worker left fills a socket, and
\* the answer another one, both sides are in a write that the other would have to
\* read from (tcp_client.c:53, tcp_server.c:148-154).
BothWrite ==
    /\ client.at = "write" /\ server.at = "write"
    /\ Len(up) = Capacity /\ Len(down) = Capacity
    /\ Len(Units(AsFrame(client.message))) > Capacity + 3 /\ Len(Units(server.response)) > Capacity

\* If what the client left does not fit, the worker is in a write to a client that
\* has returned, which does not close its socket.
WorkerWrites ==
    /\ client.at = "done" /\ server.at = "write" /\ Len(down) = Capacity
    /\ Len(Units(server.response)) > Capacity + 3

\* The connection is refused, or both sides come to the end, or they hang for good
\* in one of these two ways, with messages that long, and in no other.
ExchangeEnds ==
    <>(client.at = "refused" \/ (client.at = "done" /\ Closed) \/ []BothWrite \/ []WorkerWrites)

\* No buffer is freed twice.
FreedOnce == \A i, j \in DOMAIN freed : freed[i] = freed[j] => i = j
==============================================================================
