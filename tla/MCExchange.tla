------------------------------ MODULE MCExchange ------------------------------
(***************************************************************************)
(* Messages without data, with one unit, with more than a socket takes and *)
(* with so much that a socket cannot take what one read leaves.            *)
(***************************************************************************)
EXTENDS Exchange

CONSTANTS v, w, x, y

Message(value, data) == [value |-> value, data |-> data]
MCSends == {Message(v, NULL), Message(w, <<x>>), Message(v, <<x, y, x>>),
            Message(w, <<x, y, x, y>>)}
MCAnswers == MCSends \cup {NULL}
==============================================================================
