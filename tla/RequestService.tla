--------------------------- MODULE RequestService ---------------------------
(***************************************************************************)
(* What the server promises of the connections it accepts, without its     *)
(* threads: they wait in order of acceptance, are taken in that order, at  *)
(* most Capacity of them are served at a time, each is answered exactly    *)
(* once and then closed.  Only the end of the service itself (`running'    *)
(* becomes FALSE for good) forgets connections that were waiting.          *)
(***************************************************************************)
EXTENDS Integers, Sequences, FiniteSets

CONSTANTS Client, Capacity

VARIABLES running, pending, active, answer

vars == <<running, pending, active, answer>>

Answers == {"message", "zeros"}

Init ==
    /\ running = TRUE
    /\ pending = <<>> /\ active = {}
    /\ answer = [c \in Client |-> "none"]

\* A connection nobody has seen before joins the end of the line.
Submit(c) ==
    /\ \A i \in DOMAIN pending : pending[i] # c
    /\ c \notin active /\ answer[c] = "none"
    /\ pending' = Append(pending, c)
    /\ UNCHANGED <<running, active, answer>>

Take ==
    /\ pending # <<>> /\ Cardinality(active) < Capacity
    /\ active' = active \cup {Head(pending)}
    /\ pending' = Tail(pending)
    /\ UNCHANGED <<running, answer>>

Answer(c) ==
    /\ c \in active /\ answer[c] = "none"
    /\ \E a \in Answers : answer' = [answer EXCEPT ![c] = a]
    /\ UNCHANGED <<running, pending, active>>

Close(c) ==
    /\ c \in active /\ answer[c] # "none"
    /\ active' = active \ {c}
    /\ UNCHANGED <<running, pending, answer>>

End ==
    /\ running' = FALSE /\ pending' = <<>>
    /\ UNCHANGED <<active, answer>>

Next ==
    /\ running
    /\ \/ \E c \in Client : Submit(c) \/ Answer(c) \/ Close(c)
       \/ Take \/ End

Spec == Init /\ [][Next]_vars
=============================================================================
