----------------------------- MODULE MCTCPServer -----------------------------
(* TCPServer for TLC: the threads and the connections are interchangeable. *)
EXTENDS TCPServer, TLC

Symmetry == Permutations(Worker) \cup Permutations(Client)
=============================================================================
