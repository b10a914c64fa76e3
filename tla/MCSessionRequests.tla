-------------------------- MODULE MCSessionRequests --------------------------
(* SessionRequests with sets for TLC: which players and which requests are   *)
(* named does not matter, so both are symmetric.                             *)
EXTENDS SessionRequests, TLC

WinOrLose == {-1, 1}

Interchangeable == Permutations(Players) \cup Permutations(Requests)
=============================================================================
