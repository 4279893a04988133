------------------------- MODULE MCAccountSessions -------------------------
(***************************************************************************)
(* A name stored before accounts had ids, and a free one; two requests,    *)
(* two passwords, a queue of one message, and room for two more accounts   *)
(* or links.                                                               *)
(***************************************************************************)
EXTENDS AccountSessions, TLC

Interchangeable == Permutations(Threads) \cup Permutations(Passwords)
=============================================================================
