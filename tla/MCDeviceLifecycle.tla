------------------------- MODULE MCDeviceLifecycle -------------------------
(***************************************************************************)
(* Small instances of DeviceLifecycle: one account with two profile names, *)
(* and the same beside an administrator with a profile of its own.  Names  *)
(* and keys are interchangeable; octet 2 belongs to an infrastructure peer *)
(* where there is one, which leaves as many addresses as profiles.         *)
(***************************************************************************)
EXTENDS DeviceLifecycle, TLC

CONSTANTS alice, root, d1, d2, d3

OneAccount  == [d \in {d1, d2} |-> alice]
TwoAccounts == [d \in {d1, d2, d3} |-> IF d = d3 THEN root ELSE alice]

\* The administrator's account is unlimited.
LimitOne == [u \in Users |-> IF u \in Admins THEN -1 ELSE 1]
LimitTwo == [u \in Users |-> IF u \in Admins THEN -1 ELSE 2]

KeySymmetry  == Permutations(Keys)
NameSymmetry == Permutations(Keys) \cup Permutations({d1, d2})
=============================================================================
