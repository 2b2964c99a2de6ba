---- MODULE MCCore ----
(***************************************************************************)
(* A small instance of Core for TLC: handles, detail objects and user data *)
(* are interchangeable.                                                    *)
(***************************************************************************)
EXTENDS Core, TLC

Symmetry == Permutations(Handles) \cup Permutations(Details) \cup Permutations(UserData)

====
