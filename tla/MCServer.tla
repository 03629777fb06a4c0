------------------------------ MODULE MCServer ------------------------------
(* Server on a small instance; the constants are model values.             *)
EXTENDS ServerPresence, TLC

Symmetry == Permutations(Users) \cup Permutations(Fds)
              \cup Permutations(LegalNames) \cup Permutations(RoomNames \ RefusedRooms)
=============================================================================
