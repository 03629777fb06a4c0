------------------------------- MODULE MCChat -------------------------------
(* Chat on small instances.                                                *)
EXTENDS Chat, TLC

CONSTANTS u1, u2, u3, f1, f2, n1, n2, nx, p1, p2, r1, r2, rx

Prompts(n, p, r) == [name |-> n, password |-> p, channel |-> r]

(* Names with one favourite room, one of them illegal, who move to another *)
(* and leave chat again, and then fill the buffer without an Enter.        *)
SafeLogins == {Prompts(n1, p1, r1), Prompts(n2, p1, r1), Prompts(nx, p1, r1)}
SafeBursts == {<<JOIN, r2, ENTER, JOIN, ENTER>>, <<r1, r1>>}

(* The liveness run: two passwords for a name, one with a refused room, and *)
(* a user who presses Enter again and again.                               *)
LiveLogins == {Prompts(n1, p1, r1), Prompts(n1, p2, rx)}
LiveBursts == {<<ENTER>>}

Symmetry == Permutations(Users) \cup Permutations(Fds) \cup Permutations(LegalNames)

(* No step looks at the packets of the last one. *)
View == <<up, tables, sessions, net, accounts, backlog, loop,
          client, login, toServer, toClient, caller, window, line, cut, stray>>
=============================================================================
