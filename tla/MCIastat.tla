------------------------------ MODULE MCIastat ------------------------------
(* Iastat for TLC: two core events and an uncore one, two cpus, two sockets. *)
EXTENDS Iastat

MCCpus == <<"cpu0", "cpu1">>
MCSockets == <<"socket0", "socket1">>
MCSharing == [cpu0 |-> "alone", cpu1 |-> "shared", socket0 |-> "shared", socket1 |-> "starved"]

Plain(name) == [name |-> name, opens |-> FALSE, closes |-> FALSE, valid |-> TRUE, pinned |-> FALSE]
A == Plain("A")
B == Plain("B")
U == Plain("U")
Opens(token)  == [token EXCEPT !.opens = TRUE]
Closes(token) == [token EXCEPT !.closes = TRUE]
Pinned(token) == [token EXCEPT !.pinned = TRUE]

\* All placements of braces, around a name that is not there.
Unknown == [name : {"X"}, opens : BOOLEAN, closes : BOOLEAN, valid : {TRUE}, pinned : {FALSE}]
BraceLines == UNION {[1 .. n -> Unknown] : n \in 1 .. 4}

MCCommandLines ==
  BraceLines \cup
  {<<A, Pinned(U)>>, <<U, A, U>>, <<Opens(A), Closes(B), U>>, <<A, Opens(B), Closes(A)>>,
   <<Opens(A), Pinned(Closes(A)), Opens(Closes(B))>>, <<Opens(A), Closes(U)>>,
   <<B, [A EXCEPT !.valid = FALSE]>>}
=============================================================================
