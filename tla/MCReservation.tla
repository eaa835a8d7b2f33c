--------------------------- MODULE MCReservation ---------------------------
(* Three request goroutines and two backends: b1 admits two of the three   *)
(* requests, b2 has no limit of its own and gets a default of one.         *)
EXTENDS Reservation

MCBackends == {"b1", "b2"}
MCClients == {"c1", "c2", "c3"}
MCMaxConcurrent == [b \in MCBackends |-> IF b = "b1" THEN 2 ELSE 0]
=============================================================================
