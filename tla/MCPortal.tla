------------------------------ MODULE MCPortal -------------------------------
(* Portal with one queue emptied every round and one emptied by the timer. *)
EXTENDS Portal

MCOrder == <<"valve", "charge">>
MCOneQueue == <<"charge">>
==============================================================================
