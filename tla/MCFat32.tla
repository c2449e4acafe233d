------------------------------ MODULE MCFat32 ------------------------------
(* A long name and a short one become the same 8.3 name, and a PC has left  *)
(* an empty file on the volume.                                             *)
EXTENDS Fat32

MCTo83 == [l \in Leaves |-> IF l = "longer" THEN "short" ELSE l]
MCFromPc == <<"empty">>
=============================================================================
