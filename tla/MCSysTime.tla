------------------------------ MODULE MCSysTime ------------------------------
(* SysTime on small instances.                                               *)
EXTENDS SysTime

ShortAndLong == {2, 7}
===============================================================================
