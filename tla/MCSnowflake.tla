---------------------------- MODULE MCSnowflake -----------------------------
(* Snowflake, instantiated for TLC: two hosts whose generators may differ  *)
(* in the worker, in the data center or in nothing, and that make two ids  *)
(* in a millisecond.                                                       *)
EXTENDS Snowflake

MCOctet == [h \in Hosts |-> IF h = 1 THEN 0 ELSE 1]
=============================================================================
