----------------------------- MODULE MCSnowflake -----------------------------
(* Small instances of Snowflake for TLC: two callers, worker ids of both        *)
(* parities, and two numbers to a millisecond.                                  *)
EXTENDS Snowflake, TLC

CONSTANTS c1, c2
==============================================================================
