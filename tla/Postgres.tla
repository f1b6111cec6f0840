------------------------------ MODULE Postgres ------------------------------
(***************************************************************************)
(* The two things of PostgreSQL the statements of postgres.go compute      *)
(* with: greatest(), and timestamps compared with CURRENT_TIMESTAMP.       *)
(*                                                                         *)
(* A timestamp column is kept RELATIVE to CURRENT_TIMESTAMP, in ticks, so  *)
(* that time passes without an unbounded clock: x < 0 is "x is before      *)
(* now", and how far before is not told apart below a floor.               *)
(***************************************************************************)
EXTENDS Integers

Greatest(a, b) == IF a >= b THEN a ELSE b

(* A timestamp x one tick later.                                           *)
Countdown(x, floor) == Greatest(x - 1, floor)
=============================================================================
