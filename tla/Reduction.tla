----------------------------- MODULE Reduction ------------------------------
(***************************************************************************)
(* reducer of mimpi_common.c: what becomes of two bytes in a MIMPI_Reduce. *)
(* Its loops apply the same operation to every byte of the two buffers.    *)
(***************************************************************************)
EXTENDS Integers

MIMPI_Op == {"MAX", "MIN", "SUM", "PROD"}
Byte == 0 .. 255

\* A result is stored in an u_int8_t, which keeps its remainder modulo 256.
Wrap(n) == n % 256

\* Mutant: a sum stops at the largest byte.
ReducerSaturates(one, two, op) ==
    CASE op = "MAX"  -> IF one > two THEN one ELSE two
      [] op = "MIN"  -> IF one < two THEN one ELSE two
      [] op = "PROD" -> Wrap(one * two)
      [] op = "SUM"  -> IF one + two > 255 THEN 255 ELSE one + two

Reducer(one, two, op) ==
    CASE op = "MAX"  -> IF one > two THEN one ELSE two
      [] op = "MIN"  -> IF one < two THEN one ELSE two
      [] op = "PROD" -> Wrap(one * two)
      [] op = "SUM"  -> Wrap(one + two)
=============================================================================
