---------------------------- MODULE MCPriamTime -----------------------------
(***************************************************************************)
(* Durations around every change of unit, around the powers of two where   *)
(* the two registers share the count, and up to the range limit.           *)
(***************************************************************************)
EXTENDS PriamTime

Near(n) == (IF n < 3 THEN 0 ELSE n - 3) .. n + 3

\* Everything in range: the longest is the last before 1024 s.
InRange ==
  UNION {Near(c * Unit(iu)) : c \in {0, 1, 102, 103, 255, 256, 511, 512, 1020}, iu \in 0..6}
    \cup UNION {Near(1024 * Unit(iu)) : iu \in 0..5}
    \cup {1024 * Unit(6) - 1, 1024 * Unit(6) + 1}
=============================================================================
