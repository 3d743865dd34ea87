-------------------------- MODULE MCMaxipixLayout ---------------------------
(***************************************************************************)
(* Files for TLC: one of each layout, of which the chips are on the ports  *)
(* in another order than theirs, and variants that are refused, or taken   *)
(* though something is wrong with them: the type of file, no chip at all.  *)
(***************************************************************************)
EXTENDS MaxipixLayout

File(l, ports, x, y, xs, ys) ==
  [ type |-> "MAXIPIX", version |-> "1.0", asic |-> "TPX1", polarity |-> "NEGATIVE",
    frequency |-> 80, nchips |-> Len(ports), energy |-> 5, chip |-> ports,
    layout |-> l, xgap |-> x, ygap |-> y,
    rot |-> [i \in DOMAIN ports |-> i - 2], xc |-> xs, yc |-> ys,
    dacs |-> TRUE, thlnoise |-> [i \in DOMAIN ports |-> 75],
    thlxray |-> [i \in DOMAIN ports |-> 25], calib |-> 8 ]

None    == File("L_NONE", <<5, 4, 3, 2, 1>>, Missing, Missing, <<>>, <<>>)
Grid2x2 == File("L_2x2", <<2, 3, 4, 1>>, 4, 2, <<>>, <<>>)
Grid5x1 == File("L_5x1", <<1, 2, 3, 4, 5>>, 3, Missing, <<>>, <<>>)
Free    == File("L_FREE", <<3, 1, 2>>, Missing, Missing, <<0, 0, 0>>, <<0, 0, 0>>)
General == File("L_GENERAL", <<2, 1>>, Missing, Missing, <<10, 0>>, <<0, 12>>)

SomeFiles ==
  [ flat |-> [None EXCEPT !.type = "OTHER"], g2x2 |-> Grid2x2, g5x1 |-> Grid5x1,
    free |-> Free, general |-> General,
    noChip |-> File("L_NONE", <<>>, 0, 0, <<>>, <<>>),
    twice  |-> [None EXCEPT !.chip[3] = 5],
    three  |-> File("L_2x2", <<1, 2, 3>>, 0, 0, <<>>, <<>>),
    wide   |-> [Grid5x1 EXCEPT !.xgap = 5],
    far    |-> [General EXCEPT !.yc[2] = 2049],
    noDac  |-> [Free EXCEPT !.dacs = FALSE],
    short  |-> [Free EXCEPT !.thlxray = <<25, 25>>] ]

\* One of g5x1's is missing.
SomeMatrices ==
  {<<name, i>> : name \in {"flat", "g2x2", "g5x1", "free", "general"}, i \in 1 .. 5} \ {<<"g5x1", 3>>}
=============================================================================
