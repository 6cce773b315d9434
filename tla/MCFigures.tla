----------------------------- MODULE MCFigures ------------------------------
(***************************************************************************)
(* A small instance of Figures: tenths for thousandths, amounts and        *)
(* packages whose quotients are ties or fractions of a cent.               *)
(***************************************************************************)
EXTENDS Figures, TLC

CONSTANTS flour, sugar

\* Three tenths of flour, alone or with half a unit of sugar.
MCBills == {[m \in Materials |-> IF m = flour THEN 3 ELSE b] : b \in {0, 5}}

CONSTANTS baker, grocer

\* A note of both kinds of company lines, and one with none but personal.
MCNotes ==
  {[shop |-> baker, lines |-> [stock |-> [gross |-> 9, discount |-> 2],
                               other |-> [gross |-> 4, discount |-> 1]]],
   [shop |-> grocer, lines |-> [stock |-> None, other |-> [gross |-> 5, discount |-> 0]]],
   [shop |-> grocer, lines |-> [stock |-> None, other |-> None]]}

\* The run begins with flour costed, sugar not yet, and no practised price.
Opened ==
  /\ FiguresInit
  /\ material[flour].cost > 0 /\ material[sugar].cost = 0
  /\ product.manual = NoRow
  /\ product.bill[sugar] > 0

SpecFromOpened == Opened /\ [][FiguresNext]_figuresVars

Interchangeable == Permutations(Sales) \cup Permutations(Lines)
                     \cup Permutations(Purchases)
=============================================================================
