--------------------------- MODULE MCInvoicePages ---------------------------
(***************************************************************************)
(* InvoicePages with two notes: a product weighed twice, under a discount, *)
(* beside one given away; and a note without a discount.  What stands      *)
(* elsewhere is chosen so that wrong fields can agree: a discount with an  *)
(* amount paid, lines with an amount paid, a count with a row missed.      *)
(***************************************************************************)
EXTENDS InvoicePages, FiniteSetsExt, TLC

CONSTANTS weighed, plain, cheese, bread

Bought(code, quantity, gross) == [code |-> code, quantity |-> quantity, gross |-> gross]

MCContents ==
  (weighed :> [merchant |-> "grocer", discount |-> 2,
               lines |-> <<Bought(cheese, 1, 3), Bought(bread, 1, 0), Bought(cheese, 2, 2)>>])
  @@ (plain :> [merchant |-> "grocer", discount |-> 0,
                lines |-> <<Bought(bread, 1, 1), Bought(cheese, 1, 2)>>])

MCElsewhere ==
  (weighed :> [merchant |-> "tax office", gross |-> 3, discount |-> 1, net |-> 4, count |-> 2,
               lines |-> <<Bought(bread, 3, 1), Bought(cheese, 5, 0), Bought(bread, 4, 4)>>])
  @@ (plain :> [merchant |-> "tax office", gross |-> 9, discount |-> 1, net |-> 4, count |-> 1,
                lines |-> <<Bought(cheese, 5, 2), Bought(cheese, 3, 2)>>])

Watching == <<plain, weighed>>

\* Imports from a page that changed before, in up to three ways of all, and does
\* not change again: what the run's own changes, of fewer faults, do not reach.
ChangedBefore ==
  /\ portal = "up" /\ expired = {} /\ events = MaxEvents
  /\ markup \in UNION {kSubset(k, AllFaults) : k \in 0..3}
  /\ missed \in {ps \in SUBSET Positions : Cardinality(ps) <= MaxMissed}
  /\ purchases = [n \in Notes |-> NoPurchase]
  /\ readUnder = [n \in Notes |-> {}]
  /\ canary = NotRunning /\ seen = NothingSeen
  /\ last = [ended |-> FALSE, alerted |-> FALSE, subject |-> "unread", seen |-> NothingSeen]

MCSpec == (PagesInit \/ ChangedBefore) /\ [][PagesNext]_pagesVars /\ Daily
=============================================================================
