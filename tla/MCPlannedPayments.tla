-------------------------- MODULE MCPlannedPayments -------------------------
(***************************************************************************)
(* Instances of PlannedPayments: a monthly plan due on the last of January *)
(* and a clock that stops on the last days of the next months.             *)
(***************************************************************************)
EXTENDS PlannedPayments

CONSTANTS phone, laptop, rent, sweep

MonthlyPlan == [q \in Plan |-> "monthly"]

Days == {Dated(2023, 1, 31), Dated(2023, 3, 31)}

FirstDue == Dated(2023, 1, 31)

LastOfJanuary == {Dated(2023, 1, 31)}
=============================================================================
