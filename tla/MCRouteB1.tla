----------------------------- MODULE MCRouteB1 -----------------------------
(* RouteB1 for TLC: one anchor, one control and one treatment.             *)
EXTENDS RouteB1

Cell(arm, rep) == [anchor |-> "a", arm |-> arm, rep |-> rep]
MCCells == {Cell("control", 1), Cell("treatment", 1)}
=============================================================================
