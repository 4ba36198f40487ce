--------------------------- MODULE MCTrackingSheet ---------------------------
(* Two rows of one order of the tab, for the run that shows which cells of  *)
(* column W the capability writes.                                          *)
EXTENDS TrackingSheet

CONSTANTS o1, s1, t1, t2

Full(t) == [dated |-> TRUE, order |-> o1, shop |-> s1, shein |-> "SHEIN",
            tracking |-> t, note |-> "note"]
Cells == {Full(t1), Full(t2), Full(None)}
=============================================================================
