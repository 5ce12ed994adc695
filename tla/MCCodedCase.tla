------------------------------ MODULE MCCodedCase ------------------------------
(* Three invoices that differ in what the detectors look at. *)
EXTENDS CodedCase, TLC

CONSTANTS i1, i2, i3, unknown, text, edited, empty

MCIds == {i1, i2, i3, unknown}
MCPlans == {text, edited, empty}
MCBlank == {empty}

\* Invoices: equal or not, early or late, at night or not, by a ghost or not.
Shapes ==
    [vendor : {"v"}, amount : {1, 3}, category : {"c"}, hour : {18, 19}, date : {1, 2}]
        \cup [vendor : {"ghost"}, amount : {3}, category : {"c"}, hour : {8}, date : {1}]

MCDatasets ==
    {[invoices |-> <<a @@ [id |-> i1], b @@ [id |-> i2], c @@ [id |-> i3]>>,
      ghosts |-> {"ghost"}, policies |-> {[category |-> "*", maxAmount |-> 2]}] :
        a \in Shapes, b \in Shapes, c \in Shapes}

Hit(i, s) == [id |-> i, score |-> s]

\* Below and at the threshold, twice for one invoice, for no invoice at all.
MCResults == {<<Hit(i1, 79), Hit(i3, 80)>>, <<Hit(NoId, 99), Hit(unknown, 95)>>,
              <<Hit(i2, 95), Hit(i3, 90), Hit(i2, 81)>>}
===============================================================================
