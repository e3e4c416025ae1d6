----------------------------- MODULE CommentTable -----------------------------
(***************************************************************************)
(* What the comments table promises its writers: each write happens at     *)
(* once.  A merge takes, of the rows a source brings, those of new         *)
(* comments and those that replace a row of no date or one strictly older  *)
(* (sources/iceberg.py, _merge); a fill sets the text of some rows of one  *)
(* agency and changes nothing else of them.                                *)
(***************************************************************************)
EXTENDS Naturals

CONSTANTS Ids, Agencies, Dates, AgencyOf, None

VARIABLE rows

NoDate == 0
Supersedes(date, old) == old = None \/ old.date = NoDate \/ date > old.date

SourceRow(i, date, text) == [agency |-> AgencyOf[i][date], date |-> date, text |-> text]

Init == rows = [i \in Ids |-> None]

Merge ==
    \E ids \in SUBSET Ids : \E date \in [ids -> Dates \cup {NoDate}], text \in [ids -> BOOLEAN] :
       rows' = [i \in Ids |-> IF i \in ids /\ Supersedes(date[i], rows[i])
                              THEN SourceRow(i, date[i], text[i]) ELSE rows[i]]

Fill ==
    \E a \in Agencies : \E ids \in SUBSET {i \in Ids : rows[i] # None /\ rows[i].agency = a} :
       rows' = [i \in Ids |-> IF i \in ids THEN [rows[i] EXCEPT !.text = TRUE] ELSE rows[i]]

Next == Merge \/ Fill

Spec == Init /\ [][Next]_rows
=============================================================================
