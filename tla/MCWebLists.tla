------------------------------ MODULE MCWebLists ------------------------------
EXTENDS PlaybookList
All == {[b \in Playbooks |-> IF b = 1 THEN "none" ELSE IF b = 4 THEN "archived" ELSE "active"]}
ByColumn == [c \in {"title", "runs"} |-> [b \in Playbooks |-> IF c = "title" THEN b ELSE 5 - b]]
=============================================================================
