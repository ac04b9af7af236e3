------------------------------- MODULE MCExplorer -------------------------------
\* A folder with one folder in it.
EXTENDS Explorer

CONSTANTS home, docs

HomeAncestors == [d \in Dirs |-> IF d = home THEN {} ELSE {home}]
===============================================================================
