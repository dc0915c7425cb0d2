---------------------------- MODULE MC_SchemaApply ----------------------------
EXTENDS SchemaApply, TLC
CONSTANTS first, edited, rival

\* Two contents of one file, and a second file that took the same number.
FileNames == {"7_a.sql", "7_b.sql"}
Names ==
  [d \in Ddl |-> IF d = rival THEN "7_b.sql" ELSE "7_a.sql"]
Numbers == [n \in FileNames |-> 7]
=============================================================================
