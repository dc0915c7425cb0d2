---------------------------- MODULE MC_WriterLock ----------------------------
EXTENDS WriterLock
CONSTANTS p1, p2, p3

PidsTwo == {p1, p2}
PidsThree == {p1, p2, p3}
PythonOnly == {"python"}
=============================================================================
