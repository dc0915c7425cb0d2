-------------------------------- MODULE MC_Jobs --------------------------------
(* Values for TLC of the constants of Jobs that a configuration file has   *)
(* no syntax for.                                                          *)
EXTENDS Jobs, TLC

CONSTANTS renames, names, adds   \* contents of DDL files: one renames a column,
                                 \* one takes a synonym's name and breaks a later rule
CONSTANTS c1, c2                 \* two callers of the moderator, which are told
                                 \* apart by nothing but who they are
Callers == Permutations(Caller)

MCTables == <<{"reply"}, {"reply", "lead"}>>
MCCallDays == [c \in {"a", "b"} |-> IF c = "a" THEN 1 ELSE 2]
MCBreaks == [d \in {renames, names} |-> IF d = renames THEN {"R1"} ELSE {"R3"}]
MCBlacklisted == {<<"a.co", "surbl">>}
MCAdds == [f \in {"bare", "mend"} |->
             [table |-> "t1", idx |-> IF f = "bare" THEN 1 ELSE -1, cons |-> 0]]
===============================================================================
