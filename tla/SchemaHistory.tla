---------------------------- MODULE SchemaHistory ----------------------------
(***************************************************************************)
(* What the schema gate promises to the owner of the warehouse: a version  *)
(* number is spent once, on merged content, and never taken back; readers  *)
(* get whole prefixes of what is live.                                     *)
(***************************************************************************)
CONSTANTS Version, Ddl, VersionOf, NoDdl

VARIABLES
  merged,  \* the contents that were ever at origin/main
  live,    \* live[v]: the content that took effect as version v
  served   \* what the serving snapshot holds of live

Init == merged = {} /\ live = [v \in Version |-> NoDdl] /\ served = live

Merge(d) ==
  /\ merged' = merged \cup {d}
  /\ UNCHANGED <<live, served>>

Land(d) ==
  /\ d \in merged
  /\ live[VersionOf[d]] = NoDdl
  /\ live' = [live EXCEPT ![VersionOf[d]] = d]
  /\ UNCHANGED <<merged, served>>

Promote ==
  /\ served' = live
  /\ UNCHANGED <<merged, live>>

Next == Promote \/ \E d \in Ddl : Merge(d) \/ Land(d)

Spec == Init /\ [][Next]_<<merged, live, served>>
=============================================================================
