-------------------------------- MODULE SpfWalk --------------------------------
(***************************************************************************)
(* resolve_spf of sources/dns.py: the record of a domain is flattened      *)
(* along its include: and redirect= targets, depth first, over at most     *)
(* Limit domains.  The recursion is a stack of the targets still to be     *)
(* taken; the addresses a domain authorises are the domain.                *)
(***************************************************************************)
EXTENDS FiniteSets, Naturals, Sequences, Functions

CONSTANTS
  Name,   \* domains; all have a record when their lookup is answered
  Limit   \* max_depth

VARIABLES
  targets,  \* the targets of each record, in order, its redirect last
  root,     \* the domain resolved
  todo,     \* the stack: [name, depth]
  visited,  \* domains whose addresses were collected
  lost      \* some lookup was not answered

vars == <<targets, root, todo, visited, lost>>

TypeOK ==
  /\ targets \in [Name -> Seq(Name)] /\ root \in Name
  /\ todo \in Seq([name : Name, depth : 0..Limit])
  /\ visited \subseteq Name /\ lost \in BOOLEAN

InOrder(S) == CHOOSE f \in [1..Cardinality(S) -> S] : Range(f) = S
Init ==
  /\ targets \in [Name -> {InOrder(S) : S \in SUBSET Name}] /\ root \in Name
  /\ todo = <<[name |-> root, depth |-> 0]>> /\ visited = {} /\ lost = FALSE

(* _spf_record_for: a lookup that fails and a domain without SPF are one   *)
(* to it, whatever the error.                                              *)
Answers == BOOLEAN

(* Mutant: the domains already taken are not counted.                      *)
Enters_ByDepth(entry) == entry.depth <= Limit /\ entry.name \notin visited

(* _walk looks a target up before it minds the limits.                     *)
Enters(entry) ==
  entry.depth <= Limit /\ Cardinality(visited) < Limit /\ entry.name \notin visited
Walk ==
  /\ todo # <<>>
  /\ LET entry == Head(todo)
         below == [i \in DOMAIN targets[entry.name] |->
                     [name |-> targets[entry.name][i], depth |-> entry.depth + 1]]
     IN  \E answered \in IF entry.name \in visited THEN {TRUE} ELSE Answers :
           IF answered /\ Enters(entry)
           THEN /\ visited' = visited \cup {entry.name}
                /\ todo' = below \o Tail(todo)
                /\ UNCHANGED lost
           ELSE /\ todo' = Tail(todo)
                /\ lost' = (lost \/ ~answered)
                /\ UNCHANGED visited
  /\ UNCHANGED <<targets, root>>

Next == Walk
Spec == Init /\ [][Next]_vars
-------------------------------------------------------------------------------
(* The reference: what the root reaches along the targets, that is what    *)
(* every set of names has that has the root and is closed under them.      *)
Closed(names) == \A m \in names : Range(targets[m]) \subseteq names
Reached == {n \in Name : \A names \in SUBSET Name : root \in names /\ Closed(names) => n \in names}

(* dns.py:270: the walk ends with what the root reaches if that is within  *)
(* the limit and nothing got lost, and never collects more than Limit      *)
(* domains nor one the root does not reach; include loops do no harm, and  *)
(* the test of the depth never decides, the count of domains is faster.    *)
WalkCovers ==
  /\ visited \subseteq Reached /\ Cardinality(visited) <= Limit
  /\ \A i \in DOMAIN todo : todo[i].depth <= Cardinality(visited)
  /\ todo = <<>> /\ ~lost /\ Cardinality(Reached) <= Limit => visited = Reached
-------------------------------------------------------------------------------
(* Why it holds: what waits on the stack is reached, what a domain taken   *)
(* names is taken or waits, and a domain is passed over only if it is      *)
(* taken or all that is reached is.                                        *)
Waiting == {todo[i].name : i \in DOMAIN todo}
StackIsReached == visited \cup Waiting \subseteq Reached
NothingDropped ==
  ~lost /\ Cardinality(Reached) <= Limit =>
    /\ root \in visited \cup Waiting
    /\ \A m \in visited : Range(targets[m]) \subseteq visited \cup Waiting
DepthIsCounted ==
  Cardinality(visited) <= Limit /\ \A i \in DOMAIN todo : todo[i].depth <= Cardinality(visited)
WalkInv == TypeOK /\ StackIsReached /\ NothingDropped /\ DepthIsCounted
===============================================================================
