----------------------------- MODULE MC_Ingests -----------------------------
(* The runs: every part of a pass and of the tail, twice in a row.         *)
EXTENDS Ingests

StartedNames == DOMAIN Started
Twice(order, n) == [runs |-> <<order, order>>, troubles |-> n]
Weekly == [runs |-> <<DomainsWeekly, DomainsDaily>>, troubles |-> 2]
Parts ==
  {Twice(order, 2) : order \in {Fleet, Core, Sms, Replies, Sales, Bookings, Canonical, Derived, Readers, Feeds}}
  \cup {Weekly, Twice(Census, 2)}
=============================================================================
