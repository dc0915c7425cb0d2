------------------------------- MODULE QueryShim -------------------------------
(***************************************************************************)
(* The read API, md-migration/shim/mcp_server.py and common.py: one server *)
(* process in front of the local snapshot, or with WAREHOUSE_BACKEND=md of *)
(* MotherDuck's two colours.  Each request finds out anew what is served,  *)
(* connects, executes and answers with the name of what it read; meanwhile *)
(* snapshots are promoted, linked back and pruned, colours rebuilt and the *)
(* pointer moved (MdWritePath).  A query that names a federated view reads *)
(* the local snapshot whatever the backend.                                *)
(***************************************************************************)
EXTENDS Integers

CONSTANTS
  Cap,                  \* max_rows
  Keep,                 \* snapshots the publisher keeps beside the served
  MaxSnap, MaxFaults    \* bounds

VARIABLES
  backend,   \* "local" or "md": the server's environment
  writable,  \* the token it was given for MotherDuck can write
  server,    \* "down", "up" or "refused"
  excused,   \* history: it started without a snapshot, or its probe erred
  link,      \* the snapshot warehouse_current names, 0 for none
  files,     \* the snapshots on disk
  newest,    \* of those promoted so far
  pointer,   \* the colour in /opt/duckdb/md_serving_db
  colour,    \* what either colour holds, 0 while it is half built
  building,  \* the colour a publish is rebuilding, or "none", and from what
  req,       \* one client, which asks again and again
  turned,    \* history: a link or pointer was turned back
  faults

vars == <<backend, writable, server, excused, link, files, newest, pointer, colour,
          building, req, turned, faults>>
served == <<link, files, newest, pointer, colour, building, turned>>

Colour   == {"a", "b"}
Snapshot == 1..MaxSnap
Kind     == {"query", "federated", "schema"}
Other(c) == IF c = "a" THEN "b" ELSE "a"

(* A place that can be read: a colour by its name, a snapshot by its file. *)
Local(n) == [md |-> FALSE, colour |-> "a", snap |-> n]
Md(c)    == [md |-> TRUE, colour |-> c, snap |-> 0]
Nowhere  == Local(0)

Unasked == [at |-> "idle", kind |-> "query", label |-> Nowhere, source |-> Nowhere,
            got |-> 0, all |-> TRUE, truncated |-> FALSE, moved |-> FALSE,
            before |-> 0, seen |-> [md |-> 0, local |-> 0]]

Place == [md : BOOLEAN, colour : Colour, snap : 0..newest]
Request ==
  [at : {"idle", "connect", "execute", "answer", "answered", "refused"}, kind : Kind,
   label : Place, source : Place, got : 0..newest, all : BOOLEAN, truncated : BOOLEAN,
   moved : BOOLEAN, before : 0..newest, seen : [md : 0..newest, local : 0..newest]]

TypeOK ==
  /\ backend \in {"local", "md"} /\ writable \in BOOLEAN
  /\ server \in {"down", "up", "refused"} /\ excused \in BOOLEAN /\ turned \in BOOLEAN
  /\ link \in {0} \cup files /\ files \subseteq 1..newest /\ newest \in 0..MaxSnap
  /\ pointer \in Colour /\ colour \in [Colour -> 0..newest]
  /\ building \in [colour : Colour \cup {"none"}, from : 0..newest]
  /\ building.colour \in Colour => colour[building.colour] = 0
  /\ req \in Request
  /\ (req.kind = "federated" => ~req.label.md /\ ~req.source.md)
  /\ faults \in 0..MaxFaults

Init ==
  /\ backend \in {"local", "md"} /\ writable \in BOOLEAN /\ (writable => backend = "md")
  /\ server = "down" /\ excused = FALSE
  /\ link \in {0, 1} /\ files = {1} /\ newest = 1
  /\ pointer = "a" /\ colour = [c \in Colour |-> 1] /\ building = [colour |-> "none", from |-> 0]
  /\ req = Unasked /\ turned = FALSE /\ faults = 0

Counts(fault) ==
  IF fault THEN faults < MaxFaults /\ faults' = faults + 1 ELSE UNCHANGED faults
-------------------------------------------------------------------------------
(* assert_read_only: it can be opened and the probe's write is refused.    *)
(* Any error of the probe is taken for a refusal.                          *)
ReadOnly(trouble) ==
  /\ trouble # "open"
  /\ IF backend = "md" THEN ~writable \/ trouble = "probe" ELSE link # 0

(* main: without the assertion it serves only where there is no snapshot.  *)
Start ==
  /\ server = "down"
  /\ \E trouble \in {"none", "open", "probe"} :
       /\ Counts(trouble # "none")
       /\ server' = IF ~ReadOnly(trouble) /\ link # 0 THEN "refused" ELSE "up"
       /\ excused' = (trouble = "probe" \/ link = 0)
  /\ UNCHANGED <<backend, writable, req>> /\ UNCHANGED served

(* Killed, or exited, and started again by its unit.                       *)
Restart ==
  /\ server # "down" /\ Counts(server = "up")
  /\ server' = "down" /\ excused' = FALSE
  /\ req' = [Unasked EXCEPT !.seen = req.seen]
  /\ UNCHANGED <<backend, writable>> /\ UNCHANGED served
-------------------------------------------------------------------------------
Requests == UNCHANGED <<backend, writable, server, excused>> /\ UNCHANGED served

OnMd(kind) == backend = "md" /\ kind # "federated"
Serving(kind) == IF OnMd(kind) THEN Md(pointer) ELSE Local(link)

Route(place) == IF place.md THEN "md" ELSE "local"

(* _run_query, get_schema: what is served, captured once.  A query on      *)
(* MotherDuck needs no snapshot; the schema asks for one on either.        *)
Capture(kind) ==
  /\ server = "up" /\ req.at \in {"idle", "answered", "refused"}
  /\ LET needed == kind = "schema" \/ ~OnMd(kind)
     IN  req' = [Unasked EXCEPT !.at = IF needed /\ link = 0 THEN "refused" ELSE "connect",
                                !.kind = kind, !.label = Serving(kind), !.seen = req.seen]
  /\ Requests /\ UNCHANGED faults

(* connect_ro: of what was captured; the schema's finds the colour itself. *)
Connect ==
  /\ req.at = "connect"
  /\ LET place == IF req.kind = "schema" /\ backend = "md" THEN Md(pointer) ELSE req.label
     IN  IF ~place.md /\ place.snap \notin files THEN req' = [req EXCEPT !.at = "refused"]
         ELSE req' = [req EXCEPT !.at = "execute", !.source = place, !.before = req.seen[Route(place)]]
  /\ Requests /\ UNCHANGED faults

(* Cannot connect, an error of the engine, or the wall clock: an error,    *)
(* never a part of the rows.                                               *)
Fails ==
  /\ req.at \in {"connect", "execute"} /\ Counts(TRUE)
  /\ req' = [req EXCEPT !.at = "refused"]
  /\ Requests

Held(place) == IF place.md THEN colour[place.colour] ELSE place.snap
(* _exec: fetchmany(cap + 1) of a result of so many rows.                  *)
Execute ==
  /\ req.at = "execute"
  /\ \E n \in {Cap, Cap + 1} :
       LET over == n > Cap /\ req.kind # "schema"
       IN  req' = [req EXCEPT !.at = "answer", !.got = Held(req.source), !.all = ~over, !.truncated = over]
  /\ Requests /\ UNCHANGED faults

(* The schema's answer is named by what is served when it is done.         *)
Answer ==
  /\ req.at = "answer"
  /\ req' = [req EXCEPT !.at = "answered",
                        !.label = IF req.kind = "schema" THEN Serving("schema") ELSE req.label,
                        !.seen[Route(req.source)] = req.got]
  /\ Requests /\ UNCHANGED faults
-------------------------------------------------------------------------------
(* What goes on beside the server.                                         *)
Moves == req' = [req EXCEPT !.moved = @ \/ req.at \in {"connect", "execute", "answer"}]
Beside == UNCHANGED <<backend, writable, server, excused>>

Promote ==
  /\ newest < MaxSnap /\ newest' = newest + 1 /\ link' = newest'
  /\ files' = {n \in files : n > newest - Keep \/ n = link} \cup {newest'}
  /\ Moves
  /\ Beside /\ UNCHANGED <<pointer, colour, building, turned, faults>>
LinkBack ==
  /\ Counts(TRUE) /\ turned' = TRUE
  /\ \E n \in files \cup {0} : n < link /\ link' = n
  /\ Moves
  /\ Beside /\ UNCHANGED <<files, newest, pointer, colour, building>>

(* A publish of a snapshot that is not served yet, also after one that     *)
(* failed and left its colour dropped.                                     *)
StartBuild ==
  /\ link # 0 /\ colour[pointer] # link
  /\ building' = [colour |-> Other(pointer), from |-> link]
  /\ colour' = [colour EXCEPT ![Other(pointer)] = 0]
  /\ Beside /\ UNCHANGED <<req, link, files, newest, pointer, turned, faults>>
Flip ==
  /\ building.colour # "none"
  /\ building' = [colour |-> "none", from |-> 0] /\ pointer' = building.colour
  /\ colour' = [colour EXCEPT ![building.colour] = building.from]
  /\ Moves
  /\ Beside /\ UNCHANGED <<link, files, newest, turned, faults>>
(* --rollback takes no lock: it may come amid a build.                     *)
Rollback ==
  /\ Counts(TRUE) /\ turned' = TRUE
  /\ pointer' = Other(pointer)
  /\ Moves
  /\ Beside /\ UNCHANGED <<link, files, newest, colour, building>>

Next ==
  \/ Start \/ Restart
  \/ (\E kind \in Kind : Capture(kind)) \/ Connect \/ Fails \/ Execute \/ Answer
  \/ Promote \/ LinkBack \/ StartBuild \/ Flip \/ Rollback

Spec == Init /\ [][Next]_vars
-------------------------------------------------------------------------------
Answered == req.at = "answered"

(* An answer names what its rows were read from: a query's always, since   *)
(* it captures the name once, the schema's unless what is served was moved *)
(* while it was read (it asks a second time).                              *)
AnswersAreTraceable ==
  Answered => req.label = req.source \/ (req.kind = "schema" /\ req.moved)

(* An answer is of a whole snapshot, all of it or flagged, and not older   *)
(* than the client's last by the same route, unless the pointer or the     *)
(* link was turned back, or moved during the request: its colour may then  *)
(* be rebuilt under it.                                                    *)
AnswersAreWhole ==
  Answered => /\ req.all \/ req.truncated
              /\ req.got # 0 \/ req.moved \/ turned
              /\ req.got >= req.before \/ req.moved \/ turned

(* A server that is up reads with a token that cannot write, unless it was *)
(* started where no snapshot was, or its probe failed for another reason.  *)
ServesReadOnly == server = "up" /\ writable => excused

(* What makes them inductive.  Unless something was turned back, the       *)
(* pointer names a whole colour and the newest, no newer than the link,    *)
(* which a build in the other colour was made from, and nobody has seen    *)
(* anything newer;                                                         *)
ServedInOrder ==
  ~turned =>
    /\ colour[pointer] # 0 /\ \A c \in Colour : colour[c] <= colour[pointer]
    /\ (link # 0 => colour[pointer] <= link) /\ building.from <= link
    /\ building.colour # "none" => building.colour = Other(pointer) /\ colour[pointer] <= building.from
    /\ req.seen.md <= colour[pointer] /\ req.seen.local <= link

(* a request that nothing moved under is about what is served, and one     *)
(* about the past is about no more than that.                              *)
AboutServed ==
  /\ ~req.moved => /\ req.at = "connect" => req.label = Serving(req.kind)
                   /\ req.at \in {"execute", "answer"} => req.source = Serving(req.kind)
  /\ req.at \in {"execute", "answer", "answered"} /\ req.kind # "schema" => req.label = req.source
  /\ req.at = "answer" => req.all \/ req.truncated
NothingNewer ==
  ~turned =>
    /\ req.at = "connect" /\ ~req.label.md => req.label.snap <= link
    /\ req.at \in {"execute", "answer"} =>
         /\ ~req.source.md => req.source.snap <= link /\ req.source.snap # 0
         /\ req.before <= req.seen[Route(req.source)]
    /\ req.at = "answer" =>
         /\ req.got <= IF req.source.md THEN colour[pointer] ELSE link
         /\ ~req.moved => req.got # 0 /\ req.got >= req.before
WritesToMd == writable => backend = "md"
ReadInv ==
  /\ TypeOK /\ ServedInOrder /\ AboutServed /\ NothingNewer /\ WritesToMd
  /\ AnswersAreTraceable /\ AnswersAreWhole /\ ServesReadOnly
===============================================================================
