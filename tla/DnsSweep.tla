------------------------------- MODULE DnsSweep -------------------------------
(***************************************************************************)
(* The nightly sweep of the sending domains: sources/dns.py asks every     *)
(* domain's records and blocklists and never knows whether a silence is a  *)
(* no; entities/dns_sweep.py writes the results as they come, a buffer at  *)
(* a time; entities/domain.py rebuilds core.domain from the newest sweep.  *)
(* What the DNS would say does not change here, so that whatever differs   *)
(* between two sweeps is noise.  Redirects, PTR, IP blocklists and the     *)
(* Spamhaus REST check, which the sweep has switched off or derives, are   *)
(* left out.                                                               *)
(***************************************************************************)
EXTENDS FiniteSets, Naturals, Sequences

CONSTANTS
  Domain,      \* the active domains of core.sending_account
  Zone,        \* the blocklists asked, all of kind domain
  Blacklisted, \* what they say: pairs of domain and zone
  Bought,      \* the domains of the .co-sale batch
  Noting,      \* lookups of the signature whose failure has a column: mx, dmarc
  Silent,      \* those whose failure is dropped: spf, dkim
  FlushEvery,  \* results per buffer
  Nights       \* bound

VARIABLES
  night,
  step,    \* of the night: sweeping, then the build of core.domain, then over
  left,    \* domains that have not come back from the pool
  buf,     \* results since the last flush
  rows,    \* raw_dns_sweep_domain
  checks,  \* raw_blacklist_check
  core,    \* core.domain: [domain, run, listed], run 0 for the bought alone
  whole    \* history: the runs whose sweep came to its end

vars == <<night, step, left, buf, rows, checks, core, whole>>

Answer == {"nothing", "address", "sentinel", "error"}
Result == [domain : Domain, raised : BOOLEAN, failed : SUBSET (Noting \cup Silent),
           answers : [Zone -> Answer]]

TypeOK ==
  /\ night \in 1..Nights /\ step \in {"sweep", "build", "over"}
  /\ left \subseteq Domain /\ whole \subseteq 1..night /\ buf \in Seq(Result)
  /\ rows \subseteq [domain : Domain, run : 1..night, raised : BOOLEAN, noted : SUBSET Noting,
                    signature : SUBSET (Noting \cup Silent), listed : SUBSET Zone]
  /\ checks \subseteq [domain : Domain, run : 1..night, zone : Zone, status : {"listed", "error", "clean"}]
  /\ core \subseteq [domain : Domain \cup Bought, run : 0..night, listed : SUBSET Zone]

Init ==
  /\ night = 1 /\ step = "sweep" /\ left = Domain /\ buf = <<>>
  /\ rows = {} /\ checks = {} /\ core = {} /\ whole = {}

-------------------------------------------------------------------------------
(* _query: NXDOMAIN and an empty answer are answers, everything else is an *)
(* error; a resolver the list refuses gets a sentinel for an address.      *)
Says(d, z) == {IF <<d, z>> \in Blacklisted THEN "address" ELSE "nothing", "sentinel", "error"}

(* sweep_domain, caught by sweep_domains when something in it raises.      *)
Results(d) ==
  {r \in Result :
    /\ r.domain = d
    /\ \A z \in Zone : r.answers[z] \in Says(d, z)
    /\ r.raised => r.failed = {} /\ \A z \in Zone : r.answers[z] = "error"}

(* check_blacklists: of what is asked, what is listed and what cannot be   *)
(* said.  The dict of a sweep that raised has neither.                     *)
ListedOn(r) == {z \in Zone : ~r.raised /\ r.answers[z] = "address"}
Errors_TimeoutIsClean(r) == {z \in Zone : ~r.raised /\ r.answers[z] = "sentinel"}
Errors(r) == {z \in Zone : ~r.raised /\ r.answers[z] \in {"sentinel", "error"}}

(* resolve_spf, resolve_dkim and dns_signature: the signature is made of   *)
(* what came back.                                                         *)
Signature(r) == (Noting \cup Silent) \ r.failed

SweepRow(r) ==
  [domain |-> r.domain, run |-> night, raised |-> r.raised, noted |-> r.failed \cap Noting,
   signature |-> Signature(r), listed |-> ListedOn(r)]
BlacklistRows(r) ==
  {[domain |-> r.domain, run |-> night, zone |-> z,
    status |-> IF z \in ListedOn(r) THEN "listed" ELSE IF z \in Errors(r) THEN "error" ELSE "clean"] :
      z \in Zone}

SweepRows(results) == {SweepRow(results[i]) : i \in DOMAIN results}
CheckRows(results) == UNION {BlacklistRows(results[i]) : i \in DOMAIN results}

(* _flush: the sweep's rows, then the checks', one statement per row.      *)
Flush(results) ==
  /\ rows' = rows \cup SweepRows(results)
  /\ checks' = checks \cup CheckRows(results)
  /\ buf' = <<>>
FlushStops(results) ==
  /\ \/ /\ \E n \in 0..(Len(results) - 1) : rows' = rows \cup SweepRows(SubSeq(results, 1, n))
        /\ UNCHANGED checks
     \/ /\ rows' = rows \cup SweepRows(results)
        /\ \E some \in SUBSET CheckRows(results) : checks' = checks \cup some
  /\ buf' = <<>>

(* _on_result, for the futures in the order in which they complete; the    *)
(* last buffer is flushed whether it is full or not.  A statement that     *)
(* fails ends the ingest.                                                  *)
OnResult(d) ==
  /\ step = "sweep" /\ d \in left
  /\ left' = left \ {d}
  /\ \E r \in Results(d) :
       LET results == Append(buf, r)
           due == Cardinality(Domain \ left') % FlushEvery = 0 \/ left' = {}
       IN  \/ /\ ~due
              /\ buf' = results
              /\ UNCHANGED <<step, rows, checks, whole>>
           \/ /\ due
              /\ Flush(results)
              /\ step' = IF left' = {} THEN "build" ELSE step
              /\ whole' = IF left' = {} THEN whole \cup {night} ELSE whole
           \/ /\ due
              /\ FlushStops(results)
              /\ step' = "build"
              /\ UNCHANGED whole
  /\ UNCHANGED <<night, core>>

(* The orchestrator is killed: what is buffered is lost, nothing follows.  *)
Dies ==
  /\ step = "sweep"
  /\ step' = "over" /\ buf' = <<>>
  /\ UNCHANGED <<night, left, rows, checks, core, whole>>

(* run_domain: the newest row names the sweep that is read, whole or not;  *)
(* bought domains it does not have come back without their DNS.  How the   *)
(* rebuild itself may stop is in the ingests' programs.                    *)
Newest == CHOOSE run \in {r.run : r \in rows} : \A r \in rows : r.run <= run
Built(run) ==
  LET swept == {r \in rows : r.run = run}
      domains == {r.domain : r \in swept}
  IN  {[domain |-> r.domain, run |-> run, listed |-> r.listed] : r \in swept}
      \cup {[domain |-> d, run |-> 0, listed |-> {}] : d \in Bought \ domains}
Build ==
  /\ step = "build"
  /\ core' = IF rows = {} THEN core ELSE Built(Newest)
  /\ step' = "over"
  /\ UNCHANGED <<night, left, buf, rows, checks, whole>>

NextNight ==
  /\ step = "over" /\ night < Nights
  /\ night' = night + 1 /\ step' = "sweep" /\ left' = Domain /\ buf' = <<>>
  /\ UNCHANGED <<rows, checks, core, whole>>

Next == (\E d \in Domain : OnResult(d)) \/ Dies \/ Build \/ NextNight
Spec == Init /\ [][Next]_vars
-------------------------------------------------------------------------------
(* dns.py:29: a blocklist that did not answer is never taken for a clean   *)
(* one, nor a sentinel for a listing, except where the sweep of the domain *)
(* raised, which leaves every check of it clean.                           *)
SilenceIsNotClean ==
  \A c \in checks :
    /\ c.status = "listed" => <<c.domain, c.zone>> \in Blacklisted
    /\ c.status = "clean" =>
         \/ <<c.domain, c.zone>> \notin Blacklisted
         \/ \E r \in rows : r.domain = c.domain /\ r.run = c.run /\ r.raised

(* dns.py:713: two sweeps of one domain that note no failure have the same *)
(* signature, but for the lookups whose failure nobody notes.              *)
NoiseIsNoted ==
  \A r, s \in rows :
    r.domain = s.domain /\ ~r.raised /\ ~s.raised /\ r.noted = {} /\ s.noted = {}
      => r.signature \ Silent = s.signature \ Silent

(* entities/domain.py:127: what core.domain lists of a domain is what the  *)
(* checks of its sweep say; a domain is out of it only after a sweep that  *)
(* did not come to its end.                                                *)
CoreFollowsTheSweep ==
  /\ \A d \in core : d.run \in whole =>
       d.listed = {c.zone : c \in {k \in checks : k.domain = d.domain /\ k.run = d.run /\ k.status = "listed"}}
  /\ step = "over" /\ night \in whole =>
       {[domain |-> d.domain, run |-> d.run] : d \in core}
         = {[domain |-> d, run |-> night] : d \in Domain}
           \cup {[domain |-> d, run |-> 0] : d \in Bought \ Domain}
-------------------------------------------------------------------------------
(* Why it holds: a domain comes back once a night, into the buffer and     *)
(* from there into the rows, with its checks as long as no flush stops;    *)
(* core.domain has what a row had.                                         *)
Tonight == {r.domain : r \in {s \in rows : s.run = night}}
Buffered == {buf[i].domain : i \in DOMAIN buf}
OncePerNight ==
  /\ \A r, s \in rows : r.domain = s.domain /\ r.run = s.run => r = s
  /\ \A i, j \in DOMAIN buf : buf[i].domain = buf[j].domain => i = j
  /\ Tonight \cap Buffered = {} /\ Tonight \cup Buffered \subseteq Domain \ left
  /\ \A i \in DOMAIN buf : buf[i] \in Results(buf[i].domain)
NothingMissing ==
  /\ step = "sweep" => Tonight \cup Buffered = Domain \ left /\ night \notin whole
  /\ step # "sweep" => buf = <<>>
  /\ night \in whole => Tonight = Domain /\ Domain # {}
ChecksHaveRows == \A c \in checks : \E r \in rows : r.domain = c.domain /\ r.run = c.run
ListingsFollow ==
  \A r \in rows : r.run \in whole \/ (r.run = night /\ step = "sweep") =>
    r.listed = {c.zone : c \in {k \in checks : k.domain = r.domain /\ k.run = r.run /\ k.status = "listed"}}
NoiseHasMark == \A r \in rows : r.noted = {} => r.signature \ Silent = Noting \ Silent
CoreHasRows ==
  \A d \in core : d.run # 0 =>
    \E r \in rows : r.domain = d.domain /\ r.run = d.run /\ r.listed = d.listed
SweepInv ==
  /\ TypeOK /\ OncePerNight /\ NothingMissing /\ ChecksHaveRows /\ ListingsFollow
  /\ NoiseHasMark /\ CoreHasRows /\ SilenceIsNotClean /\ NoiseIsNoted /\ CoreFollowsTheSweep
===============================================================================
