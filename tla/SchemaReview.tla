----------------------------- MODULE SchemaReview -----------------------------
(***************************************************************************)
(* The schema moderator as its callers use it at the same time: the rules  *)
(* it publishes in versions, the review that judges a DDL by them and by   *)
(* the catalog, the ledger of what passed, the findings that become        *)
(* proposals for new rules, and the numbers it reserves for DDL files.  A  *)
(* rule is its code, a DDL the codes it breaks; every statement on the     *)
(* moderator's Postgres commits on its own.                                *)
(***************************************************************************)
EXTENDS Naturals, Sequences, FiniteSetsExt

CONSTANTS
  Code,        \* rules that block
  Seeded,      \* those of the first version
  Catalogued,  \* those that ask the catalog, e.g. for a column's consumers
  Ddl,         \* contents of DDL files
  Breaks,      \* the codes a content breaks
  Renamed,     \* contents with a column that may be declared a synonym
  Unique,      \* those that add a unique enforcement to one and the same column
  Swaps,       \* those of them that drop the old index in the same change
  FailClosed,  \* MODERATOR_LLM_FAIL_CLOSED
  Caller,      \* requests that the service answers at the same time
  MinCount,    \* findings that make a cluster
  MaxVersions, MaxProposals, MaxNumber, MaxRequests   \* bounds

VARIABLES
  rules,      \* moderator.rule by version: the codes in force
  synonyms,   \* moderator.column_alias: contents that use a synonym now
  proposals,  \* moderator.rule_proposal in order: [pattern, code, draft, status];
              \* history: made, the change it was promoted with
  issues,     \* moderator.issue: findings per code
  ledger,     \* moderator.approval_ledger
  reserved,   \* moderator.version_reservation, with what its caller had read
  main,       \* highest number of a DDL file on GitHub
  origin,     \* ... in the box's origin/main
  filed,      \* ... in the queue or in the ledger
  applied,    \* ... in core.schema_version of the served snapshot
  enforced,   \* the served catalog shows a unique enforcement on that column
  req,        \* what each caller is about
  requests    \* requests so far

vars == <<rules, synonyms, proposals, issues, ledger, reserved, main, origin, filed, applied, enforced, req, requests>>

(* What a draft or a call of publish_rules changes: nothing, for a note.   *)
RuleChange == [add : SUBSET Code, disable : SUBSET Code, alias : SUBSET Renamed]
Nothing == [add |-> {}, disable |-> {}, alias |-> {}]
Enables(r)  == [add |-> {r}, disable |-> {}, alias |-> {}]
Disables(r) == [add |-> {}, disable |-> {r}, alias |-> {}]
Declares(d) == [add |-> {}, disable |-> {}, alias |-> {d}]
Draft == {Nothing} \cup {Declares(d) : d \in Renamed}

Idle == [step |-> "idle"]
Version == 1..MaxVersions
Number == 0..MaxNumber
Review(steps) ==
  [step : steps, ddl : Ddl, keep : BOOLEAN, version : Version, found : SUBSET Code,
   readable : BOOLEAN, known : BOOLEAN, judged : BOOLEAN, verdict : {"pass", "block"}]
Request ==
  [step : {"idle", "fetch"}] \cup [step : {"version"}, ddl : Ddl, keep : BOOLEAN]
  \cup [step : {"rules"}, ddl : Ddl, keep : BOOLEAN, version : Version]
  \cup [step : {"catalog"}, ddl : Ddl, keep : BOOLEAN, version : Version, codes : SUBSET Code]
  \cup Review({"deep", "record"})
  \cup [step : {"publish"}, id : Nat \ {0}]
  \cup [step : {"status"}, id : Nat \ {0}, status : {"promoted", "rejected", "snoozed"}, change : RuleChange]
  \cup [step : {"max"}, main : Number]
  \cup [step : {"reserve"}, base : Number, known : Number, seen : Number]

TypeOK ==
  /\ rules \in Seq(SUBSET Code) /\ Len(rules) \in Version
  /\ synonyms \subseteq Renamed
  /\ proposals \in Seq([pattern : Nat, code : Code, draft : Draft, made : RuleChange,
                        status : {"pending", "snoozed", "rejected", "promoted"}])
  /\ Len(proposals) <= MaxProposals
  /\ issues \in [Code -> 0..MinCount + 1]
  /\ \A row \in ledger : row.ddl \in Ddl /\ row.version \in DOMAIN rules
  /\ \A r \in reserved : r.number \in Number
  /\ {main, origin, filed, applied} \subseteq Number /\ enforced \in BOOLEAN
  /\ req \in [Caller -> Request]
  /\ requests \in 0..MaxRequests

Init ==
  /\ rules = <<Seeded>> /\ synonyms = {} /\ proposals = <<>> /\ issues = [r \in Code |-> 0]
  /\ ledger = {} /\ reserved = {} /\ main = 1 /\ origin = 1 /\ filed = 1 /\ applied = 1 /\ enforced = FALSE
  /\ req = [c \in Caller |-> Idle] /\ requests = 0

Asks(c, r) ==
  /\ req[c].step = "idle" /\ requests < MaxRequests
  /\ req' = [req EXCEPT ![c] = r] /\ requests' = requests + 1
  /\ UNCHANGED <<rules, synonyms, proposals, issues, ledger, reserved, main, origin, filed, applied, enforced>>

Goes(c, r) == req' = [req EXCEPT ![c] = r]
At(c, step) == req[c].step = step
-------------------------------------------------------------------------------
(* /review and /record-pass.                                               *)
AsksReview(c) ==
  \E d \in Ddl, keep \in BOOLEAN : Asks(c, [step |-> "version", ddl |-> d, keep |-> keep])

(* load_rules: the newest version first, then that version's rules.        *)
ReadVersion(c) ==
  /\ At(c, "version")
  /\ Goes(c, [step |-> "rules", ddl |-> req[c].ddl, keep |-> req[c].keep, version |-> Len(rules)])
  /\ UNCHANGED <<rules, synonyms, proposals, issues, ledger, reserved, main, origin, filed, applied, enforced, requests>>

RulesOf_Latest(version) == rules[Len(rules)]
RulesOf(version) == rules[version]
ReadRules(c) ==
  /\ At(c, "rules")
  /\ Goes(c, [step |-> "catalog", ddl |-> req[c].ddl, keep |-> req[c].keep, version |-> req[c].version,
              codes |-> RulesOf(req[c].version)])
  /\ UNCHANGED <<rules, synonyms, proposals, issues, ledger, reserved, main, origin, filed, applied, enforced, requests>>

(* _index_findings: a second unique enforcement blocks unless the change   *)
(* drops the first; what cannot be read of the catalog is only warned of.  *)
(* The published row that may lower its tier is left out.                  *)
Known(readable) == readable /\ enforced
IndexBlocks(d, known) == known /\ d \in Unique \ Swaps

(* The synonyms carry no version into the review.  Without a snapshot to   *)
(* open, or a catalog in it, the rules that ask it do not fire.            *)
Findings(d, codes, readable) ==
  {r \in Breaks[d] \cap codes : readable \/ r \notin Catalogued}
FloorReview(c) ==
  /\ At(c, "catalog")
  /\ \E readable \in BOOLEAN :
       LET found == Findings(req[c].ddl, req[c].codes, readable)
           blocks == found # {} \/ req[c].ddl \in synonyms
                     \/ IndexBlocks(req[c].ddl, Known(readable))
       IN  Goes(c, [step |-> IF blocks THEN "record" ELSE "deep", ddl |-> req[c].ddl, keep |-> req[c].keep,
                    version |-> req[c].version, found |-> found, readable |-> readable,
                    known |-> Known(readable), judged |-> FALSE, verdict |-> "block"])
  /\ UNCHANGED <<rules, synonyms, proposals, issues, ledger, reserved, main, origin, filed, applied, enforced, requests>>

(* The model passes, blocks or cannot be reached.                          *)
Policy(answer) == IF answer = "unavailable" THEN (IF FailClosed THEN "block" ELSE "pass") ELSE answer
DeepReview(c) ==
  /\ At(c, "deep")
  /\ \E answer \in {"pass", "block", "unavailable"} :
       Goes(c, [req[c] EXCEPT !.step = "record", !.verdict = Policy(answer), !.judged = answer = "pass"])
  /\ UNCHANGED <<rules, synonyms, proposals, issues, ledger, reserved, main, origin, filed, applied, enforced, requests>>

(* write_issues: a row per finding, those that fail are only logged.       *)
WriteIssues(c) ==
  /\ At(c, "record") /\ ~req[c].keep
  /\ \E written \in SUBSET req[c].found :
       issues' = [r \in Code |-> IF r \in written /\ issues[r] <= MinCount THEN issues[r] + 1 ELSE issues[r]]
  /\ Goes(c, Idle)
  /\ UNCHANGED <<rules, synonyms, proposals, ledger, reserved, main, origin, filed, applied, enforced, requests>>

(* record_pass: nothing is written of a change that is blocked; a content  *)
(* that has its row keeps it.                                              *)
RecordPass(c) ==
  /\ At(c, "record") /\ req[c].keep
  /\ ledger' = IF req[c].verdict = "block" \/ \E row \in ledger : row.ddl = req[c].ddl THEN ledger
               ELSE ledger \cup {[ddl |-> req[c].ddl, version |-> req[c].version,
                                  readable |-> req[c].readable, known |-> req[c].known,
                                  judged |-> req[c].judged]}
  /\ Goes(c, Idle)
  /\ UNCHANGED <<rules, synonyms, proposals, issues, reserved, main, origin, filed, applied, enforced, requests>>

-------------------------------------------------------------------------------
(* publish_rules, in one transaction under an advisory lock: the version   *)
(* before it is copied forward and edited.                                 *)
Published(add, disable) == Append(rules, (rules[Len(rules)] \cup add) \ disable)
Publish(change) ==
  /\ Len(rules) < MaxVersions
  /\ rules' = Published(change.add, change.disable)
  /\ synonyms' = synonyms \cup change.alias

(* POST /rules, by an admin.                                               *)
PostRules(c) ==
  /\ At(c, "idle")
  /\ \/ \E r \in Code : Publish(Enables(r)) \/ Publish(Disables(r))
     \/ \E d \in Renamed : Publish(Declares(d))
  /\ UNCHANGED <<proposals, issues, ledger, reserved, main, origin, filed, applied, enforced, req, requests>>

(* The pattern names the number of findings, so that a cluster that has    *)
(* grown is proposed again.                                                *)
Pending(pattern) ==
  \E p \in DOMAIN proposals : proposals[p].pattern = pattern /\ proposals[p].status \in {"pending", "snoozed"}
Proposed(pattern, r, draft) ==
  proposals' = Append(proposals, [pattern |-> pattern, code |-> r, draft |-> draft, made |-> Nothing,
                                  status |-> "pending"])

(* The draft is an alias of the column that recurs, or a note.             *)
DetectProposals ==
  \E r \in Code :
    /\ issues[r] >= MinCount /\ ~Pending(issues[r]) /\ Len(proposals) < MaxProposals
    /\ \E draft \in Draft : Proposed(issues[r], r, draft)
    /\ UNCHANGED <<rules, synonyms, issues, ledger, reserved, main, origin, filed, applied, enforced, req, requests>>

(* An escape or a false positive, reported by an editor: a note.           *)
RecordFeedback ==
  /\ Len(proposals) < MaxProposals
  /\ \E r \in Code : Proposed(0, r, Nothing)
  /\ UNCHANGED <<rules, synonyms, issues, ledger, reserved, main, origin, filed, applied, enforced, req, requests>>

(* decide_proposal looks at no status: two people may decide of one        *)
(* proposal, each in three transactions, and the later one's status stays. *)
AsksDecision(c) ==
  \E p \in DOMAIN proposals, decision \in {"promoted", "rejected", "snoozed"} :
    Asks(c, IF decision = "promoted" THEN [step |-> "publish", id |-> p]
            ELSE [step |-> "status", id |-> p, status |-> decision, change |-> Nothing])

(* The draft is published as it is or as it was edited, if it changes      *)
(* anything; a note is not.                                                *)
Edits(r) == Draft \cup {Enables(r), Disables(r)}
Publishes(change) == change # Nothing
Promote(c) ==
  /\ At(c, "publish")
  /\ LET p == proposals[req[c].id] IN
     \/ \E change \in {p.draft} \cup Edits(p.code) :
          /\ IF Publishes(change) THEN Publish(change) ELSE UNCHANGED <<rules, synonyms>>
          /\ Goes(c, [step |-> "status", id |-> req[c].id, status |-> "promoted", change |-> change])
     \/ UNCHANGED <<rules, synonyms>> /\ Goes(c, Idle)      \* Postgres fails
  /\ UNCHANGED <<proposals, issues, ledger, reserved, main, origin, filed, applied, enforced, requests>>
SetStatus(c) ==
  /\ At(c, "status")
  /\ proposals' = [proposals EXCEPT ![req[c].id] =
                     [pattern |-> @.pattern, code |-> @.code, draft |-> @.draft, status |-> req[c].status,
                      made |-> IF req[c].status = "promoted" THEN req[c].change ELSE @.made]]
  /\ Goes(c, Idle)
  /\ UNCHANGED <<rules, synonyms, issues, ledger, reserved, main, origin, filed, applied, enforced, requests>>

-------------------------------------------------------------------------------
(* next_schema_version: fetch, which may fail; the highest number known;   *)
(* then insert the next one, up to 50 times while somebody else has it.     *)
AsksNumber(c) == Asks(c, [step |-> "fetch"])
Fetch(c) ==
  /\ At(c, "fetch")
  /\ \E fetched \in BOOLEAN :
       /\ origin' = IF fetched THEN main ELSE origin
       /\ Goes(c, [step |-> "max", main |-> IF fetched THEN main ELSE 0])
  /\ UNCHANGED <<rules, synonyms, proposals, issues, ledger, reserved, main, filed, applied, enforced, requests>>

(* The repository and the snapshot count as 0 when they cannot be read.    *)
ReadMax(c) ==
  /\ At(c, "max")
  /\ \E repo, snapshot \in BOOLEAN :
       LET shown == IF snapshot THEN applied ELSE 0
       IN  Goes(c, [step |-> "reserve",
                    base  |-> Max({IF repo THEN origin ELSE 0, shown, filed}),
                    known |-> Max({IF repo THEN req[c].main ELSE 0, shown, filed}),
                    seen  |-> Max({0} \cup {r.number : r \in reserved})])
  /\ UNCHANGED <<rules, synonyms, proposals, issues, ledger, reserved, main, origin, filed, applied, enforced, requests>>
Candidate(base, seen) == Max({base, seen}) + 1
Clashes(n) == \E r \in reserved : r.number = n
Reserve(c) ==
  /\ At(c, "reserve")
  /\ LET n == Candidate(req[c].base, req[c].seen)
     IN  IF Clashes(n)
         THEN /\ Goes(c, [req[c] EXCEPT !.seen = Max({r.number : r \in reserved})])
              /\ UNCHANGED reserved
         ELSE /\ n <= MaxNumber
              /\ reserved' = reserved \cup {[by |-> requests, caller |-> c, number |-> n, known |-> req[c].known]}
              /\ Goes(c, Idle)
  /\ UNCHANGED <<rules, synonyms, proposals, issues, ledger, main, origin, filed, applied, enforced, requests>>

(* Files reach main, the queue and the served snapshot: with a reserved    *)
(* number, or with one that somebody has taken from a checkout.            *)
FileMerges ==
  /\ \E n \in {main + 1} \cup {r.number : r \in reserved} :
       /\ n <= MaxNumber - 2
       /\ \/ main' = Max({main, n}) /\ UNCHANGED <<filed, applied>>
          \/ filed' = Max({filed, n}) /\ UNCHANGED <<main, applied>>
          \/ applied' = Max({applied, n}) /\ UNCHANGED <<main, filed>>
  /\ UNCHANGED <<rules, synonyms, proposals, issues, ledger, reserved, origin, enforced, req, requests>>

(* What passed has been applied and promoted to the snapshot.              *)
Promoted ==
  /\ \E row \in ledger : row.ddl \in Unique
  /\ enforced' = TRUE
  /\ UNCHANGED <<rules, synonyms, proposals, issues, ledger, reserved, main, origin, filed, applied, req, requests>>

Reviewing(c) == AsksReview(c) \/ ReadVersion(c) \/ ReadRules(c) \/ FloorReview(c) \/ DeepReview(c)
                \/ WriteIssues(c) \/ RecordPass(c)
Deciding(c) == PostRules(c) \/ AsksDecision(c) \/ Promote(c) \/ SetStatus(c)
Numbering(c) == AsksNumber(c) \/ Fetch(c) \/ ReadMax(c) \/ Reserve(c)
Next ==
  \/ \E c \in Caller : Reviewing(c) \/ Deciding(c) \/ Numbering(c)
  \/ DetectProposals \/ RecordFeedback \/ FileMerges \/ Promoted
Spec == Init /\ [][Next]_vars
-------------------------------------------------------------------------------
(* moderator_engine.py:49: what the rules of a row's version say of its    *)
(* content, asked of the same catalog, is that it passes, whatever was     *)
(* published while it was judged; failing closed, the model said so too.   *)
RowsReproducible ==
  \A row \in ledger :
    /\ Findings(row.ddl, rules[row.version], row.readable) = {}
    /\ ~IndexBlocks(row.ddl, row.known)
    /\ FailClosed => row.judged

(* moderator_engine.py:1137: a proposal that is marked promoted has had    *)
(* its draft, or the edit that replaced it, published, whoever else        *)
(* decided of it meanwhile.  Of a note, which changes nothing, no version  *)
(* is published: to be marked promoted then says nothing of the rules.     *)
InForce(change) ==
  /\ \E v \in DOMAIN rules : change.add \subseteq rules[v] /\ change.disable \cap rules[v] = {}
  /\ change.alias \subseteq synonyms
PromotedIsPublished ==
  \A p \in DOMAIN proposals : proposals[p].status = "promoted" => InForce(proposals[p].made)

(* moderator_engine.py:1042: no two callers get one number, and none gets  *)
(* one at or below what was on main when its origin was fetched, in the    *)
(* served snapshot, in the queue or in the ledger, as far as git and the   *)
(* snapshot could be read: a number that only a source nobody could read   *)
(* has may be given again.                                                 *)
NumbersDistinct ==
  /\ \A r, s \in reserved : r.number = s.number => r = s
  /\ \A r \in reserved : r.number > r.known
-------------------------------------------------------------------------------
(* Why it holds: versions are only appended, so that what a request read   *)
(* of its version stays what the version says; a decision's proposal and   *)
(* the numbers of main only grow.                                          *)
Passes(r) ==
  /\ r.version \in DOMAIN rules
  /\ Findings(r.ddl, rules[r.version], r.readable) = {} /\ ~IndexBlocks(r.ddl, r.known)
Judged(c) ==
  /\ At(c, "rules") => req[c].version \in DOMAIN rules
  /\ At(c, "catalog") => req[c].version \in DOMAIN rules /\ req[c].codes = rules[req[c].version]
  /\ At(c, "deep") => Passes(req[c])
  /\ At(c, "record") /\ req[c].verdict # "block" => Passes(req[c]) /\ (FailClosed => req[c].judged)
Backed(c) ==
  /\ req[c].step \in {"publish", "status"} => req[c].id \in DOMAIN proposals
  /\ At(c, "status") /\ req[c].status = "promoted" => InForce(req[c].change)
Grows(c) ==
  /\ At(c, "max") => req[c].main <= origin
  /\ At(c, "reserve") => req[c].known <= req[c].base
RequestsAreSound == \A c \in Caller : Judged(c) /\ Backed(c) /\ Grows(c)
ReviewInv ==
  /\ TypeOK /\ RequestsAreSound /\ origin <= main
  /\ RowsReproducible /\ PromotedIsPublished /\ NumbersDistinct
===============================================================================
