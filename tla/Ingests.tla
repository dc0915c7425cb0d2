------------------------------ MODULE Ingests ------------------------------
(***************************************************************************)
(* The registered ingests in the order the orchestrator calls them, and    *)
(* what their runs promise about the tables others read.                   *)
(***************************************************************************)
EXTENDS IngestRun, IngestsFleet, IngestsChannels, IngestsCanonical, IngestsDerived, NightlyStages, TLC

(* What register() of every module of entities/ adds.                      *)
Registered == [
  pipeline_mirror |-> pipeline_mirror, inbox_loader |-> inbox_loader,
  account_campaign_live |-> account_campaign_live, account_error |-> account_error, campaign |-> campaign,
  campaign_analytics |-> campaign_analytics, campaign_analytics_snapshot |-> campaign_analytics_snapshot,
  analytics_daily |-> analytics_daily, workspace |-> workspace,
  account_census |-> account_census,
  account_first_cold_send |-> account_first_cold_send, batch_registry |-> batch_registry,
  hub_domain_flag |-> hub_domain_flag, hub_filters_clicks |-> hub_filters_clicks,
  hub_fleet_history |-> hub_fleet_history, hub_problem_ack |-> hub_problem_ack,
  inbox_date_history |-> inbox_date_history, inbox_warmup_override |-> inbox_warmup_override,
  sending_account |-> sending_account, account_tags |-> account_tags,
  comms_mirror |-> comms_mirror, sendivo_outbound_blast_mirror |-> sendivo_outbound_blast_mirror,
  sendivo_outbound_mirror |-> sendivo_outbound_mirror, sendivo_recovered_mirror |-> sendivo_recovered_mirror,
  sendivo_mirror |-> sendivo_mirror, billing_daily |-> billing_daily, sendivo_inbound |-> sendivo_inbound,
  sms_logs |-> sms_logs, iskra_messages |-> iskra_messages, iskra_conversations |-> iskra_conversations,
  iskra_meetings |-> iskra_meetings, iskra_deals |-> iskra_deals, iskra_numbers |-> iskra_numbers,
  iskra_stats |-> iskra_stats, account_daily |-> account_daily, account_settings |-> account_settings,
  instantly_replies |-> instantly_replies, close_calls |-> close_calls, close_crm_mirror |-> close_crm_mirror,
  no_show_campaign_member |-> no_show_campaign_member, partner_feedback |-> partner_feedback,
  sheets_mirror |-> sheets_mirror, otd_billing |-> otd_billing, im_bookings |-> im_bookings,
  portal_booking_config |-> portal_booking_config, account_truth |-> account_truth,
  dns_sweep |-> dns_sweep, recipient_domain |-> recipient_domain,
  account_label |-> account_label, account_status_history |-> account_status_history,
  conversion_event |-> conversion_event, domain |-> domain, reply_canonical |-> reply_canonical,
  iam_response_time |-> iam_response_time, lead_spine |-> lead_spine, meeting |-> meeting,
  meeting_rebuilt |-> meeting_rebuilt, mof_bi_history |-> mof_bi_history, opportunity |-> opportunity,
  reply_label_event |-> reply_label_event, rollup_history |-> rollup_history, sendivo_cost |-> sendivo_cost,
  campaign_infra |-> campaign_infra, deal_funded |-> deal_funded, esp_matrix |-> esp_matrix,
  lead_intel |-> lead_intel, lead_status_event |-> lead_status_event,
  moderator_ledger_mirror |-> moderator_ledger_mirror, reply_is_positive_qwen |-> reply_is_positive_qwen,
  reply_is_positive_strict |-> reply_is_positive_strict, reply_offer |-> reply_offer,
  schema_manifest |-> schema_manifest, sending_dq |-> sending_dq,
  sms_meeting_phone_enriched |-> sms_meeting_phone_enriched,
  sms_reply_is_positive_qwen |-> sms_reply_is_positive_qwen, variant_copy |-> variant_copy]

(* What nightly.sh starts after the second pass.                           *)
Started == [
  signature_phone_sync |-> signature_phone_sync, campaign_performance |-> campaign_performance,
  sms_feed |-> sms_feed, overview |-> overview, cc_mirror |-> cc_mirror, campaign_daily |-> campaign_daily,
  deliv_reply_lag |-> deliv_reply_lag, email_outbound_fold |-> email_outbound_fold,
  sla_reply_time |-> sla_reply_time, instantly_credit |-> instantly_credit, ns_sweep |-> ns_sweep,
  domain_registry_ns |-> domain_registry_ns, registrars_refresh |-> registrars_refresh,
  registrars_from_cache |-> registrars_from_cache, registrar_domains |-> registrar_domains,
  purchased_at_from_sheet |-> purchased_at_from_sheet, sync_registry |-> sync_registry]

Programs == Registered @@ Started

(* PHASE_ORDER, cut into parts; within a phase the modules by file name.    *)
Fleet == <<"pipeline_mirror", "inbox_loader",
  "account_campaign_live", "account_error", "campaign", "campaign_analytics", "campaign_analytics_snapshot",
  "analytics_daily", "workspace">>
Core == <<"account_census",
  "account_first_cold_send", "batch_registry", "hub_domain_flag", "hub_filters_clicks", "hub_fleet_history",
  "hub_problem_ack", "inbox_date_history", "inbox_warmup_override", "sending_account", "account_tags">>
Sms == <<"comms_mirror", "sendivo_outbound_blast_mirror", "sendivo_outbound_mirror", "sendivo_recovered_mirror",
  "sendivo_mirror", "billing_daily", "sendivo_inbound", "sms_logs">>
Replies == <<"iskra_messages", "iskra_conversations", "iskra_meetings", "iskra_deals", "iskra_numbers",
  "iskra_stats", "account_daily", "account_settings", "instantly_replies">>
Sales == <<"close_calls", "close_crm_mirror", "no_show_campaign_member", "partner_feedback", "sheets_mirror",
  "otd_billing">>
Bookings == <<"im_bookings", "portal_booking_config", "account_truth", "dns_sweep", "recipient_domain">>
Canonical == <<"account_label", "account_status_history", "conversion_event", "domain", "reply_canonical",
  "iam_response_time", "lead_spine", "meeting", "meeting_rebuilt", "mof_bi_history", "opportunity",
  "reply_label_event", "rollup_history", "sendivo_cost">>
Derived == <<"campaign_infra", "deal_funded", "esp_matrix", "lead_intel", "lead_status_event",
  "moderator_ledger_mirror", "reply_is_positive_qwen", "reply_is_positive_strict", "reply_offer",
  "schema_manifest", "sending_dq", "sms_meeting_phone_enriched", "sms_reply_is_positive_qwen", "variant_copy">>
(* A pass that keeps the tables the ingests read of each other, in order.  *)
Readers_SpineLast == <<"account_census", "account_first_cold_send", "sending_account", "sheets_mirror", "im_bookings",
  "dns_sweep", "conversion_event", "domain", "lead_intel", "lead_spine", "meeting", "meeting_rebuilt", "sending_dq">>
Readers == <<"account_census", "account_first_cold_send", "sending_account", "sheets_mirror", "im_bookings",
  "dns_sweep", "conversion_event", "domain", "lead_spine", "meeting", "meeting_rebuilt", "lead_intel", "sending_dq">>
Census == <<"workspace", "account_census", "account_label">>
(* The tail of the night, and what it does once a week.                    *)
Feeds == <<"signature_phone_sync", "campaign_performance", "sms_feed", "overview", "cc_mirror", "campaign_daily",
  "deliv_reply_lag", "email_outbound_fold", "sla_reply_time", "instantly_credit">>
DomainsDaily == <<"domain_registry_ns", "registrars_from_cache", "registrar_domains", "purchased_at_from_sheet",
  "sync_registry">>
DomainsWeekly == <<"ns_sweep", "domain_registry_ns", "registrars_refresh", "registrar_domains",
  "purchased_at_from_sheet", "sync_registry">>
PassA == Fleet \o Core
PassB == Sms \o Replies \o Sales \o Bookings \o Canonical \o Derived

(* Every BEGIN has its COMMIT in its block, with no test in between that   *)
(* could leave the transaction, and a handler, but for im_bookings and for *)
(* the processes, which close their connection when they end.              *)
Between(bl, b, c) == \A k \in b + 1 .. c - 1 : bl.steps[k].op \notin {"begin", "commit", "unless"} \cup Tests
Closes(bl, b) ==
  \E c \in DOMAIN bl.steps : c > b /\ bl.steps[c].op = "commit" /\ Between(bl, b, c)

ASSUME HandledAssumption ==
  \A g \in DOMAIN Program : \A n \in DOMAIN Program[g] :
    \A b \in DOMAIN Program[g][n].steps :
      Program[g][n].steps[b].op = "begin" =>
        Closes(Program[g][n], b) /\ (g \in {"im_bookings"} \cup Processes \/ Program[g][n].undo # "none")

(***************************************************************************)
(* What the runs promise.                                                  *)
(***************************************************************************)
Over == stage \in {"closed", "killed"}
Writers(t) == {g \in Ingests : t \in Written(Program[g])}

(* The one ingest that opens a transaction without a handler has met an    *)
(* error in this run.                                                      *)
Leaked == "im_bookings" \in hit

(* An ingest that writes t reads a table with a hole, or one that had one. *)
Derives(t) == \E u \in HoledTables \cup had : \E g \in Writers(t) : u \in Read(Program[g])

(* Tables emptied and filled again statement by statement.                 *)
Exposed == {
  "core.sending_account", "sending_account_PRE", "core.account_tags", "core.workspace_name_history",
  "core.cost_ledger (sendivo)", "core.cost_ledger (otd)", "raw_sendivo_billing", "raw_sendivo_campaign_daily",
  "raw_sendivo_failure_daily", "raw_sendivo_hourly", "raw_sendivo_blast_daily", "core.call", "core.call_outcome",
  "core.warm_caller", "raw_close_contact", "raw_partner_lead_feedback", "core.lead_disposition",
  "core.otd_rate_tier", "core.otd_batch", "core.otd_charge", "core.otd_payment", "core.otd_credit",
  "raw_dns_sweep_domain", "core.recipient_domain (consumer)", "core.conversion_event", "core.domain",
  "core.reply", "core.iam_response_time", "core.lead", "core.meeting", "core.opportunity", "core.deal_funded",
  "mv_esp_send_matrix", "derived.lead_intel", "core.schema_consumers", "core.sending_account_daily",
  "sms-campaign-performance"}

(* Tables replaced by whatever a source answered, also by nothing.         *)
Trusting == {"raw_close_lead_status", "raw_close_custom_field", "raw_close_smart_view",
             "core.batch_registry", "core.account_campaign_live", "raw_comms", "raw_sendivo_inbound",
             "core.campaign_daily", "core.campaign_variant"}

(* Built in the night ahead of a table they read, or from themselves: a    *)
(* hole of last night's comes through.                                     *)
Lagging == {"core.conversion_event", "core.account_first_cold_send", "core.sending_account", "sending_account_PRE",
            "prior census"}

(* A workspace whose key does not answer counts as inactive, and of a      *)
(* workspace that is absent from the poll the census carries the accounts  *)
(* forward only if it is active: if both calls fail, they are gone.        *)
Uncarried == {"core.account_census", "core.account_label"}

(* What comes of sources that are asked once a week: an account that did   *)
(* not answer is missing until they are asked again.                       *)
AskedWeekly == {"ns_sweep.parquet", "registrar caches", "raw_registrar_domains", "core.registrar_snapshot"}

(* The other tables.  Whoever empties one does so between BEGIN and COMMIT *)
(* and has filled it again before the COMMIT: from a table that is kept    *)
(* too, or from an answer that it has tested and that is not there for     *)
(* some slices only.                                                       *)
Kept(t) == t \notin Exposed \cup Trusting \cup Lagging \cup Uncarried \cup AskedWeekly

Inside(bl, k) ==
  \E b \in 1 .. k - 1, c \in k .. Len(bl.steps) :
    bl.steps[b].op = "begin" /\ bl.steps[c].op = "commit" /\ Between(bl, b, c)

Tested(bl, k) ==
  \E j \in 1 .. k - 1 : /\ bl.steps[j].op \in {"refuse", "skip", "insist"}
                       /\ \A i \in j + 1 .. k - 1 : bl.steps[i].op # "pull"
Quiet(program) == \A st \in StepsOf(program) : st.op # "pull"
Plain(program) ==
  \A n \in DOMAIN program : \A k \in DOMAIN program[n].steps :
    program[n].steps[k].op = "pull" => program[n].steps[k].t # "parts" /\ ~program[n].each

FillsAgain(program, bl, k, t) ==
  /\ bl.steps[k].op \in {"fill", "rows"} /\ bl.steps[k].t = t /\ bl.steps[k].on = "here"
  /\ bl.steps[k].from # "" \/ Quiet(program) \/ (Tested(bl, k) /\ (bl.each \/ Plain(program)))

(* Before its step k the block has emptied t and not yet filled it.        *)
Owed(program, bl, k, t) ==
  \E b \in 1 .. k - 1 : /\ bl.steps[b].op = "clear" /\ bl.steps[b].t = t
                       /\ \A i \in b + 1 .. k - 1 : ~FillsAgain(program, bl, i, t)

MadeGood(program, bl, k) ==
  LET st == bl.steps[k] IN
  /\ st.op \in Writes /\ Kept(st.t) => st.op \in {"clear", "fill", "rows", "retire"}
  /\ st.op = "clear" /\ Kept(st.t) => Inside(bl, k) /\ st.on = "here"
  /\ st.op = "commit" =>
       Inside(bl, k) /\ \A b \in 1 .. k - 1 : Kept(bl.steps[b].t) => ~Owed(program, bl, k, bl.steps[b].t)
  /\ st.op \in {"fill", "rows"} /\ st.from # "" /\ Kept(st.t) /\ Owed(program, bl, k, st.t) =>
       Kept(st.from) /\ ~Owed(program, bl, k, st.from)

ASSUME KeptAssumption ==
  \A g \in DOMAIN Program : \A n \in DOMAIN Program[g] :
    \A k \in DOMAIN Program[g][n].steps : MadeGood(Program[g], Program[g][n], k)

(* Tables whose ingests note a failure and go on, or empty them before     *)
(* they look.                                                              *)
Hushed == {"core.account_tags", "core.account_census", "raw_sendivo_billing", "core.schema_consumers",
           "core.opportunity"}

(* An ingest hands the connection over without a transaction, but for the  *)
(* one that has no handler: otherwise the audit rows, and whatever the     *)
(* next ingests write, would hang on a transaction that nobody commits.    *)
CleanHandover == stage = "next" => tx = "none" \/ Leaked

(* Whatever fails, and wherever the process is killed: only the tables     *)
(* named above can be found with a hole.  Every other one is replaced in   *)
(* one transaction or one statement, or only ever added to.                *)
OnlyExposedAreLost == Over => \A t \in HoledTables : ~Kept(t)

(* No hole is made that nobody reports: if the run came to its end, an     *)
(* ingest that writes the table has a failed audit row, or the hole is one *)
(* of a table it reads.                                                    *)
LossIsReported ==
  stage = "closed" /\ exit # 2 /\ ~Leaked =>
    \A t \in HoledTables \ (had \cup Hushed \cup Trusting \cup AskedWeekly) :
      Derives(t) \/ \E g \in Writers(t) : disk.audit[g] = "failed"

(* One ingest's failure is its own: each has its audit row, a failed one   *)
(* only if it met an error, an empty answer or a missing input itself, and *)
(* the exit status is 1 exactly if there is one.                           *)
FailuresStayLocal ==
  stage = "closed" /\ ~Leaked =>
    /\ exit = IF \E g \in Ingests \ Processes : disk.audit[g] = "failed" THEN 1 ELSE 0
    /\ \A g \in Ingests : disk.audit[g] = "failed" => g \in hit \cup lean

(* A night without trouble mends what the night before left, but for the   *)
(* tables built in the night ahead of one they read, and the one that is   *)
(* rebuilt from itself.                                                    *)
MendedNextNight ==
  stage = "closed" /\ runs = <<>> /\ hit = {} /\ lean = {} => HoledTables \subseteq Lagging \cup AskedWeekly
============================================================================
