--------------------------- MODULE IngestsDerived ---------------------------
(***************************************************************************)
(* PASS B, the derived phase: what is computed from the canonical tables,  *)
(* each ingest as the blocks its function goes through.                    *)
(***************************************************************************)
EXTENDS IngestBlocks

(* Staged in temporary tables, merged in one transaction.                  *)
campaign_infra_universe    == <<Prepare>>
campaign_infra_derivations == <<Prepare>>
campaign_infra_merge       == <<Rows("core.campaign_infra")>>
campaign_infra_liveness    == <<Run("core.campaign_infra")>>
campaign_infra_recipients  == <<Run("core.campaign_infra")>>
campaign_infra ==
  <<Block(campaign_infra_universe \o campaign_infra_derivations),
    Undone(Atomic(campaign_infra_merge \o campaign_infra_liveness \o campaign_infra_recipients)),
    Block(<<Prepare>>)>>

(* Slices are the files of the partner.                                    *)
deal_funded ==
  <<Block(<<Unless("csv"), Clear("core.deal_funded")>>),
    Each(Block(<<Prepare, Fill("core.deal_funded")>>)), Block(<<Prepare>>)>>

esp_matrix_Notes == <<Noted(Block(Rebuild("mv_esp_send_matrix") \o <<Prepare>>))>>
esp_matrix == <<Block(Rebuild("mv_esp_send_matrix") \o <<Prepare>>)>>

lead_intel ==
  <<Block(<<Prepare, Prepare>> \o RebuildFrom("derived.lead_intel", "core.lead") \o <<Prepare>>)>>

lead_status_event == <<Block(<<Unless("source"), Run("raw_lead_status_event"), Prepare>>)>>

(* Whatever goes wrong, the phase is a success.                            *)
moderator_ledger_mirror ==
  <<Returned(Block(<<Unless("dsn"), Pull, Rows("core.schema_gate_pass")>>))>>

(* CREATE OR REPLACE TABLE from a seed file, then the counts must agree.   *)
FromSeed(t) == <<Block(<<Prepare, Unless("seed"), Prepare, Fill(t), Prepare>>)>>

reply_is_positive_qwen     == FromSeed("derived.reply_is_positive_qwen")
reply_is_positive_strict   == FromSeed("derived.reply_is_positive_strict")
reply_offer                == FromSeed("derived.reply_offer")
sms_meeting_phone_enriched == FromSeed("derived.sms_meeting_phone_enriched")
sms_reply_is_positive_qwen == FromSeed("derived.sms_reply_is_positive_qwen")

(* The catalog, then who reads what, then the drift; never raises.         *)
schema_manifest_catalog   == <<Prepare, Rows("core.schema_catalog")>>
schema_manifest_consumers == Reload("core.schema_consumers")
schema_manifest_drift     == <<Run("core.schema_issue")>>
schema_manifest ==
  <<Returned(Block(schema_manifest_catalog \o schema_manifest_consumers \o schema_manifest_drift))>>

(* The daily table of all accounts is dropped and filled again day by day  *)
(* (the slices), each day in a transaction of its own.                     *)
sending_dq_exports == Each(Block(<<Run("raw_account_truth_daily_actuals")>>))
sending_dq_capacity == Block(<<Prepare, Run("raw_account_truth_daily_actuals"), Prepare>>)
sending_dq_daily ==
  <<Block(<<Prepare, Clear("core.sending_account_daily"), Prepare>>),
    Each(Undone(Atomic(<<Fill("core.sending_account_daily")>>)))>>
sending_dq_esp ==
  <<Block(<<Run("core.sending_account_daily")>>),
    Noted(Block(<<Run("core.sending_account_daily")>>)), Noted(Block(<<Run("core.sending_account_daily")>>))>>
sending_dq ==
  <<Noted(Block(<<Prepare>>)), Block(<<Run("core.sending_account"), Prepare>>), Noted(Block(<<Prepare>>)),
    sending_dq_exports, sending_dq_capacity>>
  \o sending_dq_daily \o sending_dq_esp \o <<Block(<<Prepare>>)>>

(* A row per new text of a variant; what is not parsed is passed over.     *)
variant_copy == <<Block(<<Prepare, Rows("core.variant_copy")>>)>>
=============================================================================
