--------------------------- MODULE IngestsChannels ---------------------------
(***************************************************************************)
(* PASS B up to the DNS sweep: the mirrors of what other systems hold, each *)
(* as the blocks its function goes through.  The slices of a table are the *)
(* days, workspaces, files or source tables the function goes through.     *)
(***************************************************************************)
EXTENDS IngestBlocks

(* Attached Postgres tables, each replaced whole in a transaction of its   *)
(* own; the first that fails ends the phase.                               *)
comms_mirror ==
  <<Block(<<Unless("url"), Pull>>),
    Each(Undone(<<Prepare>> \o Atomic(<<Clear("raw_comms"), Pull, Fill("raw_comms")>>)))>>

(* Appends what the table does not hold yet.                               *)
sendivo_outbound_blast_mirror == <<Block(<<Pull, Run("raw_sendivo_outbound_message")>>)>>
sendivo_outbound_mirror       == <<Block(<<Pull, Run("raw_comms_sendivo_outbound")>>)>>
sendivo_recovered_mirror      == <<Block(<<Pull, Run("raw_comms_sendivo_recovered")>>)>>

(* Days, then brands, campaigns and numbers, then two months of billing:   *)
(* a day or a month that fails is left out of the run that is appended.    *)
sendivo_mirror ==
  <<Noted(Each(Block(<<Pull>>))),
    Block(<<Rows("raw_sendivo_delivery_metrics"), Pull, Rows("raw_sendivo_brands"),
            Pull, Rows("raw_sendivo_campaigns")>>),
    Noted(OfCalls(Block(<<Pull, Rows("raw_sendivo_phone_numbers")>>))),
    Noted(Each(Block(<<Pull>>))), Block(<<AddRun("raw_sendivo_billing")>>)>>

(* Reads the latest billing run.                                           *)
sendivo_cost ==
  <<Block(<<Unless("raw_sendivo_billing")>> \o ReloadFrom("core.cost_ledger (sendivo)", "raw_sendivo_billing"))>>

sendivo_inbound ==
  <<Block(<<Prepare, Pull, Fill("raw_sendivo_inbound"), Sweep("raw_sendivo_inbound")>>)>>

(* Slices are days; a reader takes the latest run of each day.             *)
sms_logs ==
  <<Block(<<Prepare>>),
    Noted(Each(Block(<<Pull, AddRun("raw_sendivo_campaign_daily"), AddRun("raw_sendivo_failure_daily"),
                       AddRun("raw_sendivo_hourly"), AddRun("raw_sendivo_blast_daily")>>))),
    Block(<<RaiseNoted>>)>>

billing_daily ==
  <<Noted(OfCalls(Each(Undone(<<Pull, SkipEmpty>> \o Atomic(<<Rows("raw_sendivo_billing_daily")>>))))),
    Block(<<RaiseNoted>>)>>

(* A walk that did not reach its end raises; the reconciliation afterwards *)
(* only notes.                                                             *)
iskra_messages ==
  <<Block(<<Pull, RaiseEmpty, Rows("raw_iskra_messages")>>), Noted(Block(<<Pull>>)), Block(<<Prepare>>)>>
iskra_conversations == <<Block(<<Pull, RaiseEmpty, Rows("raw_iskra_conversations")>>)>>
iskra_meetings ==
  <<Block(<<Pull, RaiseEmpty, Rows("raw_iskra_meetings"), Prepare>>), Noted(Block(<<Pull>>))>>
iskra_deals   == <<Block(<<Pull, RaiseEmpty, Rows("raw_iskra_deals")>>)>>
iskra_numbers == <<Block(<<Pull, RaiseEmpty, Rows("raw_iskra_numbers"), Pull, Run("raw_iskra_numbers_snapshot")>>)>>
iskra_stats   == <<Block(<<Pull, Run("raw_iskra_stats")>>)>>

account_daily_write    == Atomic(<<Fill("raw_instantly_account_daily")>>)
account_daily ==
  <<Noted(Each(UndoneWithBegin(<<Pull, SkipEmpty, Prepare>> \o account_daily_write))), Block(<<RaiseNoted>>)>>
account_settings_write == Atomic(<<Fill("raw_instantly_account_settings")>>)
account_settings ==
  <<Noted(Each(UndoneWithBegin(<<Pull, SkipEmpty, Prepare>> \o account_settings_write))), Block(<<RaiseNoted>>)>>

(* From each workspace's newest reply on; rows go in one by one.           *)
instantly_replies ==
  <<Block(<<Unless("WAREHOUSE_PULL_REPLIES"), Unless("keys")>>),
    Noted(Each(Block(<<Pull, SkipEmpty, Prepare, Pull, Rows("raw_instantly_email")>>)))>>

(* An error of the API ends the phase with success, before the rebuild.    *)
close_calls_rebuild ==
  <<Prepare>> \o ReloadFrom("core.call", "raw_close_call") \o ReloadFrom("core.call_outcome", "raw_close_call")
  \o ReloadFrom("core.warm_caller", "raw_close_call")
close_calls ==
  <<Block(<<Unless("key"), Prepare>>),
    Returned(OfCalls(Block(<<Pull, Rows("raw_close_call"), Prepare, Pull>>))),
    Block(close_calls_rebuild)>>

(* Dimensions are deleted before it is known whether the answer has rows;  *)
(* contacts only when there was a lead.                                    *)
close_crm_mirror ==
  <<Block(<<Unless("key"), Prepare>>),
    Returned(OfCalls(Block(<<Pull>> \o Reload("raw_close_lead_status")
                           \o <<Pull>> \o Reload("raw_close_custom_field")
                           \o <<Pull>> \o Reload("raw_close_smart_view")))),
    Returned(OfCalls(Block(<<Pull, Rows("raw_close_lead"), SkipEmpty>> \o Reload("raw_close_contact")))),
    Returned(OfCalls(Each(Block(<<Prepare, Pull, Rows("raw_close_activity")>>))))>>

no_show_campaign_member ==
  <<Block(<<Prepare, Unless("seeds"), Prepare>>),
    Undone(Atomic(Rebuild("core.no_show_campaign_member")))>>

(* Slices are the periods of the files.                                    *)
partner_feedback ==
  <<Block(<<Prepare, Unless("csv")>>),
    Each(Block(<<Prepare>> \o Rebuild("raw_partner_lead_feedback"))),
    Block(RebuildFrom("core.lead_disposition", "raw_partner_lead_feedback") \o <<Prepare>>)>>

(* Slices are tabs; a tab without a file is passed over.                   *)
sheets_mirror == <<Each(Block(<<Pull, SkipEmpty, Fill("raw_sheets")>>))>>

(* Five tables and a part of the ledger, each emptied and filled row by    *)
(* row on its own.                                                         *)
otd_cost_ledger == ReloadFrom("core.cost_ledger (otd)", "raw_sheets")
otd_reload(t) == ReloadFrom(t, "raw_sheets")
otd_billing ==
  <<Block(<<Unless("raw_sheets")>>
          \o otd_reload("core.otd_rate_tier") \o otd_reload("core.otd_batch")
          \o otd_reload("core.otd_charge") \o otd_reload("core.otd_payment")
          \o otd_reload("core.otd_credit") \o otd_cost_ledger)>>

(* BEGIN and COMMIT without a handler.                                     *)
im_bookings ==
  <<Block(<<Pull, RaiseEmpty, Prepare>> \o Atomic(Reload("raw_im_bookings") \o <<Run("raw_im_bookings")>>))>>

portal_booking_config ==
  <<Each(Undone(<<Pull, RaiseEmpty>> \o Atomic(Reload("raw_portal_booking_config"))))>>

account_truth ==
  <<Block(<<Pull, Prepare>>),
    UndoneWithBegin(Atomic(<<Run("raw_account_truth_accounts")>>))>>

(* The sweep is appended as it goes on, FLUSH_EVERY domains at a time.     *)
dns_sweep ==
  <<Block(<<Unless("core.sending_account"), Prepare, AddRun("raw_dns_sweep_domain"),
            Rows("raw_blacklist_check")>>)>>

recipient_domain ==
  <<Block(<<Prepare>> \o Rebuild("core.recipient_domain (consumer)")
          \o <<Prepare, Rows("core.recipient_domain")>>)>>
=============================================================================
