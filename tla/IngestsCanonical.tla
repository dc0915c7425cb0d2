-------------------------- MODULE IngestsCanonical --------------------------
(***************************************************************************)
(* PASS B, the canonical phase: the tables the reports and the portal read,*)
(* rebuilt from the mirrors, each as the blocks its function goes through. *)
(***************************************************************************)
EXTENDS IngestBlocks

account_label ==
  <<Block(<<Unless("core.account_census"), Unless("census_date")>>),
    UndoneWithBegin(Atomic(RebuildFrom("core.account_label", "core.account_census")))>>

account_status_history ==
  <<Block(<<Unless("table"), Unless("core.account_census"), Unless("census_date")>>),
    UndoneWithBegin(Atomic(<<FillFrom("core.account_status_history", "core.account_census")>>))>>

(* Three channels one after the other, without a transaction; the counts   *)
(* and the lead keys are best effort.                                      *)
conversion_event ==
  <<Block(<<Prepare>>), Noted(Block(<<Run("indexes")>>)),
    Block(<<Clear("core.conversion_event"),
            PartFrom("core.conversion_event", "core.meeting"),
            PartFrom("core.conversion_event", "raw_im_bookings"),
            FillFrom("core.conversion_event", "core.call")>>),
    Noted(Block(<<Run("core.warm_caller")>>)),
    Noted(Block(<<Run("core.conversion_event")>>)),
    Noted(Block(<<Run("indexes")>>)), Block(<<Prepare>>)>>

domain ==
  <<Block(<<Unless("raw_dns_sweep_domain"), Prepare>>), Noted(Block(<<Run("indexes")>>)),
    Block(<<Clear("core.domain"), PartFrom("core.domain", "raw_dns_sweep_domain"), Fill("core.domain")>>),
    Noted(Block(<<Run("indexes")>>))>>

(* The Instantly replies go in one bucket (a slice) at a time.             *)
reply_canonical ==
  <<Block(<<Prepare, Prepare, Clear("core.reply")>>),
    Each(Block(<<PartFrom("core.reply", "raw_instantly_email")>>)),
    Block(<<Prepare, Fill("core.reply"), Prepare>>)>>

(* DROP TABLE, CREATE TABLE and INSERT, each on its own.                   *)
iam_response_time ==
  <<Block(<<Prepare>> \o Rebuild("core.iam_response_time") \o <<Run("indexes"), Prepare>>)>>

(* With no source at hand the spine is left empty, on purpose.             *)
lead_spine_enriched ==
  <<Noted(Block(<<FillFrom("core.lead", "core.lead_attrs")>>)),
    Noted(Block(<<Prepare, Fill("core.lead")>>))>>
lead_spine ==
  <<Block(<<Prepare, Prepare, Clear("core.lead")>>)>> \o lead_spine_enriched
  \o <<Block(<<Fill("core.lead"), Prepare>>)>>

(* Slack, the sheet, the portal and the partners in turn, then the passes  *)
(* that correct and complete the rows; no transaction from end to end.     *)
meeting_slack    == <<Prepare, Clear("core.meeting"), Part("core.meeting")>>
meeting_sheet    == <<PartFrom("core.meeting", "raw_sheets")>>
meeting_portal   == <<PartFrom("core.meeting", "raw_im_bookings")>>
meeting_dedup    == <<Prepare, Run("core.meeting")>>
meeting_partners == <<Fill("core.meeting"), Prepare, Run("core.meeting"), Prepare, Run("core.meeting")>>
meeting_leads    == <<Run("core.meeting"), Run("core.meeting"), Prepare>>
meeting_sms      == <<Run("core.meeting")>>
meeting_names    == <<Run("core.meeting"), Run("core.meeting"), Run("core.meeting"), Run("core.meeting"),
                      Run("core.meeting"), Run("core.meeting"), Run("core.meeting")>>
meeting_checks   == <<Prepare>>
meeting ==
  <<Block(meeting_slack \o meeting_sheet \o meeting_portal \o meeting_dedup \o meeting_partners
          \o meeting_leads \o meeting_sms \o meeting_names \o meeting_checks)>>

meeting_rebuilt ==
  <<Block(<<Unless("core.meeting_rebuilt"), Unless("raw_im_bookings")>>),
    Undone(Atomic(RebuildFrom("core.meeting_rebuilt", "raw_im_bookings")
                  \o <<Run("core.meeting_rebuilt"), Run("core.meeting_rebuilt")>>))>>

(* Slices are the seeds: rows a table does not hold yet.                   *)
mof_bi_history ==
  <<Each(Block(<<Run("seeds")>>)),
    Block(<<Run("core.campaign_offer_scope"), Run("core.reply"), Run("raw_instantly_email_message")>>)>>

(* Deletes before it looks whether there is anything to insert.            *)
opportunity ==
  <<Block(<<Clear("core.opportunity"), Unless("raw_comms_call_opportunity"), Fill("core.opportunity"), Prepare>>)>>

reply_label_event ==
  <<Block(<<Unless("raw_reply_label_event"), Unless("escrow")>>),
    Returned(OfCalls(Block(<<Pull>>))),
    Block(<<Run("raw_reply_label_event"), Prepare>>)>>

(* Slices are the three histories.                                         *)
rollup_history ==
  <<Block(<<Unless("core.v_inbox_overview")>>),
    Noted(Each(UndoneWithBegin(Atomic(Rebuild("core.rollup_history")) \o <<Prepare>>)))>>
=============================================================================
