---------------------------- MODULE IngestsFleet ----------------------------
(***************************************************************************)
(* PASS A of the night: the ingests that describe the sending fleet, each  *)
(* as the blocks its function goes through.  The slices of a table are the *)
(* workspaces here, unless a comment says otherwise.                       *)
(***************************************************************************)
EXTENDS IngestBlocks

(* No spec of SPECS is on by default: only the rows the old pipeline       *)
(* misnamed are rewritten, in place.                                       *)
pipeline_mirror == <<Block(<<Run("core.sending_account")>>)>>

(* Slices are the exports found in the inbox: each lands in a transaction  *)
(* of its own, and the failures are raised when every file had its turn.   *)
load_file == <<Run("raw_inbox_export")>> \o Atomic(<<Fill("raw_inbox_export")>>)
inbox_loader ==
  <<Noted(Each(Undone(load_file))),
    Block(<<RaiseNoted, Run("core.sending_account")>>),
    Noted(Block(<<Run("core.sending_account")>>))>>

workspace ==
  <<Block(<<Unless("keys")>>),
    Noted(Each(Block(<<Pull, SkipEmpty, Run("raw_instantly_workspace")>>))),
    Block(<<Prepare, Seen(Fill("core.workspace")), Unseen(Retire("core.workspace")),
            Run("core.workspace_alias")>>
          \o RebuildFrom("core.workspace_name_history", "core.workspace"))>>

campaign ==
  <<Block(<<Unless("keys")>>),
    Noted(Each(Block(<<Pull, SkipEmpty, Pull, Run("raw_instantly_campaign")>>))),
    Block(<<Seen(Rows("core.campaign")), Unseen(Retire("core.campaign"))>>),
    Noted(Block(<<Run("core.campaign")>>)),
    Block(<<Run("core.campaign_marker_tag"), Run("core.campaign_sending_tag")>>)>>

campaign_analytics ==
  <<Block(<<Unless("keys")>>),
    Noted(Each(Block(<<Pull, SkipEmpty, Pull, Rows("raw_instantly_campaign_analytics")>>)))>>

campaign_analytics_snapshot ==
  <<Block(<<Unless("raw_instantly_campaign_analytics"),
            FillFrom("core.campaign_analytics_daily", "raw_instantly_campaign_analytics")>>)>>

account_error ==
  <<Block(<<Unless("keys")>>),
    Noted(Each(Block(<<Pull, SkipEmpty, Pull>>))),
    Block(<<Seen(Rows("core.account_error")), Run("core.account_error")>>)>>

(* An empty answer is taken for an account list without campaigns.         *)
account_campaign_live ==
  <<Block(<<Unless("keys")>>),
    Noted(Block(<<Prepare>>)),
    Noted(Each(Undone(<<Pull, SkipEmpty, Pull, Prepare>>
                      \o Atomic(Rebuild("core.account_campaign_live"))
                      \o <<Run("core.account_campaign_live_run")>>)))>>

analytics_daily_write ==
  <<Run("raw_instantly_tag_def")>>
  \o Atomic(<<Rows("raw_instantly_campaign_dim"), Rows("raw_instantly_workspace_analytics_daily"), Rows("raw_instantly_campaign_analytics_daily")>>)
  \o <<Run("raw_instantly_analytics_sync_status")>>
analytics_daily ==
  <<Noted(Each(Undone(<<Pull>> \o analytics_daily_write))),
    Block(<<RaiseNoted>>)>>

(* Workspaces the parquet lacks keep the rows of the census before, if     *)
(* core.workspace has them as active.                                      *)
account_census ==
  <<Block(<<PullSome, RaiseEmpty, Unless("workspace_uuid")>>),
    UndoneWithBegin(Atomic(<<Copy("prior census", "core.account_census")>> \o Rebuild("core.account_census")
                           \o <<Carry("core.account_census", "prior census", "core.workspace")>>))>>

account_first_cold_send ==
  <<Block(<<Unless("core.account_first_cold_send"), Unless("core.sending_account_daily")>>),
    UndoneWithBegin(Atomic(RebuildFrom("core.account_first_cold_send", "core.sending_account_daily")))>>

(* The hub answers or the phase ends there, successfully; what it answers  *)
(* replaces the table, also nothing.                                       *)
FromHub(steps) == <<Block(<<Unless("url"), Unless("table")>>), Returned(Block(<<Pull>>)), Undone(steps)>>

batch_registry        == FromHub(Atomic(Reload("core.batch_registry")))
hub_domain_flag == FromHub(<<RefuseEmpty>> \o Atomic(Reload("core.hub_domain_flag")))
inbox_warmup_override == FromHub(<<RefuseEmpty>> \o Atomic(Reload("core.inbox_warmup_override")))
hub_problem_ack       == FromHub(<<RefuseEmpty>> \o Atomic(Reload("core.hub_problem_ack")
                                 \o Reload("core.hub_problem_note") \o Reload("core.hub_problem_snooze")))
hub_fleet_history     == FromHub(<<RefuseEmpty>> \o Atomic(<<Prepare>> \o Rebuild("core.hub_fleet_history") \o <<Prepare>>))

hub_filters_clicks ==
  <<Block(<<Unless("table")>>),
    Noted(Undone(<<Pull, SkipEmpty>> \o Atomic(Reload("core.hub_saved_filter")))),
    Noted(Block(<<Prepare, Pull, Rows("core.hub_click_log")>>))>>

inbox_date_history ==
  <<Block(<<Unless("table"), Unless("core.account_census")>>),
    Undone(Atomic(<<FillFrom("core.inbox_date_history", "core.account_census")>>))>>

(* Tonight's census completed by the rows from before, which are copied to *)
(* a temporary table while the table is empty; no transaction.             *)
sending_account ==
  <<Block(<<Unless("core.account_census"), Run("core.account_census_summary"), Prepare>>
          \o <<Copy("sending_account_PRE", "core.sending_account"), Clear("core.sending_account"),
               Merge("core.sending_account", "core.account_census", "sending_account_PRE"),
               Run("core.sending_account_state_event"), Prepare>>)>>

account_tags_resolve == Block(<<Prepare, Seen(Fill("core.sending_account_tag")), Run("core.sending_account_tag")>>)

(* Pulled by a pool of threads first, then written one workspace after the *)
(* other; DELETE and INSERT commit on their own.                           *)
account_tags ==
  <<Block(<<Unless("keys")>>),
    Noted(Block(<<Prepare>>)),
    Noted(Each(Block(<<Pull>>))),
    Block(<<Prepare>>),
    Noted(Each(Block(<<SkipEmpty, Run("raw_instantly_account_tag")>>
                     \o Rebuild("core.account_tags") \o <<Run("core.account_tag_edge")>>))),
    account_tags_resolve,
    Noted(Block(<<Run("core.account_tags_daily")>>))>>
=============================================================================
