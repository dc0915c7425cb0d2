---------------------------- MODULE NightlyStages ----------------------------
(***************************************************************************)
(* The steps that nightly.sh takes after its second pass, each a process   *)
(* of its own with its own connection, in the vocabulary of the ingests.   *)
(* A failing one is a line "WARN ... (continuing)" in the log.  The copy   *)
(* to D1 and the email drain have modules of their own.                    *)
(***************************************************************************)
EXTENDS IngestBlocks

(* COPY ... TO over a file that exists, or a temporary file renamed over   *)
(* it: the new one as a whole or the old one.                              *)
Replace(t) == Atomic(Rebuild(t))

(* What one source of several answered, or nothing.                        *)
PullEach == Each(Noted(Block(<<Pull>>)))

(* Phones out of new reply signatures; the mirror applies the staged file  *)
(* in one transaction, and the watermarks move only after that.            *)
apply_phone_mirror == <<Run("mirror.leads_current")>>
signature_phone_sync ==
  <<Block(<<Prepare, Run("staged_mirror.tsv")>> \o apply_phone_mirror \o <<Run("sync_state.json")>>)>>

campaign_performance == <<Block(<<Prepare, Run("campaign-performance")>>)>>

(* The feed is opened for writing, then dumped.                            *)
sms_feed == <<Block(<<Prepare, Prepare>> \o Reload("sms-campaign-performance"))>>

overview == <<Block(<<Prepare>>), Undone(Replace("overview"))>>

(* Slices are the cc_ tables, each replaced by a statement of its own; the *)
(* shell goes on after an error and ends with a status.                    *)
cc_mirror ==
  <<Block(<<Pull, Prepare>>), Each(Noted(Block(<<Fill("raw_cc")>>))), Block(<<RaiseNoted>>)>>

(* Every campaign of every workspace (the slices); one that does not       *)
(* answer is logged and left out of the rebuild.                           *)
fetch_all == PullEach
fetch_bounces == Noted(Block(<<Prepare>>))
write_campaign_daily ==
  Undone(Atomic(Reload("core.campaign_daily") \o Reload("core.campaign_variant")
                \o <<Run("core.campaign_daily"), Run("core.instantly_bounce_daily")>>))
campaign_daily == <<fetch_all, fetch_bounces, Block(<<Prepare>>), write_campaign_daily, Block(<<Prepare>>)>>

deliv_reply_lag ==
  <<Undone(Atomic(<<Prepare>> \o Rebuild("core.deliv_reply_lag") \o Rebuild("core.deliv_reply_lag_daily")))>>

(* The build stages two local logs; the apply inserts what the drain has   *)
(* not got, then drops what it has got since.                              *)
fold_build == <<Block(<<Prepare, Run("fold stage")>>)>>
fold_apply ==
  <<Block(<<Unless("fold stage"), Prepare, Unless("staged rows"), Prepare>>
          \o Atomic(<<Run("raw_instantly_email_message")>>)
          \o Atomic(<<Prepare, Run("raw_instantly_email_message")>>) \o <<Run("manifest"), Prepare>>)>>
email_outbound_fold == fold_build \o fold_apply

(* The fact table of the email lane, then, whatever becomes of it, that of *)
(* the SMS and WhatsApp lane.                                              *)
sla_build ==
  <<Prepare, Clear("core.sla_reply_time"), Prepare, Rows("core.sla_reply_time"), Prepare>>
  \o RebuildFrom("core.sla_reply_time_daily", "core.sla_reply_time")
sla_build_smswa ==
  <<Clear("core.sla_reply_time_smswa"), Prepare, Rows("core.sla_reply_time_smswa"), Prepare>>
sla_reply_time == <<Undone(Atomic(sla_build)), Noted(UndoneWithBegin(Atomic(sla_build_smswa)))>>

(* A row per workspace and day.                                            *)
instantly_credit ==
  <<Block(<<Pull>>), Undone(Atomic(<<Run("core.instantly_credit"), Run("core.instantly_credit_pool")>>))>>

(* Once a week: what does not resolve has no name server in the file.      *)
ns_sweep == <<Block(<<Prepare>>), PullEach, Undone(Replace("ns_sweep.parquet"))>>

(* Only registry columns that are NULL are filled.                         *)
domain_registry_ns ==
  <<Block(<<Prepare>>),
    Undone(Atomic(<<Prepare, Run("core.domain_registry"), Run("core.domain_registry"), Run("core.domain_registry"),
                    Run("core.domain_registry")>>)),
    Block(<<Prepare>>)>>

(* Once a week every registrar account (the slices) is asked anew, and an  *)
(* account that does not answer is missing in the cache until the next     *)
(* time; the other nights load the cache.                                  *)
fetch_registrar == PullEach
write_cache == Undone(<<SkipEmpty>> \o Replace("registrar caches"))
load_registrars ==
  <<Block(<<Prepare>>),
    Undone(Atomic(<<Prepare, Run("core.domain_registry"), Run("core.domain_registry")>>)), Block(<<Prepare>>)>>
registrars_refresh == <<fetch_registrar, write_cache>> \o load_registrars
registrars_from_cache == load_registrars

registrar_domains ==
  <<Block(<<Prepare, Unless("account column"), Prepare>>),
    Undone(Atomic(RebuildFrom("raw_registrar_domains", "registrar caches")
                  \o RebuildFrom("core.registrar_snapshot", "registrar caches"))),
    Block(<<Prepare>>)>>

purchased_at_from_sheet ==
  <<Block(<<Prepare>>),
    Undone(Atomic(<<Prepare, Run("core.domain_registry"), Run("core.domain_registry")>>)), Block(<<Prepare>>)>>

(* Policy rows are seeded, then every registered table is counted.         *)
sync_registry_seed == <<Prepare, Run("core.sync_registry")>>
sync_registry_state == <<Prepare, Run("core.sync_registry")>>
sync_registry == <<Block(<<Prepare>>), Undone(Atomic(sync_registry_seed \o sync_registry_state)), Block(<<Prepare>>)>>
==============================================================================
