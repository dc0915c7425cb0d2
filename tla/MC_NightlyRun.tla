---------------------------- MODULE MC_NightlyRun ----------------------------
EXTENDS NightlyRun

(* Two ingests in the first pass, so that one fails and one follows.       *)
TwoAndOne ==
  [A |-> <<"pipeline_mirror", "inbox_loader">>, B |-> <<"canonical">>]

(* One ingest per pass.                                                    *)
OneAndOne == [A |-> <<"instantly">>, B |-> <<"canonical">>]
==============================================================================
