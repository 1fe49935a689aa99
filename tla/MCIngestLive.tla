-------------------------- MODULE MCIngestLive -------------------------
(***************************************************************************)
(* What must happen in the end, for TLC: jobs settle, a stop completes,    *)
(* and the cost of the calls they make gets to the sink.  Pipeline and log *)
(* share nothing, so each behaviour looks at one of them and leaves the    *)
(* other as it begins.                                                     *)
(***************************************************************************)
EXTENDS MCIngestPipeline, UsageWal

VARIABLE focus

LiveInit == focus \in {"jobs", "usage"} /\ PipelineInit /\ WalInit
LiveNext ==
  /\ \/ focus = "jobs" /\ Next /\ UNCHANGED walVars
     \/ focus = "usage" /\ WalNext /\ UNCHANGED vars
  /\ UNCHANGED focus

LiveSpec ==
  /\ LiveInit /\ [][LiveNext]_<<vars, walVars, focus>>
  /\ (focus = "jobs" /\ Fairness) \/ (focus = "usage" /\ WalFairness)
=============================================================================
