------------------------ MODULE MCIngestPipeline ------------------------
(***************************************************************************)
(* Values of the constants of IngestPipeline for TLC.                      *)
(***************************************************************************)
EXTENDS IngestPipeline, TLC

CONSTANTS c1, c2, t1, s1

OneTenant  == [c \in Commits |-> t1]
OneSession == [c \in Commits |-> s1]

\* The commits of one tenant and session are interchangeable.
CommitSymmetry == Permutations(Commits)
=============================================================================
