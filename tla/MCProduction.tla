---- MODULE MCProduction ----
(* The production graph with a threshold of 2 standing for 10000 and an    *)
(* amount on either side of it.                                            *)
EXTENDS ExplainedWorkflow
MCAmounts == {0, Threshold, Threshold + 1}
====
