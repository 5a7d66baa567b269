---------------------------- MODULE MCDocsServe ----------------------------
(* Values for TLC: a plot that needs its data, and one that may lack it *)
EXTENDS DocsServe

MCPlots == <<barplot_tool, lineplot("spdk-ncpus")>>
=============================================================================
