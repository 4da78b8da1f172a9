----------------------------- MODULE MCMetricGraphs -----------------------------
(* Two panels of different lengths that share an expression at different places. *)
EXTENDS MetricGraphs

CONSTANTS a, b

MCPanels == <<<<a, b>>, <<b>>>>
================================================================================
