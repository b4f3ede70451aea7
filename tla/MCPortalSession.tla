--------------------------- MODULE MCPortalSession --------------------------
(* PortalSession for TLC: the ways to call SelectSources that differ.      *)
EXTENDS PortalSession

CONSTANTS left, right

SomeOptions ==
    {<<>>,
     [types |-> {}],
     [types |-> {"Virtual"}, multiple |-> FALSE],
     [types |-> SourceTypes, multiple |-> TRUE],
     [types |-> {"Monitor"}, multiple |-> FALSE, restore |-> right]}
=============================================================================
