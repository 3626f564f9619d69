---------------------------- MODULE MCToolOutput ----------------------------
(* TLC instance of ToolOutput.  Pieces of one or two units against limits of *)
(* two and three meet a limit below it, at it, across it and behind it; the  *)
(* durations lie on each side of zero, of the silence and of int64.          *)
EXTENDS ToolOutput

MCPieces ==
    [stdout |-> {<<"other">>, <<"other", "other">>},
     stderr |-> {<<a>> : a \in Units} \cup {<<a, b>> : a \in Units, b \in Units}]

MCStatedDurations == {{}} \cup {{ms} : ms \in {-10, 0, 10, 11, 20, 30, 40}}

=============================================================================
