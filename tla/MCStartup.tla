----------------------------- MODULE MCStartup -----------------------------
(* Startup for TLC.                                                        *)
EXTENDS Startup

SmallPrograms ==
    [fake : BOOLEAN, filtered : {FALSE}, electable : BOOLEAN,
     selectors : {NotGiven}, scope : {"all"}]
    \cup
    [fake : BOOLEAN, filtered : {TRUE}, electable : {TRUE},
     selectors : {NotGiven, <<>>, <<"a", "b">>, <<"a", "a">>}, scope : {"ns"}]

SmallConfigs ==
    {[qps |-> 0, burst |-> 0, limiter |-> "none", userAgent |-> ""],
     [qps |-> 5, burst |-> -1, limiter |-> "none", userAgent |-> "given"],
     [qps |-> 5, burst |-> -1, limiter |-> "given", userAgent |-> ""],
     [qps |-> -1, burst |-> 0, limiter |-> "none", userAgent |-> "given"]}

=============================================================================
