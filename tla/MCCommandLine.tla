---------------------------- MODULE MCCommandLine ----------------------------
(* For TLC: every command line of up to three of these options.             *)
EXTENDS CommandLine

Options ==
    {<<"--headless">>, <<"--csv">>, <<"--help">>, <<"--bogus">>, <<"--seed">>}
    \cup ({"--seed", "--runways", "--gates", "--runs"} \X {"0", "3", "13"})
    \cup {<<"--runs", "1">>, <<"--gates", "--csv">>, <<"--snapshot", "--help">>,
          <<"--rate", "3">>, <<"--horizon", "13">>,
          <<"--scenario", "night">>, <<"--scenario", "bogus">>}

AllLines == UNION {[1 .. n -> Options] : n \in 0 .. 3}

Words == UNION {Range(o) : o \in Options} \cup DOMAIN Flag \cup DOMAIN Field
Numeral == "0" :> 0 @@ "1" :> 1 @@ "3" :> 3 @@ "13" :> 13
Numbers == [w \in Words |-> IF w \in DOMAIN Numeral THEN Numeral[w] ELSE 0]
=============================================================================
