---------------------------- MODULE CommandLine ----------------------------
(***************************************************************************)
(* The command line (main.c): the words of argv are read from left to      *)
(* right, a later option overrides what an earlier one set, and the result *)
(* chooses what the program does.  A command line is given as the options  *)
(* its user means, each a word or a word and its value; argv is their      *)
(* concatenation, so an option that lacks its value takes the next word    *)
(* for it, as in the code.  Simulations themselves are those of Sector: a  *)
(* row of output stands for a run to the end with these arguments.         *)
(***************************************************************************)
EXTENDS Integers, SequencesExt, FiniteSetsExt

CONSTANTS Lines,       \* the command lines, sequences of options
          Number,      \* what atoi, atof and strtoull make of a word
          SEEDS,       \* 2^64 in the code: seeds wrap
          MAX_RUNWAYS, MAX_GATES

ASSUME LimitAssumption == {SEEDS, MAX_RUNWAYS, MAX_GATES} \subseteq Nat \ {0}

\* atoi, atof and strtoull make a number of every word.
ASSUME ArgumentAssumption == /\ Lines \subseteq Seq(Seq(DOMAIN Number))
                         /\ \A w \in DOMAIN Number : Number[w] \in Int

VARIABLES line, i,     \* the command line and the next word of its argv
          opt,         \* what has been set so far; flags are 0 or 1
          mode, rows   \* what the program does, and the runs it has printed

vars == <<line, i, opt, mode, rows>>
argv == FlattenSeq(line)

\* The rate is counted in tenths of a minute.
Defaults == [seed |-> 1, runways |-> 2, gates |-> 8, rate |-> 15,
             horizon |-> 720, headless |-> 0, csv |-> 0, runs |-> 1,
             snapshot |-> 0]

Flag == [w \in {"--headless", "--csv"} |->
             IF w = "--headless" THEN "headless" ELSE "csv"]
Field == [w \in {"--seed", "--runways", "--gates", "--rate", "--horizon",
                 "--runs", "--snapshot"} |->
             CASE w = "--seed" -> "seed"       [] w = "--runways" -> "runways"
               [] w = "--gates" -> "gates"     [] w = "--rate" -> "rate"
               [] w = "--horizon" -> "horizon" [] w = "--runs" -> "runs"
               [] w = "--snapshot" -> "snapshot"]

\* apply_scenario: an unknown name sets nothing.
Preset == [calm  |-> [rate |-> 30, runways |-> 2, gates |-> 10],
           rush  |-> [rate |-> 8,  runways |-> 2, gates |-> 8],
           storm |-> [rate |-> 11, runways |-> 2, gates |-> 8],
           night |-> [rate |-> 40, runways |-> 1, gates |-> 6]]
apply_scenario_NoGates(c, name) ==
    IF name \in DOMAIN Preset
    THEN [c EXCEPT !.rate = Preset[name].rate, !.runways = Preset[name].runways]
    ELSE c
apply_scenario(c, name) ==
    IF name \in DOMAIN Preset
    THEN [c EXCEPT !.rate = Preset[name].rate, !.runways = Preset[name].runways,
                   !.gates = Preset[name].gates]
    ELSE c

Value(field, word) == CASE field = "snapshot" -> 1
                        [] field = "seed" -> Number[word] % SEEDS
                        [] field = "rate" -> 10 * Number[word]
                        [] OTHER -> Number[word]

Init == /\ line \in Lines /\ i = 1 /\ opt = Defaults
        /\ mode = "parsing" /\ rows = <<>>

Word(w) == mode = "parsing" /\ i <= Len(argv) /\ argv[i] = w

parse_help == /\ Word("--help") /\ mode' = "usage"
              /\ UNCHANGED <<line, i, opt, rows>>

parse_flag(w) == /\ Word(w)
                 /\ opt' = [opt EXCEPT ![Flag[w]] = 1] /\ i' = i + 1
                 /\ UNCHANGED <<line, mode, rows>>

\* An option takes the word after it whatever that is.
parse_value(w) == /\ Word(w) /\ i < Len(argv)
                  /\ opt' = [opt EXCEPT ![Field[w]] = Value(Field[w], argv[i+1])]
                  /\ i' = i + 2
                  /\ UNCHANGED <<line, mode, rows>>

parse_scenario == /\ Word("--scenario") /\ i < Len(argv)
                  /\ opt' = apply_scenario(opt, argv[i+1]) /\ i' = i + 2
                  /\ UNCHANGED <<line, mode, rows>>

\* Any other word, an option without a value at the end among them.
unknown_option ==
    /\ mode = "parsing" /\ i <= Len(argv)
    /\ argv[i] \notin DOMAIN Flag \cup {"--help"}
    /\ argv[i] \in DOMAIN Field \cup {"--scenario"} => i = Len(argv)
    /\ mode' = "error" /\ UNCHANGED <<line, i, opt, rows>>

dispatch ==
    /\ mode = "parsing" /\ i > Len(argv)
    /\ mode' = CASE opt.snapshot = 1 -> "snapshot"
                 [] opt.snapshot = 0 /\ opt.runs > 1 -> "sweep"
                 [] opt.snapshot = 0 /\ opt.runs <= 1 /\ opt.headless = 1 -> "headless"
                 [] OTHER -> "window"
    /\ UNCHANGED <<line, i, opt, rows>>

\* sim_init brings the numbers of runways and gates into their limits.
Clamped(n, limit) == IF n < 1 THEN 1 ELSE IF n > limit THEN limit ELSE n
run_one(seed) == [seed    |-> seed,
                  runways |-> Clamped(opt.runways, MAX_RUNWAYS),
                  gates   |-> Clamped(opt.gates, MAX_GATES)]

sweep_row ==
    /\ mode = "sweep" /\ Len(rows) < opt.runs
    /\ rows' = Append(rows, run_one((opt.seed + Len(rows)) % SEEDS))
    /\ UNCHANGED <<line, i, opt, mode>>
sweep_end_Early ==
    /\ mode = "sweep" /\ Len(rows) >= opt.runs - 1 /\ mode' = "exit"
    /\ UNCHANGED <<line, i, opt, rows>>
sweep_end ==
    /\ mode = "sweep" /\ Len(rows) = opt.runs /\ mode' = "exit"
    /\ UNCHANGED <<line, i, opt, rows>>

headless_run ==
    /\ mode = "headless" /\ mode' = "exit" /\ rows' = <<run_one(opt.seed)>>
    /\ UNCHANGED <<line, i, opt>>

Next == \/ parse_help \/ \E w \in DOMAIN Flag : parse_flag(w)
        \/ \E w \in DOMAIN Field : parse_value(w)
        \/ parse_scenario \/ unknown_option \/ dispatch
        \/ sweep_row \/ sweep_end \/ headless_run
Spec == Init /\ [][Next]_vars

-----------------------------------------------------------------------------
(* Properties.                                                             *)

\* The options whose words are all there and mean what they say.
Complete(o) == \/ Len(o) = 1 /\ o[1] \in DOMAIN Flag
               \/ Len(o) = 2 /\ o[1] \in DOMAIN Field \cup {"--scenario"}

\* What a complete option sets.
Assignment(o) ==
    CASE o[1] \in DOMAIN Flag -> [f \in {Flag[o[1]]} |-> 1]
      [] o[1] \in DOMAIN Field -> [f \in {Field[o[1]]} |-> Value(f, o[2])]
      [] OTHER -> IF o[2] \in DOMAIN Preset THEN Preset[o[2]] ELSE <<>>

\* A command line of complete options, in any order, is never taken for a wrong
\* one nor for a call for help, and is understood as it was meant: once it has been
\* read, each setting has the value that the last option about it gave, a scenario
\* being about three, whatever words are used as values.
LastOptionWins ==
    (\A k \in DOMAIN line : Complete(line[k])) =>
        /\ mode \notin {"usage", "error"}
        /\ i > Len(argv) => \A f \in DOMAIN Defaults :
               LET about == {k \in DOMAIN line : f \in DOMAIN Assignment(line[k])}
               IN opt[f] = IF about = {} THEN Defaults[f]
                           ELSE Assignment(line[Max(about)])[f]

\* n is m, or the number of 1 .. max nearest to it.
Distance(a, b) == IF a < b THEN b - a ELSE a - b
Nearest(n, m, max) == /\ n \in 1 .. max
                      /\ \A k \in 1 .. max : Distance(n, m) <= Distance(k, m)

\* A finished sweep has one row for each of the consecutive seeds, beyond the
\* largest seed too; every simulation has the runways and gates asked for, or
\* the nearest numbers that its arrays hold and that are not zero.
SweepComplete ==
    /\ mode = "exit" /\ opt.runs > 1 =>
           /\ Len(rows) = opt.runs
           /\ \A k \in DOMAIN rows : rows[k].seed = (opt.seed + k - 1) % SEEDS
    /\ \A k \in DOMAIN rows : /\ Nearest(rows[k].runways, opt.runways, MAX_RUNWAYS)
                              /\ Nearest(rows[k].gates, opt.gates, MAX_GATES)
=============================================================================
