---------------------------- MODULE CommandLines ----------------------------
(***************************************************************************)
(* The command lines of yanc (yanc.c) and of the adapter (adapter_main.cc):*)
(* which options the programs start with, and when they end at once.       *)
(*                                                                         *)
(* A command line is its options in order, pairs of a letter and an        *)
(* argument, and the other words, which getopt() moves behind them.  An    *)
(* option takes one word, and its argument another.  "?" is an option that *)
(* getopt() does not know or whose argument is missing.  A path is the     *)
(* sequence of its names.                                                  *)
(***************************************************************************)
EXTENDS Integers, Sequences

LOCAL Folds == INSTANCE SequencesExt

LOG_EMERG == 0
LOG_DEBUG == 7

\* What is not an option of the program is "?".
WithArgument == {"S", "o", "p"}

Words(line) ==
    LET Add(n, opt) == n + IF opt[1] \in WithArgument THEN 2 ELSE 1
    IN Folds!FoldLeft(Add, Len(line.words), line.opts)

-----------------------------------------------------------------------------
(***************************************************************************)
(* yanc                                                                    *)
(***************************************************************************)
Y_OPTS_DEFAULT ==
    [daemonize |-> TRUE, multi_threaded |-> FALSE, verbosity |-> LOG_DEBUG,
     source |-> "yanc", mountpoint |-> << >>, options |-> <<"auto_unmount">>,
     schema_file |-> <<"schema.txt">>, exit |-> "none"]

\* usage()
Usage(opts, ret) == [opts EXCEPT !.exit = ret]

\* What getopt_long() returned; "--help" and "--usage" are "h".
YOption(opts, opt) ==
    IF opts.exit # "none" THEN opts
    ELSE CASE opt[1] = "S" -> [opts EXCEPT !.schema_file = opt[2]]
           [] opt[1] = "f" -> [opts EXCEPT !.daemonize = FALSE]
           [] opt[1] = "s" -> [opts EXCEPT !.multi_threaded = FALSE]
           [] opt[1] = "v" -> [opts EXCEPT !.verbosity = IF @ < LOG_DEBUG THEN @ + 1 ELSE @]
           [] opt[1] = "q" -> [opts EXCEPT !.verbosity = IF @ > LOG_EMERG THEN @ - 1 ELSE @]
           [] opt[1] = "o" -> [opts EXCEPT !.options = Append(@, opt[2])]
           [] opt[1] = "h" -> Usage(opts, "success")
           [] OTHER -> Usage(opts, "failure")

y_parse_cmdline(line) ==
    LET opts == Folds!FoldLeft(YOption, Y_OPTS_DEFAULT, line.opts)
        words == line.words
    IN CASE opts.exit # "none" -> opts
         [] opts.exit = "none" /\ Len(words) = 1 -> [opts EXCEPT !.mountpoint = words[1]]
         [] opts.exit = "none" /\ Len(words) = 2 ->
               [opts EXCEPT !.source = words[1][Len(words[1])], !.mountpoint = words[2]]
         [] OTHER -> Usage(opts, "failure")

-----------------------------------------------------------------------------
(***************************************************************************)
(* The adapter                                                             *)
(***************************************************************************)
of_adapter_options ==
    [help |-> FALSE, port |-> 6633, verbosity |-> 0,
     fs_path |-> << >>, dbus_addr |-> << >>, exit |-> "none"]

print_help(options) == [options EXCEPT !.exit = "success"]
print_usage(options) == [options EXCEPT !.exit = "failure"]

\* What getopt() returned.
AdapterOption(options, opt) ==
    IF options.exit # "none" THEN options
    ELSE CASE opt[1] = "p" -> [options EXCEPT !.port = opt[2]]
           [] opt[1] = "h" -> [options EXCEPT !.help = TRUE]
           [] opt[1] = "v" -> [options EXCEPT !.verbosity = @ + 1]
           [] OTHER -> print_usage(options)

\* The name of the program is a word, too.
parse_options(line) ==
    LET few == 1 + Words(line) < 3
        first == IF few THEN print_usage(of_adapter_options) ELSE of_adapter_options
        options == Folds!FoldLeft(AdapterOption, first, line.opts)
    IN CASE options.exit # "none" -> options
         [] options.exit = "none" /\ options.help -> print_help(options)
         [] options.exit = "none" /\ ~options.help /\ Len(line.words) = 2 ->
               [options EXCEPT !.fs_path = line.words[1], !.dbus_addr = line.words[2]]
         [] OTHER -> print_usage(options)
=============================================================================
