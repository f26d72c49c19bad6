----------------------------- MODULE CommandLine -----------------------------
(***************************************************************************)
(* How compat reads its command line: the dispatch of cmd/compat/main.go   *)
(* and the argument, schema and exit rules of cmd/internal/cliout.         *)
(***************************************************************************)
EXTENDS Naturals, Sequences, SequencesExt

CONSTANT Dashed     \* the tokens that begin with a dash, "--" among them

Subcommands == {"audit", "copy", "cutover"}

\* A leading "--" of main is dropped, once.
AfterSeparator(args) ==
    IF args # <<>> /\ Head(args) = "--" THEN Tail(args) ELSE args

\* main: the subcommand and its arguments; no subcommand is a usage error.
Dispatch(args) ==
    LET rest == AfterSeparator(args)
    IN  IF rest # <<>> /\ Head(rest) \in Subcommands
        THEN [command |-> Head(rest), args |-> Tail(rest)]
        ELSE [command |-> "none", args |-> <<>>]

\* Where the flags end: at the first "--", or at the end.
EndOfFlags(args) ==
    IF Contains(args, "--")
    THEN SelectInSeq(args, LAMBDA a : a = "--") - 1 ELSE Len(args)

FlagsAt(args) == {i \in 1..EndOfFlags(args) : args[i] \in Dashed}

\* SplitArgs: every flag is known and given once; the rest is positional.
SplitArgs(known, args) ==
    LET flags == FlagsAt(args)
    IN  [ok |-> /\ \A i \in flags : args[i] \in known
                /\ \A i, j \in flags : args[i] = args[j] => i = j,
         present |-> {args[i] : i \in flags},
         positional |->
            SelectSeq(SubSeq(args, 1, EndOfFlags(args)), LAMBDA a : a \notin Dashed)
            \o SubSeq(args, EndOfFlags(args) + 2, Len(args))]

\* The flags a subcommand knows.
KnownFlags(command) == IF command = "cutover" THEN {"--dry-run"} ELSE {}

\* ParseArgsStrict, with one positional argument.
Accepted(command, args) ==
    LET split == SplitArgs(KnownFlags(command), args)
    IN  split.ok /\ Len(split.positional) = 1

\* ResolveSchema: exactly one of an inline schema and a schema_ref, whose file
\* can be read.  An inline schema without tables counts as none.
HasInline(config) == "inline" \in config.given /\ config.schema.tables # <<>>

HasRef(config) == config.given \cap {"file", "no file"} # {}

Resolves(config) == HasInline(config) # HasRef(config) /\ "no file" \notin config.given

\* The exit code of Die.
ExitCode(code) == IF code = "ERR_USAGE" THEN 2 ELSE 1

==============================================================================
