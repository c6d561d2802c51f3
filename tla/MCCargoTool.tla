---------------------------- MODULE MCCargoTool ----------------------------
(* Values of the constants of CargoTool for TLC.                            *)
EXTENDS CargoTool

\* The other tools' arguments, and ones that name no subcommand, one that is not
\* allowed, or a metacharacter.
Flag == [word |-> "--color", flag |-> TRUE, meta |-> FALSE]
Piped == [word |-> "a;b", flag |-> FALSE, meta |-> TRUE]
OtherArguments ==
  UNION {ToolArguments(Word("serde"), args) :
           args \in {<<>>, <<Flag>>, <<Flag, Word("check")>>, <<Word("publish")>>, <<Word("check"), Piped>>}}

\* Output a pipe holds and output that is more, text or not, children that end in
\* time, late or never, with and without descendants that end or stay.
AllCommands ==
  [args: {<<Word("check")>>}, output: [Stream -> 0 .. PipeCapacity + 1],
   text: [Stream -> BOOLEAN], ends: {"in_time", "late", "never"},
   descendant: BOOLEAN, daemon: BOOLEAN]
  \cup [args: OtherArguments, output: {Nothing}, text: [Stream -> {TRUE}],
        ends: {"in_time"}, descendant: {FALSE}, daemon: {FALSE}]
=============================================================================
