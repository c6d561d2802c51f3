---------------------------- MODULE MCFileTools ----------------------------
(* Values of the constants of FileTools for TLC.                            *)
EXTENDS FileTools, TLC

CONSTANTS c1, c2, c3

\* /ws is the workspace, with a directory /ws/d; a file may be in either.
Ws == <<"ws">>
Dirs == {<<>>, Ws, <<"ws", "d">>}
AllFiles == {<<"ws", "a">>, <<"ws", "d", "a">>}

\* c1 asks for any path of up to four components; all read and write one file,
\* which c1 and c3 name in roundabout ways.
Ask(op, absolute, parts) == [op |-> op, absolute |-> absolute, parts |-> parts]
AllPaths ==
  {Ask("list", absolute, parts) :
     absolute \in BOOLEAN, parts \in BoundedSeq({".", "..", "a", "ws"}, 4)}
Asked ==
  c1 :> AllPaths \cup {Ask("read", FALSE, <<"d", "..", "a">>), Ask("write", FALSE, <<"..", "ws", "a">>),
                       Ask("write", FALSE, <<"d">>), Ask("read", FALSE, <<"b">>)}
  @@ c2 :> {Ask("write", FALSE, <<"a">>), Ask("write", FALSE, <<"d", "a">>)}
  @@ c3 :> {Ask("read", FALSE, <<"a">>), Ask("write", TRUE, <<"..", "ws", "a">>)}

Sizes == c1 :> 1 @@ c2 :> 2 @@ c3 :> 1
=============================================================================
