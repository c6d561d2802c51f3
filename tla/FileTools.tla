------------------------------ MODULE FileTools ------------------------------
(***************************************************************************)
(* The file tools (src/tools/mod.rs): resolve_path, and then one operation *)
(* of the file system on a blocking thread. The MCP server runs each call  *)
(* in a task of its own, so the operations of two calls interleave: a      *)
(* write truncates the file when it opens it and then writes at its own    *)
(* offset, a read takes what is there until it meets the end.              *)
(* The workspace root exists, so it is absolute and canonical, and the     *)
(* tree has no symbolic links; its directories stay.                       *)
(***************************************************************************)
EXTENDS Naturals, Sequences, SequencesExt

CONSTANTS
  Root,          \* workspace_root: the names from "/" down
  Directories,   \* the paths that are directories
  Files,         \* the paths where a file is or may be written
  Call,
  Requests,      \* of each call: what it may ask for
  Size,          \* of each call: the chunks of the content it writes
  Missing,       \* no file, no request
  Unsettled      \* what overlapping writes leave: anything

Request == [op: {"list", "read", "write"}, absolute: BOOLEAN, parts: Seq(STRING)]

ASSUME TreeAssumption ==
  Root \in Seq(STRING) /\ Root \in Directories /\ Directories \cap Files = {}
ASSUME RequestsAssumption == \A c \in Call : Requests[c] \subseteq Request
ASSUME SizeAssumption == Size \in [Call -> Nat]

VARIABLES
  files,     \* the chunks in each file, or Missing
  calls,     \* what each call has done
  settled    \* history: what the last write must have left in each file

vars == <<files, calls, settled>>

\* A chunk is its writer's, of before, or zeros between an end and a later offset.
Chunk == Call \cup {"before", "zeros"}
ASSUME ValuesAssumption == Missing \notin Seq(Chunk) /\ Unsettled \notin Seq(Chunk)

Content(c) == [i \in 1 .. Size[c] |-> c]

\* Mutant of Component: a '..' at "/" is pushed like a name.
ComponentPushed(out, part) ==
  IF part = "." THEN out
  ELSE IF part = ".." /\ out # <<>> THEN Front(out) ELSE Append(out, part)

\* One turn of the loop in normalize_path; pop does nothing at "/".
Component(out, part) ==
  CASE part = "."  -> out
    [] part = ".." -> IF out = <<>> THEN out ELSE Front(out)
    [] OTHER       -> Append(out, part)

\* out[i]: what the loop has made of the first i components.
normalize_path(parts) ==
  LET out[i \in 0 .. Len(parts)] ==
        IF i = 0 THEN <<>> ELSE Component(out[i - 1], parts[i])
  IN  out[Len(parts)]

\* resolve_path: the path that is then used, if it starts with the root.
Candidate(request) ==
  normalize_path(IF request.absolute THEN request.parts ELSE Root \o request.parts)

\* The paths calls may work on, and none.
Targets == {<<>>} \cup {Candidate(request) : request \in UNION {Requests[c] : c \in Call}}

\* moved: the chunks read or written so far. alone and want are history: whether
\* no write of the file overlapped this operation, and what a read must return then.
CallState ==
  [pc: {"idle", "open", "read", "write", "done"}, request: Request \cup {Missing},
   target: Targets, moved: Seq(Chunk), alone: BOOLEAN,
   want: Seq(Chunk) \cup {Unsettled, Missing},
   answer: {"none", "escapes", "error", "names", "content", "written"}]

TypeOK ==
  /\ files \in [Files -> Seq(Chunk) \cup {Missing}]
  /\ calls \in [Call -> CallState]
  /\ settled \in [Files -> Seq(Chunk) \cup {Unsettled, Missing}]

Init ==
  /\ files \in [Files -> {Missing, <<"before", "before">>}]
  /\ settled = files
  /\ calls = [c \in Call |-> [pc |-> "idle", request |-> Missing, target |-> <<>>, moved |-> <<>>,
                              alone |-> TRUE, want |-> Missing, answer |-> "none"]]
------------------------------------------------------------------------------
Resolve(c) ==
  /\ calls[c].pc = "idle"
  /\ \E request \in Requests[c] :
       calls' = [calls EXCEPT ![c] =
         IF IsPrefix(Root, Candidate(request))
         THEN [@ EXCEPT !.pc = "open", !.request = request, !.target = Candidate(request)]
         ELSE [@ EXCEPT !.pc = "done", !.request = request, !.answer = "escapes"]]
  /\ UNCHANGED <<files, settled>>

Uses(c, pc, f) == calls[c].pc = pc /\ calls[c].target = f
Answer(c, answer) == [calls EXCEPT ![c].pc = "done", ![c].answer = answer]

\* read_dir of a directory; anything that cannot be opened is an error.
ListOrFail(c) ==
  /\ calls[c].pc = "open"
  /\ LET op == calls[c].request.op
         t  == calls[c].target
     IN  \/ op = "list" /\ t \in Directories /\ calls' = Answer(c, "names")
         \/ op = "list" /\ t \notin Directories /\ calls' = Answer(c, "error")
         \/ op = "read" /\ (t \in Files => files[t] = Missing) /\ calls' = Answer(c, "error")
         \/ op = "write" /\ t \notin Files /\ calls' = Answer(c, "error")
  /\ UNCHANGED <<files, settled>>

\* read_to_string opens the file, and reads until there is no more.
OpenRead(c) ==
  /\ calls[c].pc = "open"
  /\ calls[c].request.op = "read"
  /\ calls[c].target \in Files
  /\ files[calls[c].target] # Missing
  /\ calls' = [calls EXCEPT ![c].pc = "read",
                            ![c].alone = ~\E d \in Call : Uses(d, "write", calls[c].target),
                            ![c].want = settled[calls[c].target]]
  /\ UNCHANGED <<files, settled>>

ReadChunk(c) ==
  /\ calls[c].pc = "read"
  /\ LET file == files[calls[c].target]
         next == Len(calls[c].moved) + 1
     IN  calls' = IF next <= Len(file)
                  THEN [calls EXCEPT ![c].moved = Append(@, file[next])]
                  ELSE Answer(c, "content")
  /\ UNCHANGED <<files, settled>>

\* Mutant of Opened: the file is opened without truncating it.
OpenedKept(file) == IF file = Missing THEN <<>> ELSE file

\* fs::write creates the file or truncates it.
Opened(file) == <<>>

OpenWrite(c) ==
  /\ calls[c].pc = "open"
  /\ calls[c].request.op = "write"
  /\ calls[c].target \in Files
  /\ LET t == calls[c].target IN
       /\ files' = [files EXCEPT ![t] = Opened(@)]
       /\ calls' = [d \in Call |->
            IF d = c THEN [calls[c] EXCEPT !.pc = "write",
                             !.alone = ~\E other \in Call : Uses(other, "write", t)]
            ELSE IF Uses(d, "read", t) \/ Uses(d, "write", t)
            THEN [calls[d] EXCEPT !.alone = FALSE] ELSE calls[d]]
  /\ UNCHANGED settled

\* Mutant of Placed: the chunk goes one offset too far.
PlacedLate(file, n, chunk) ==
  [i \in 1 .. n + 1 |-> IF i = n + 1 THEN chunk ELSE IF i <= Len(file) THEN file[i] ELSE "zeros"]

\* A chunk written at its offset, whatever became of the file in between.
Placed(file, n, chunk) ==
  [i \in 1 .. IF n > Len(file) THEN n ELSE Len(file) |->
     IF i = n THEN chunk ELSE IF i <= Len(file) THEN file[i] ELSE "zeros"]

WriteChunk(c) ==
  /\ calls[c].pc = "write"
  /\ Len(calls[c].moved) < Size[c]
  /\ files' = [files EXCEPT ![calls[c].target] = Placed(@, Len(calls[c].moved) + 1, c)]
  /\ calls' = [calls EXCEPT ![c].moved = Append(@, c)]
  /\ UNCHANGED settled

CloseWrite(c) ==
  /\ calls[c].pc = "write"
  /\ Len(calls[c].moved) = Size[c]
  /\ calls' = Answer(c, "written")
  /\ settled' = [settled EXCEPT
       ![calls[c].target] = IF calls[c].alone THEN Content(c) ELSE Unsettled]
  /\ UNCHANGED files

Next ==
  \E c \in Call :
    \/ Resolve(c) \/ ListOrFail(c)
    \/ OpenRead(c) \/ ReadChunk(c)
    \/ OpenWrite(c) \/ WriteChunk(c) \/ CloseWrite(c)

Spec == Init /\ [][Next]_vars
------------------------------------------------------------------------------
(***************************************************************************)
(* Properties.                                                             *)
(***************************************************************************)

\* A name of a path remains unless a later '..' takes it back, as a closing
\* bracket closes the last open one: the places of the names that remain after the
\* first n components.
Names(parts, i, j) == {k \in i .. j : parts[k] \notin {".", ".."}}
Ups(parts, i, j) == {k \in i .. j : parts[k] = ".."}
Remaining(parts, n) ==
  {i \in Names(parts, 1, n) :
     \A j \in i .. n : Cardinality(Names(parts, i, j)) > Cardinality(Ups(parts, i, j))}

\* The path an argument means: the names that remain, in their order.
Meant(parts) ==
  LET remaining == Remaining(parts, Len(parts))
  IN  [k \in 1 .. Cardinality(remaining) |->
         parts[CHOOSE i \in remaining : Cardinality(remaining \cap (1 .. i)) = k]]

\* Every call works on the path its argument means, and is turned away exactly when
\* that lies outside the workspace: no sequence of '.' and '..' leads elsewhere.
PathsMeant ==
  \A c \in Call :
    calls[c].request # Missing =>
      LET request == calls[c].request
          meant   == Meant(IF request.absolute THEN request.parts ELSE Root \o request.parts)
      IN  IF IsPrefix(Root, meant) THEN calls[c].target = meant
                                   ELSE calls[c].answer = "escapes"

\* A read that no write of the file overlapped returns all of what the last write
\* wrote and nothing else, unless that overlapped another write of the file.
QuietRead ==
  \A c \in Call :
    calls[c].answer = "content" /\ calls[c].alone /\ calls[c].want # Unsettled =>
      calls[c].moved = calls[c].want

\* Between writes a file is what the last one wrote, unless two overlapped.
QuietFile ==
  \A f \in Files :
    (\A c \in Call : ~Uses(c, "write", f)) => settled[f] \in {Unsettled, files[f]}
------------------------------------------------------------------------------
(***************************************************************************)
(* The inductive invariants behind the theorems of FileToolsProofs, and of *)
(* PathsProofs (ResolvedInv, relative to IInv).                            *)
(***************************************************************************)
\* What a call has done before it reads or writes, and when it may have an answer.
CallsWellFormed ==
  \A c \in Call :
    /\ calls[c].pc \in {"idle", "open"} => calls[c].moved = <<>>
    /\ calls[c].pc # "done" => calls[c].answer = "none"
    /\ calls[c].pc \in {"read", "write"} =>
         calls[c].target \in Files /\ files[calls[c].target] # Missing

\* A write that none overlaps has written the whole file, as far as it is.
WriterInv(c) ==
  calls[c].pc = "write" =>
    /\ Len(calls[c].moved) <= Size[c]
    /\ \A i \in 1 .. Len(calls[c].moved) : calls[c].moved[i] = c
    /\ calls[c].alone =>
         /\ \A d \in Call : Uses(d, "write", calls[c].target) => d = c
         /\ files[calls[c].target] = calls[c].moved

\* A read that no write overlaps has a beginning of the file, which stays as it was.
ReaderInv(c) ==
  calls[c].pc = "read" /\ calls[c].alone =>
    /\ \A d \in Call : ~Uses(d, "write", calls[c].target)
    /\ calls[c].want = settled[calls[c].target]
    /\ Len(calls[c].moved) <= Len(files[calls[c].target])
    /\ \A i \in 1 .. Len(calls[c].moved) : calls[c].moved[i] = files[calls[c].target][i]

IInv ==
  /\ TypeOK
  /\ CallsWellFormed
  /\ \A c \in Call : WriterInv(c) /\ ReaderInv(c)
  /\ QuietFile
  /\ QuietRead

\* A request that is resolved has its path as target, or was turned away.
ResolvedInv ==
  \A c \in Call :
    calls[c].request # Missing =>
      IF IsPrefix(Root, Candidate(calls[c].request))
      THEN calls[c].target = Candidate(calls[c].request)
      ELSE calls[c].pc = "done" /\ calls[c].answer = "escapes"
=============================================================================
