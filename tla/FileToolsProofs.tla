--------------------------- MODULE FileToolsProofs ---------------------------
(***************************************************************************)
(* Theorems about FileTools for every tree, request and number of calls.   *)
(***************************************************************************)
EXTENDS FileTools, SequenceTheorems, TLAPS

LEMMA InitInv == Init => IInv
<1> SUFFICES ASSUME Init PROVE IInv
  OBVIOUS
<1>1. <<>> \in Seq(Chunk) /\ <<"before", "before">> \in Seq(Chunk)
  BY DEF Chunk
<1>2. TypeOK
  BY <1>1 DEF Init, TypeOK, CallState, Targets
<1> QED BY <1>2 DEF Init, IInv, CallsWellFormed, WriterInv, ReaderInv, QuietFile, QuietRead, Uses

\* A chunk at its offset: what the write leaves, and what stays before it.
LEMMA PlacedFile ==
  ASSUME NEW file \in Seq(Chunk), NEW n \in Nat \ {0}, NEW chunk \in Chunk
  PROVE  /\ Placed(file, n, chunk) \in Seq(Chunk)
         /\ n = Len(file) + 1 => Placed(file, n, chunk) = Append(file, chunk)
<1> DEFINE p == Placed(file, n, chunk)
           m == IF n > Len(file) THEN n ELSE Len(file)
<1>1. Len(file) \in Nat /\ m \in Nat /\ "zeros" \in Chunk
  BY LenProperties DEF Chunk
<1>2. \A i \in 1 .. m : p[i] = IF i = n THEN chunk ELSE IF i <= Len(file) THEN file[i] ELSE "zeros"
  BY DEF Placed
<1>3. p \in [1 .. m -> Chunk]
  <2>1. \A i \in 1 .. Len(file) : file[i] \in Chunk
    BY ElementOfSeq
  <2> QED BY <1>1, <2>1 DEF Placed
<1>4. p \in Seq(Chunk) /\ Len(p) = m
  BY <1>1, <1>3, IsASeq, LenProperties
<1>5. ASSUME n = Len(file) + 1 PROVE p = Append(file, chunk)
  <2>1. /\ Append(file, chunk) \in Seq(Chunk)
        /\ Len(Append(file, chunk)) = Len(p)
    BY <1>1, <1>4, <1>5, AppendProperties
  <2>2. \A i \in 1 .. Len(p) : p[i] = Append(file, chunk)[i]
    BY <1>1, <1>2, <1>4, <1>5, AppendProperties
  <2> QED BY <1>4, <2>1, <2>2, SeqEqual
<1> QED BY <1>4, <1>5

\* What the type invariant says of one call, in the form the steps use.
LEMMA CallType ==
  ASSUME TypeOK, NEW c \in Call
  PROVE  /\ calls[c] \in CallState
         /\ calls[c].moved \in Seq(Chunk)
         /\ Len(calls[c].moved) \in Nat
         /\ c \in Chunk
<1>1. calls[c] \in CallState
  BY DEF TypeOK
<1>2. calls[c].moved \in Seq(Chunk)
  BY <1>1 DEF CallState
<1> QED BY <1>1, <1>2, LenProperties DEF Chunk

\* The records a step may put in place of a call's.
LEMMA CallUpdate ==
  ASSUME TypeOK, NEW c \in Call, NEW r \in CallState
  PROVE  [calls EXCEPT ![c] = r] \in [Call -> CallState]
  BY DEF TypeOK

LEMMA AnswerType ==
  ASSUME TypeOK, NEW c \in Call,
         NEW answer \in {"none", "escapes", "error", "names", "content", "written"}
  PROVE  /\ Answer(c, answer) \in [Call -> CallState]
         /\ Answer(c, answer)[c] = [calls[c] EXCEPT !.pc = "done", !.answer = answer]
<1> DEFINE r == [calls[c] EXCEPT !.pc = "done", !.answer = answer]
<1>1. r \in CallState
  BY CallType DEF CallState
<1>2. Answer(c, answer) = [calls EXCEPT ![c] = r]
  BY DEF Answer, TypeOK
<1> QED BY <1>1, <1>2, CallUpdate DEF TypeOK

\* A call that neither reads nor writes, before or after its step.
LEMMA QuietStep ==
  ASSUME IInv, NEW c \in Call, Resolve(c) \/ ListOrFail(c)
  PROVE  IInv'
<1> USE DEF IInv
<1>1. /\ UNCHANGED <<files, settled>>
      /\ \A d \in Call : d # c => calls'[d] = calls[d]
      /\ calls[c].pc \in {"idle", "open"} /\ calls'[c].pc \in {"open", "done"}
      /\ calls'[c].moved = calls[c].moved
      /\ calls'[c].answer \in {"none", "escapes", "error", "names"}
      /\ calls'[c].pc # "done" => calls'[c].answer = calls[c].answer
      /\ calls' \in [Call -> CallState]
  <2>1. CASE Resolve(c)
    <3>1. PICK request \in Requests[c] :
            calls' = [calls EXCEPT ![c] =
              IF IsPrefix(Root, Candidate(request))
              THEN [@ EXCEPT !.pc = "open", !.request = request, !.target = Candidate(request)]
              ELSE [@ EXCEPT !.pc = "done", !.request = request, !.answer = "escapes"]]
      BY <2>1 DEF Resolve
    <3>2. request \in Request /\ Candidate(request) \in Targets
      BY RequestsAssumption DEF Targets
    <3> DEFINE r == IF IsPrefix(Root, Candidate(request))
                    THEN [calls[c] EXCEPT !.pc = "open", !.request = request, !.target = Candidate(request)]
                    ELSE [calls[c] EXCEPT !.pc = "done", !.request = request, !.answer = "escapes"]
    <3>3. r \in CallState
      BY <3>2, CallType DEF CallState
    <3>4. calls' = [calls EXCEPT ![c] = r]
      BY <3>1
    <3>5. calls'[c] = r /\ calls' \in [Call -> CallState]
      BY <3>3, <3>4, CallUpdate DEF TypeOK
    <3>6. calls[c].pc = "idle" /\ UNCHANGED <<files, settled>> /\ calls[c].answer = "none"
      BY <2>1 DEF Resolve, CallsWellFormed
    <3>7. /\ r.pc \in {"open", "done"} /\ r.moved = calls[c].moved
          /\ r.answer \in {"none", "escapes"} /\ r.pc # "done" => r.answer = calls[c].answer
      BY <3>6, CallType DEF CallState
    <3>8. \A d \in Call : d # c => calls'[d] = calls[d]
      BY <3>4 DEF TypeOK
    <3> QED BY <3>5, <3>6, <3>7, <3>8
  <2>2. CASE ListOrFail(c)
    <3>1. PICK answer \in {"none", "escapes", "error", "names", "content", "written"} :
            answer \in {"names", "error"} /\ calls' = Answer(c, answer)
      BY <2>2 DEF ListOrFail
    <3>2. calls'[c] = [calls[c] EXCEPT !.pc = "done", !.answer = answer]
      BY <3>1, AnswerType
    <3>3. calls'[c].pc = "done" /\ calls'[c].answer = answer /\ calls'[c].moved = calls[c].moved
      BY <3>2, CallType DEF CallState
    <3>4. calls[c].pc = "open" /\ UNCHANGED <<files, settled>>
      BY <2>2 DEF ListOrFail
    <3>5. calls' \in [Call -> CallState]
      <4>1. Answer(c, answer) \in [Call -> CallState]
        BY <3>1, AnswerType, Zenon
      <4> QED BY <3>1, <4>1
    <3>6. \A d \in Call : d # c => calls'[d] = calls[d]
      <4>1. ASSUME NEW d \in Call, d # c PROVE calls'[d] = calls[d]
        BY <3>1, <4>1 DEF Answer, TypeOK
      <4> QED BY <4>1
    <3>7. calls'[c].answer \in {"none", "escapes", "error", "names"}
      BY <3>1, <3>3
    <3> QED BY <3>3, <3>4, <3>5, <3>6, <3>7
  <2> QED BY <2>1, <2>2
<1>2. \A d \in Call : \A f : /\ Uses(d, "write", f)' <=> Uses(d, "write", f)
                             /\ Uses(d, "read", f)' <=> Uses(d, "read", f)
  BY <1>1 DEF Uses
<1>3. TypeOK'
  BY <1>1 DEF TypeOK
<1>4. CallsWellFormed'
  BY <1>1 DEF CallsWellFormed
<1>5. (\A d \in Call : WriterInv(d)')
  BY <1>1, <1>2 DEF WriterInv
<1>6. (\A d \in Call : ReaderInv(d)')
  BY <1>1, <1>2 DEF ReaderInv
<1>7. QuietFile' /\ QuietRead'
  BY <1>1, <1>2 DEF QuietFile, QuietRead
<1> QED BY <1>3, <1>4, <1>5, <1>6, <1>7

LEMMA OpenReadStep ==
  ASSUME IInv, NEW c \in Call, OpenRead(c)
  PROVE  IInv'
<1> USE DEF IInv
<1> DEFINE t == calls[c].target
<1>1. /\ UNCHANGED <<files, settled>>
      /\ \A d \in Call : d # c => calls'[d] = calls[d]
      /\ calls[c].pc = "open" /\ calls'[c].pc = "read" /\ calls'[c].target = t
      /\ calls'[c].moved = <<>> /\ calls'[c].answer = "none"
      /\ t \in Files /\ files[t] # Missing
      /\ calls'[c].alone = ~\E d \in Call : Uses(d, "write", t)
      /\ calls'[c].want = settled[t]
      /\ calls' \in [Call -> CallState]
  <2>1. /\ calls[c].pc = "open" /\ calls[c].moved = <<>> /\ calls[c].answer = "none"
        /\ t \in Files /\ files[t] # Missing /\ UNCHANGED <<files, settled>>
    BY DEF OpenRead, CallsWellFormed
  <2> DEFINE r == [calls[c] EXCEPT !.pc = "read", !.want = settled[t],
                                   !.alone = ~\E d \in Call : Uses(d, "write", t)]
  <2>2. settled[t] \in Seq(Chunk) \cup {Unsettled, Missing}
    BY <2>1 DEF TypeOK
  <2>3. r \in CallState
    BY <2>2, CallType DEF CallState
  <2>4. calls' = [calls EXCEPT ![c] = r]
    BY DEF OpenRead, TypeOK
  <2>5. calls'[c] = r /\ calls' \in [Call -> CallState]
    BY <2>3, <2>4, CallUpdate DEF TypeOK
  <2>6. /\ r.pc = "read" /\ r.target = t /\ r.moved = <<>> /\ r.answer = "none"
        /\ r.want = settled[t] /\ r.alone = ~\E d \in Call : Uses(d, "write", t)
    BY <2>1, CallType DEF CallState
  <2>7. \A d \in Call : d # c => calls'[d] = calls[d]
    BY <2>4 DEF TypeOK
  <2> QED BY <2>1, <2>5, <2>6, <2>7
<1>2. \A d \in Call : \A f : Uses(d, "write", f)' <=> Uses(d, "write", f)
  BY <1>1 DEF Uses
<1>3. TypeOK' /\ CallsWellFormed'
  BY <1>1 DEF TypeOK, CallsWellFormed
<1>4. (\A d \in Call : WriterInv(d)')
  BY <1>1, <1>2 DEF WriterInv
<1>5. (\A d \in Call : ReaderInv(d)')
  <2>1. files[t] \in Seq(Chunk) /\ Len(files[t]) \in Nat
    BY <1>1, LenProperties DEF TypeOK
  <2>2. \A i \in 1 .. Len(<<>>) : <<>>[i] = files[t][i]
    OBVIOUS
  <2>3. Len(<<>>) <= Len(files[t])
    BY <2>1
  <2>4. ASSUME calls'[c].alone PROVE \A d \in Call : ~Uses(d, "write", t)
    BY <1>1, <2>4
  <2> QED BY <1>1, <1>2, <2>2, <2>3, <2>4 DEF ReaderInv
<1>6. QuietFile' /\ QuietRead'
  BY <1>1, <1>2 DEF QuietFile, QuietRead
<1> QED BY <1>3, <1>4, <1>5, <1>6

LEMMA ReadChunkStep ==
  ASSUME IInv, NEW c \in Call, ReadChunk(c)
  PROVE  IInv'
<1> USE DEF IInv
<1> DEFINE t    == calls[c].target
           file == files[t]
           next == Len(calls[c].moved) + 1
<1>0. /\ calls[c].pc = "read" /\ t \in Files /\ file \in Seq(Chunk) /\ Len(file) \in Nat
      /\ calls[c].moved \in Seq(Chunk) /\ Len(calls[c].moved) \in Nat
      /\ UNCHANGED <<files, settled>>
  BY CallType, LenProperties DEF ReadChunk, CallsWellFormed, TypeOK
<1>1. /\ \A d \in Call : d # c => calls'[d] = calls[d]
      /\ \A d \in Call : \A f : Uses(d, "write", f)' <=> Uses(d, "write", f)
      /\ UNCHANGED <<calls[c].target, calls[c].alone, calls[c].want>>
  BY <1>0 DEF ReadChunk, Answer, Uses, TypeOK
<1>2. CASE next <= Len(file)
  <2>1. calls' = [calls EXCEPT ![c].moved = Append(@, file[next])]
    BY <1>2 DEF ReadChunk
  <2>2. file[next] \in Chunk
    BY <1>0, <1>2, ElementOfSeq
  <2>3. /\ calls'[c].moved = Append(calls[c].moved, file[next])
        /\ calls'[c].moved \in Seq(Chunk)
        /\ Len(calls'[c].moved) = next
        /\ \A i \in 1 .. Len(calls[c].moved) : calls'[c].moved[i] = calls[c].moved[i]
        /\ calls'[c].moved[next] = file[next]
        /\ UNCHANGED <<calls[c].pc, calls[c].answer>>
    BY <1>0, <2>1, <2>2, AppendProperties DEF TypeOK, CallState
  <2>4. TypeOK'
    <3>1. [calls[c] EXCEPT !.moved = Append(@, file[next])] \in CallState
      BY <2>3, <2>1, CallType DEF CallState, TypeOK
    <3>2. calls' = [calls EXCEPT ![c] = [calls[c] EXCEPT !.moved = Append(@, file[next])]]
      BY <2>1 DEF TypeOK
    <3>3. calls' \in [Call -> CallState]
      BY <3>1, <3>2, CallUpdate
    <3> QED BY <1>0, <3>3 DEF TypeOK
  <2>5. CallsWellFormed'
    BY <1>0, <1>1, <2>3 DEF CallsWellFormed
  <2>6. (\A d \in Call : WriterInv(d)')
    BY <1>0, <1>1, <2>3 DEF WriterInv
  <2>7. (\A d \in Call : ReaderInv(d)')
    <3>1. ASSUME NEW i \in 1 .. next, calls[c].alone PROVE calls'[c].moved[i] = file[i]
      BY <1>0, <2>3, <3>1 DEF ReaderInv
    <3>2. ASSUME calls[c].alone
          PROVE  /\ \A d \in Call : ~Uses(d, "write", t)
                 /\ calls[c].want = settled[t]
      BY <1>0, <3>2 DEF ReaderInv
    <3>3. ReaderInv(c)'
      BY <1>0, <1>1, <1>2, <2>3, <3>1, <3>2 DEF ReaderInv
    <3>4. ASSUME NEW d \in Call, d # c PROVE ReaderInv(d)'
      <4>1. calls'[d] = calls[d] /\ UNCHANGED <<files, settled>>
        BY <1>0, <1>1, <3>4
      <4> QED BY <1>1, <4>1 DEF ReaderInv
    <3> QED BY <3>3, <3>4
  <2>8. QuietFile' /\ QuietRead'
    <3>1. calls'[c].answer # "content"
      BY <1>0, <2>3 DEF CallsWellFormed
    <3> QED BY <1>0, <1>1, <3>1 DEF QuietFile, QuietRead
  <2> QED BY <2>4, <2>5, <2>6, <2>7, <2>8
<1>3. CASE ~(next <= Len(file))
  <2>1. calls' = Answer(c, "content")
    BY <1>3 DEF ReadChunk
  <2>2. calls'[c].pc = "done" /\ calls'[c].moved = calls[c].moved
    BY <2>1 DEF Answer, TypeOK
  <2>3. TypeOK'
    <3>1. calls' \in [Call -> CallState]
      BY <2>1, AnswerType
    <3> QED BY <1>0, <3>1 DEF TypeOK
  <2>4. CallsWellFormed' /\ (\A d \in Call : WriterInv(d)')
    BY <1>0, <1>1, <2>2 DEF CallsWellFormed, WriterInv
  <2>5. (\A d \in Call : ReaderInv(d)') /\ QuietFile'
    BY <1>0, <1>1, <2>2 DEF ReaderInv, QuietFile
  <2>6. QuietRead'
    <3>1. ASSUME calls[c].alone, calls[c].want # Unsettled PROVE calls[c].moved = calls[c].want
      <4>1. calls[c].want = file
        BY <1>0, <3>1 DEF ReaderInv, QuietFile
      <4>2. Len(calls[c].moved) = Len(file)
        BY <1>0, <1>3, <3>1 DEF ReaderInv
      <4> QED BY <1>0, <3>1, <4>1, <4>2, SeqEqual DEF ReaderInv
    <3> QED BY <1>0, <1>1, <2>2, <3>1 DEF QuietRead
  <2> QED BY <2>3, <2>4, <2>5, <2>6
<1> QED BY <1>2, <1>3

\* A write begins or goes on or ends: the steps that change a file.
LEMMA OpenWriteStep ==
  ASSUME IInv, NEW c \in Call, OpenWrite(c)
  PROVE  IInv'
<1> USE DEF IInv
<1> DEFINE t == calls[c].target
           busy == \E other \in Call : Uses(other, "write", t)
           r == [calls[c] EXCEPT !.pc = "write", !.alone = ~busy]
<1>1. /\ calls[c].pc = "open" /\ t \in Files /\ settled' = settled
      /\ calls[c].moved = <<>> /\ calls[c].answer = "none"
      /\ files' = [files EXCEPT ![t] = <<>>]
  BY DEF OpenWrite, Opened, CallsWellFormed
<1>2. /\ r \in CallState /\ r.pc = "write" /\ r.alone = ~busy
      /\ r.target = t /\ r.moved = <<>> /\ r.answer = "none"
  BY <1>1, CallType DEF CallState
<1>3. \A d \in Call : /\ [calls[d] EXCEPT !.alone = FALSE] \in CallState
                      /\ [calls[d] EXCEPT !.alone = FALSE].pc = calls[d].pc
                      /\ [calls[d] EXCEPT !.alone = FALSE].target = calls[d].target
                      /\ [calls[d] EXCEPT !.alone = FALSE].moved = calls[d].moved
                      /\ [calls[d] EXCEPT !.alone = FALSE].answer = calls[d].answer
                      /\ [calls[d] EXCEPT !.alone = FALSE].alone = FALSE
  BY CallType DEF CallState
<1>4. calls' = [d \in Call |-> IF d = c THEN r
                               ELSE IF Uses(d, "read", t) \/ Uses(d, "write", t) THEN [calls[d] EXCEPT !.alone = FALSE] ELSE calls[d]]
  BY DEF OpenWrite
<1>5. calls'[c] = r
  BY <1>4
<1>50. ASSUME NEW d \in Call, d # c
       PROVE  /\ calls'[d].pc = calls[d].pc
              /\ calls'[d].target = calls[d].target
              /\ calls'[d].moved = calls[d].moved
              /\ calls'[d].answer = calls[d].answer
              /\ Uses(d, "read", t) \/ Uses(d, "write", t) => calls'[d].alone = FALSE
              /\ ~(Uses(d, "read", t) \/ Uses(d, "write", t)) => calls'[d] = calls[d]
  <2>1. CASE Uses(d, "read", t) \/ Uses(d, "write", t)
    <3>1. calls'[d] = [calls[d] EXCEPT !.alone = FALSE]
      BY <1>4, <1>50, <2>1
    <3> QED BY <1>3, <2>1, <3>1
  <2>2. CASE ~(Uses(d, "read", t) \/ Uses(d, "write", t))
    <3>1. calls'[d] = calls[d]
      BY <1>4, <1>50, <2>2
    <3> QED BY <2>2, <3>1
  <2> QED BY <2>1, <2>2
<1>6. \A f \in Files : f # t => files'[f] = files[f]
  BY <1>1 DEF TypeOK
<1>7. files'[t] = <<>> /\ <<>> # Missing /\ <<>> \in Seq(Chunk) /\ Len(<<>>) = 0
  <2>1. <<>> \in Seq(Chunk) /\ Len(<<>>) = 0
    OBVIOUS
  <2> QED BY <1>1, <2>1, ValuesAssumption DEF TypeOK
<1>8. TypeOK'
  <2>1. calls' \in [Call -> CallState]
    BY <1>2, <1>3, <1>4, CallType
  <2>2. files' \in [Files -> Seq(Chunk) \cup {Missing}]
    BY <1>1, <1>7 DEF TypeOK
  <2> QED BY <1>1, <2>1, <2>2 DEF TypeOK
<1>9. CallsWellFormed'
  <2>1. ASSUME NEW d \in Call
        PROVE  /\ calls'[d].pc \in {"idle", "open"} => calls'[d].moved = <<>>
               /\ calls'[d].pc # "done" => calls'[d].answer = "none"
               /\ calls'[d].pc \in {"read", "write"} =>
                    calls'[d].target \in Files /\ files'[calls'[d].target] # Missing
    <3>1. CASE d = c
      BY <1>1, <1>2, <1>5, <1>7, <3>1
    <3>2. CASE d # c
      <4>1. \A f \in Files : files[f] # Missing => files'[f] # Missing
        BY <1>6, <1>7
      <4> QED BY <1>50, <3>2, <4>1 DEF CallsWellFormed
    <3> QED BY <3>1, <3>2
  <2> QED BY <2>1 DEF CallsWellFormed
<1>10. ASSUME NEW d \in Call, d # c, calls[d].pc \in {"read", "write"}, calls'[d].alone
       PROVE  /\ calls[d].target # t /\ calls'[d] = calls[d]
              /\ files'[calls[d].target] = files[calls[d].target]
              /\ \A other \in Call : Uses(other, "write", calls[d].target)' =>
                                     Uses(other, "write", calls[d].target)
  <2>1. ~(Uses(d, "read", t) \/ Uses(d, "write", t))
    BY <1>50, <1>10
  <2>2. calls[d].target # t /\ calls[d].target \in Files /\ calls'[d] = calls[d]
    BY <1>10, <1>50, <2>1 DEF Uses, CallsWellFormed
  <2>3. ASSUME NEW other \in Call, calls'[other].pc = "write", calls'[other].target = calls[d].target
        PROVE  calls[other].pc = "write" /\ calls[other].target = calls[d].target
    <3>1. other # c
      BY <1>2, <1>5, <2>2, <2>3
    <3> QED BY <1>50, <2>3, <3>1
  <2> QED BY <1>6, <2>2, <2>3 DEF Uses
<1>11. ASSUME NEW d \in Call PROVE WriterInv(d)' /\ ReaderInv(d)'
  <2>1. CASE d = c
    <3>1. 0 <= Size[c]
      BY SizeAssumption
    <3>2. ASSUME r.alone, NEW other \in Call, calls'[other].pc = "write", calls'[other].target = t
          PROVE  other = c
      <4>1. SUFFICES ASSUME other # c PROVE FALSE
        OBVIOUS
      <4>2. Uses(other, "write", t)
        BY <1>50, <3>2, <4>1 DEF Uses
      <4> QED BY <1>2, <3>2, <4>2
    <3>3. ReaderInv(c)'
      BY <1>2, <1>5 DEF ReaderInv
    <3>4. WriterInv(c)'
      BY <1>2, <1>5, <1>7, <3>1, <3>2 DEF WriterInv, Uses
    <3> QED BY <2>1, <3>3, <3>4
  <2>2. CASE d # c
    <3>1. /\ calls'[d].pc = calls[d].pc /\ calls'[d].moved = calls[d].moved
          /\ calls'[d].target = calls[d].target
      BY <1>50, <2>2
    <3>2. ASSUME ~calls'[d].alone PROVE WriterInv(d)' /\ ReaderInv(d)'
      BY <3>1, <3>2 DEF WriterInv, ReaderInv
    <3>3. ASSUME calls'[d].alone, calls[d].pc = "write" PROVE WriterInv(d)'
      <4>1. calls'[d] = calls[d] /\ files'[calls[d].target] = files[calls[d].target]
        BY <1>10, <2>2, <3>3
      <4>2. \A other \in Call : Uses(other, "write", calls[d].target)' => other = d
        <5>1. \A other \in Call : Uses(other, "write", calls[d].target) => other = d
          BY <3>3, <4>1 DEF WriterInv
        <5> QED BY <1>10, <2>2, <3>3, <5>1
      <4> QED BY <3>3, <4>1, <4>2 DEF WriterInv
    <3>4. ASSUME calls'[d].alone, calls[d].pc = "read" PROVE ReaderInv(d)'
      <4>1. calls'[d] = calls[d] /\ files'[calls[d].target] = files[calls[d].target]
        BY <1>10, <2>2, <3>4
      <4>2. \A other \in Call : ~Uses(other, "write", calls[d].target)'
        <5>1. \A other \in Call : ~Uses(other, "write", calls[d].target)
          BY <3>4, <4>1 DEF ReaderInv
        <5> QED BY <1>10, <2>2, <3>4, <5>1
      <4> QED BY <1>1, <3>4, <4>1, <4>2 DEF ReaderInv
    <3>5. calls[d].pc # "write" => WriterInv(d)'
      BY <3>1 DEF WriterInv
    <3>6. calls[d].pc # "read" => ReaderInv(d)'
      BY <3>1 DEF ReaderInv
    <3> QED BY <3>2, <3>3, <3>4, <3>5, <3>6
  <2> QED BY <2>1, <2>2
<1>12. QuietFile'
  <2>1. calls'[c].pc = "write" /\ calls'[c].target = t
    BY <1>2, <1>5
  <2>2. ASSUME NEW d \in Call, NEW f, Uses(d, "write", f) PROVE Uses(d, "write", f)'
    BY <1>1, <1>50, <2>2 DEF Uses
  <2>3. ASSUME NEW f \in Files, \A d \in Call : ~Uses(d, "write", f)'
        PROVE  settled'[f] \in {Unsettled, files'[f]}
    <3>1. f # t
      BY <2>1, <2>3 DEF Uses
    <3>2. \A d \in Call : ~Uses(d, "write", f)
      BY <2>2, <2>3
    <3> QED BY <1>1, <1>6, <3>1, <3>2 DEF QuietFile
  <2> QED BY <2>3 DEF QuietFile
<1>13. QuietRead'
  <2>1. ASSUME NEW d \in Call, calls'[d].answer = "content", calls'[d].alone
        PROVE  calls'[d] = calls[d]
    <3>1. d # c /\ calls[d].pc = "done"
      BY <1>2, <1>5, <1>50, <2>1 DEF CallsWellFormed
    <3> QED BY <1>5, <1>50, <3>1 DEF Uses
  <2> QED BY <1>2, <1>5, <1>50, <2>1 DEF QuietRead
<1> QED BY <1>8, <1>9, <1>11, <1>12, <1>13

LEMMA WriteChunkStep ==
  ASSUME IInv, NEW c \in Call, WriteChunk(c)
  PROVE  IInv'
<1> USE DEF IInv
<1> DEFINE t == calls[c].target
           n == Len(calls[c].moved) + 1
           r == [calls[c] EXCEPT !.moved = Append(@, c)]
<1>1. /\ calls[c].pc = "write" /\ t \in Files /\ files[t] # Missing /\ settled' = settled
      /\ Len(calls[c].moved) < Size[c]
      /\ files' = [files EXCEPT ![t] = Placed(files[t], n, c)]
      /\ calls' = [calls EXCEPT ![c] = r]
  BY DEF WriteChunk, CallsWellFormed, TypeOK
<1>2. /\ calls[c].moved \in Seq(Chunk) /\ Len(calls[c].moved) \in Nat /\ c \in Chunk
      /\ files[t] \in Seq(Chunk) /\ Size[c] \in Nat
  BY <1>1, CallType, SizeAssumption DEF TypeOK
<1>3. /\ Placed(files[t], n, c) \in Seq(Chunk)
      /\ n = Len(files[t]) + 1 => Placed(files[t], n, c) = Append(files[t], c)
  <2>1. n \in Nat \ {0}
    BY <1>2
  <2> HIDE DEF n
  <2> QED BY <1>2, <2>1, PlacedFile
<1>4. /\ Append(calls[c].moved, c) \in Seq(Chunk)
      /\ Len(Append(calls[c].moved, c)) = n
      /\ \A i \in 1 .. Len(calls[c].moved) : Append(calls[c].moved, c)[i] = calls[c].moved[i]
      /\ Append(calls[c].moved, c)[n] = c
  BY <1>2, AppendProperties
<1>5. /\ r \in CallState /\ r.pc = "write" /\ r.target = t /\ r.answer = calls[c].answer
      /\ r.moved = Append(calls[c].moved, c) /\ r.alone = calls[c].alone
  BY <1>1, <1>4, CallType DEF CallState
<1>6. calls'[c] = r /\ calls' \in [Call -> CallState]
  BY <1>1, <1>5, CallUpdate DEF TypeOK
<1>7. \A d \in Call : d # c => calls'[d] = calls[d]
  BY <1>1 DEF TypeOK
<1>8. /\ \A f \in Files : f # t => files'[f] = files[f]
      /\ files'[t] = Placed(files[t], n, c)
  BY <1>1 DEF TypeOK
<1>9. \A f \in Files : files[f] # Missing => files'[f] # Missing
  BY <1>3, <1>8, ValuesAssumption
<1>10. ASSUME NEW d \in Call
       PROVE  calls'[d].pc = calls[d].pc /\ calls'[d].target = calls[d].target
  BY <1>1, <1>5, <1>6, <1>7
<1>11. TypeOK'
  <2>1. files' \in [Files -> Seq(Chunk) \cup {Missing}]
    BY <1>1, <1>3 DEF TypeOK
  <2> QED BY <1>1, <1>6, <2>1 DEF TypeOK
<1>12. CallsWellFormed'
  <2>1. ASSUME NEW d \in Call
        PROVE  /\ calls'[d].pc \in {"idle", "open"} => calls'[d].moved = <<>>
               /\ calls'[d].pc # "done" => calls'[d].answer = "none"
               /\ calls'[d].pc \in {"read", "write"} =>
                    calls'[d].target \in Files /\ files'[calls'[d].target] # Missing
    <3>1. CASE d = c
      BY <1>1, <1>5, <1>6, <1>9, <3>1 DEF CallsWellFormed
    <3>2. CASE d # c
      BY <1>7, <1>9, <3>2 DEF CallsWellFormed
    <3> QED BY <3>1, <3>2
  <2> QED BY <2>1 DEF CallsWellFormed
<1>13. ASSUME NEW d \in Call PROVE WriterInv(d)'
  <2>1. CASE d = c
    <3>1. \A i \in 1 .. n : Append(calls[c].moved, c)[i] = c
      BY <1>1, <1>2, <1>4 DEF WriterInv
    <3>2. ASSUME calls[c].alone
          PROVE  /\ \A other \in Call : Uses(other, "write", t) => other = c
                 /\ Placed(files[t], n, c) = Append(calls[c].moved, c)
      <4>1. files[t] = calls[c].moved
        BY <1>1, <3>2 DEF WriterInv
      <4> QED BY <1>1, <1>3, <3>2, <4>1 DEF WriterInv
    <3>3. ASSUME calls[c].alone, NEW other \in Call, calls'[other].pc = "write", calls'[other].target = t
          PROVE  other = c
      <4>1. Uses(other, "write", t)
        BY <1>10, <3>3 DEF Uses
      <4> QED BY <3>2, <3>3, <4>1
    <3>4. n <= Size[c]
      BY <1>1, <1>2
    <3>5. /\ calls'[c].moved = Append(calls[c].moved, c) /\ calls'[c].target = t
          /\ calls'[c].alone = calls[c].alone /\ files'[t] = Placed(files[t], n, c)
      BY <1>5, <1>6, <1>8
    <3>6. /\ Len(calls'[c].moved) <= Size[c]
          /\ \A i \in 1 .. Len(calls'[c].moved) : calls'[c].moved[i] = c
      BY <1>4, <3>1, <3>4, <3>5
    <3>7. calls'[c].alone =>
            /\ \A other \in Call : calls'[other].pc = "write" /\ calls'[other].target = t => other = c
            /\ files'[t] = calls'[c].moved
      BY <3>2, <3>3, <3>5
    <3> QED BY <2>1, <3>5, <3>6, <3>7 DEF WriterInv, Uses
  <2>2. CASE d # c
    <3>1. ASSUME calls[d].pc = "write", calls[d].alone
          PROVE  calls[d].target # t /\ files'[calls[d].target] = files[calls[d].target]
      <4>1. calls[d].target # t
        BY <1>1, <2>2, <3>1 DEF WriterInv, Uses
      <4> QED BY <1>8, <3>1, <4>1 DEF CallsWellFormed
    <3>2. ASSUME calls[d].pc = "write", calls[d].alone,
                 NEW other \in Call, calls'[other].pc = "write", calls'[other].target = calls[d].target
          PROVE  other = d
      <4>1. Uses(other, "write", calls[d].target)
        BY <1>10, <3>2 DEF Uses
      <4> QED BY <3>2, <4>1 DEF WriterInv
    <3> QED BY <1>7, <2>2, <3>1, <3>2 DEF WriterInv, Uses
  <2> QED BY <2>1, <2>2
<1>14. ASSUME NEW d \in Call PROVE ReaderInv(d)'
  <2>1. CASE d = c
    BY <1>5, <1>6, <2>1 DEF ReaderInv
  <2>2. CASE d # c
    <3>1. ASSUME calls[d].pc = "read", calls[d].alone
          PROVE  files'[calls[d].target] = files[calls[d].target]
      <4>1. calls[d].target # t
        BY <1>1, <3>1 DEF ReaderInv, Uses
      <4> QED BY <1>8, <3>1, <4>1 DEF CallsWellFormed
    <3>2. ASSUME calls[d].pc = "read", calls[d].alone,
                 NEW other \in Call, calls'[other].pc = "write", calls'[other].target = calls[d].target
          PROVE  FALSE
      <4>1. Uses(other, "write", calls[d].target)
        BY <1>10, <3>2 DEF Uses
      <4> QED BY <3>2, <4>1 DEF ReaderInv
    <3> QED BY <1>1, <1>7, <2>2, <3>1, <3>2 DEF ReaderInv, Uses
  <2> QED BY <2>1, <2>2
<1>15. QuietFile'
  <2>1. ASSUME NEW f \in Files, \A d \in Call : ~(calls'[d].pc = "write" /\ calls'[d].target = f)
        PROVE  settled'[f] \in {Unsettled, files'[f]}
    <3>1. f # t
      BY <1>5, <1>6, <2>1
    <3>2. \A d \in Call : ~Uses(d, "write", f)
      BY <1>10, <2>1 DEF Uses
    <3> QED BY <1>1, <1>8, <3>1, <3>2 DEF QuietFile
  <2> QED BY <2>1 DEF QuietFile, Uses
<1>16. QuietRead'
  <2>1. calls'[c].answer # "content"
    BY <1>1, <1>5, <1>6 DEF CallsWellFormed
  <2> QED BY <1>7, <2>1 DEF QuietRead
<1> QED BY <1>11, <1>12, <1>13, <1>14, <1>15, <1>16

LEMMA CloseWriteStep ==
  ASSUME IInv, NEW c \in Call, CloseWrite(c)
  PROVE  IInv'
<1> USE DEF IInv
<1> DEFINE t == calls[c].target
           left == IF calls[c].alone THEN Content(c) ELSE Unsettled
<1>1. /\ calls[c].pc = "write" /\ t \in Files /\ files' = files
      /\ Len(calls[c].moved) = Size[c]
      /\ calls' = Answer(c, "written") /\ settled' = [settled EXCEPT ![t] = left]
  BY DEF CloseWrite, CallsWellFormed
<1>2. calls'[c].pc = "done" /\ calls'[c].answer = "written"
  BY <1>1, CallType DEF Answer, TypeOK, CallState
<1>3. \A d \in Call : d # c => calls'[d] = calls[d]
  BY <1>1 DEF Answer, TypeOK
<1>4. /\ \A f \in Files : f # t => settled'[f] = settled[f]
      /\ settled'[t] = left
  BY <1>1 DEF TypeOK
<1>5. \A d \in Call : \A f : calls'[d].pc = "write" /\ calls'[d].target = f => Uses(d, "write", f)
  BY <1>2, <1>3 DEF Uses
<1>6. calls[c].alone => Content(c) = files[t]
  <2>1. /\ Content(c) \in Seq(Chunk) /\ Len(Content(c)) = Size[c]
        /\ \A i \in 1 .. Size[c] : Content(c)[i] = c
    <3>1. Content(c) \in [1 .. Size[c] -> Chunk] /\ Size[c] \in Nat
      BY SizeAssumption DEF Content, Chunk
    <3>2. Content(c) \in Seq(Chunk)
      BY <3>1, IsASeq
    <3> QED BY <3>1, <3>2, LenProperties DEF Content
  <2>2. calls[c].moved \in Seq(Chunk)
    BY CallType
  <2>3. \A i \in 1 .. Len(calls[c].moved) : calls[c].moved[i] = Content(c)[i]
    BY <1>1, <2>1 DEF WriterInv
  <2>4. Content(c) = calls[c].moved
    BY <1>1, <2>1, <2>2, <2>3, SeqEqual
  <2> QED BY <1>1, <2>4 DEF WriterInv
<1>7. TypeOK'
  <2>1. calls' \in [Call -> CallState]
    BY <1>1, AnswerType
  <2>2. left \in Seq(Chunk) \cup {Unsettled, Missing}
    BY <1>1, <1>6 DEF TypeOK
  <2>3. settled' \in [Files -> Seq(Chunk) \cup {Unsettled, Missing}]
    BY <1>1, <2>2 DEF TypeOK
  <2> QED BY <1>1, <2>1, <2>3 DEF TypeOK
<1>8. CallsWellFormed'
  BY <1>1, <1>2, <1>3 DEF CallsWellFormed
<1>9. ASSUME NEW d \in Call PROVE WriterInv(d)' /\ ReaderInv(d)'
  <2>1. CASE d = c
    BY <1>2, <2>1 DEF WriterInv, ReaderInv
  <2>2. CASE d # c
    <3>1. WriterInv(d)'
      BY <1>1, <1>3, <1>5, <2>2 DEF WriterInv, Uses
    <3>2. ASSUME calls[d].pc = "read", calls[d].alone
          PROVE  /\ settled'[calls[d].target] = settled[calls[d].target]
                 /\ \A other \in Call : ~Uses(other, "write", calls[d].target)
      <4>1. calls[d].target # t
        BY <1>1, <3>2 DEF ReaderInv, Uses
      <4> QED BY <1>4, <3>2, <4>1 DEF ReaderInv, CallsWellFormed
    <3>3. ReaderInv(d)'
      BY <1>1, <1>3, <1>5, <2>2, <3>2 DEF ReaderInv, Uses
    <3> QED BY <3>1, <3>3
  <2> QED BY <2>1, <2>2
<1>10. QuietFile'
  <2>1. ASSUME NEW f \in Files, \A d \in Call : ~(calls'[d].pc = "write" /\ calls'[d].target = f)
        PROVE  settled'[f] \in {Unsettled, files'[f]}
    <3>1. CASE f = t
      BY <1>1, <1>4, <1>6, <3>1
    <3>2. CASE f # t
      <4>1. \A d \in Call : ~Uses(d, "write", f)
        BY <1>1, <1>3, <2>1, <3>2 DEF Uses
      <4> QED BY <1>1, <1>4, <3>2, <4>1 DEF QuietFile
    <3> QED BY <3>1, <3>2
  <2> QED BY <2>1 DEF QuietFile, Uses
<1>11. QuietRead'
  BY <1>2, <1>3 DEF QuietRead
<1> QED BY <1>7, <1>8, <1>9, <1>10, <1>11

LEMMA StepInv == IInv /\ [Next]_vars => IInv'
<1> SUFFICES ASSUME IInv, [Next]_vars PROVE IInv'
  OBVIOUS
<1>1. ASSUME NEW c \in Call, Resolve(c) \/ ListOrFail(c) PROVE IInv'
  BY <1>1, QuietStep
<1>2. ASSUME NEW c \in Call, OpenRead(c) PROVE IInv'
  BY <1>2, OpenReadStep
<1>3. ASSUME NEW c \in Call, ReadChunk(c) PROVE IInv'
  BY <1>3, ReadChunkStep
<1>4. ASSUME NEW c \in Call, OpenWrite(c) PROVE IInv'
  BY <1>4, OpenWriteStep
<1>5. ASSUME NEW c \in Call, WriteChunk(c) PROVE IInv'
  BY <1>5, WriteChunkStep
<1>6. ASSUME NEW c \in Call, CloseWrite(c) PROVE IInv'
  BY <1>6, CloseWriteStep
<1>7. ASSUME UNCHANGED vars PROVE IInv'
  BY <1>7 DEF vars, IInv, TypeOK, CallsWellFormed, WriterInv, ReaderInv, QuietFile, QuietRead, Uses
<1> QED BY <1>1, <1>2, <1>3, <1>4, <1>5, <1>6, <1>7 DEF Next

\* IInv is an invariant: calls keep their files and contents well formed, and what
\* overlaps nothing has the file to itself.
THEOREM Invariance == Spec => []IInv
<1>1. Init => IInv
  BY InitInv
<1>2. IInv /\ [Next]_vars => IInv'
  BY StepInv
<1> QED BY <1>1, <1>2, PTL DEF Spec

\* A read that no write of the file overlapped returns what the last write wrote,
\* for any number of calls, requests and sizes (read_file, write_file).
THEOREM QuietReadTheorem == Spec => []QuietRead
<1>1. IInv => QuietRead
  BY DEF IInv
<1> QED BY <1>1, Invariance, PTL

\* Between writes a file is what the last one wrote, unless two overlapped
\* (write_file).
THEOREM QuietFileTheorem == Spec => []QuietFile
<1>1. IInv => QuietFile
  BY DEF IInv
<1> QED BY <1>1, Invariance, PTL
=============================================================================
