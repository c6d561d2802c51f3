-------------------------- MODULE CargoToolProofs --------------------------
(***************************************************************************)
(* Theorems about CargoTool for every command, pipe and timeout.           *)
(***************************************************************************)
EXTENDS CargoTool, TLAPS

LEMMA InitInv == Init => IInv
<1> SUFFICES ASSUME Init PROVE IInv
  OBVIOUS
<1>1. TypeOK
  <2>1. 0 \in 0 .. PipeCapacity
    BY PipeCapacityAssumption
  <2>2. Nothing \in [Stream -> 0 .. PipeCapacity] /\ Nothing \in [Stream -> Nat]
    BY <2>1 DEF Nothing
  <2> QED BY <2>2 DEF Init, TypeOK, HandlerState, ProcessState
<1>2. NothingLost
  BY DEF Init, NothingLost, Nothing
<1>3. HandlerInv
  BY DEF Init, HandlerInv
<1>4. WaitInv
  BY DEF Init, WaitInv, FittingNotKilled
<1> QED BY <1>1, <1>2, <1>3, <1>4 DEF IInv

\* The handler's steps that touch neither the processes nor the pipes.
LEMMA HandlerStepInv ==
  ASSUME IInv, UNCHANGED <<command, osVars>>,
         Validate \/ SpawnFails \/ WaitReturns \/ TimeoutExpires
           \/ ReadStdoutEnds \/ ReadStderrEnds \/ ServiceEnds
  PROVE  IInv'
<1> USE DEF IInv, osVars
<1>0. /\ received' \in [Stream -> Nat]
      /\ \A s \in Stream : command.text[s] => received'[s] = received[s]
  BY DEF TypeOK, Stream, Collected, Validate, SpawnFails, WaitReturns, TimeoutExpires,
         ReadStdoutEnds, ReadStderrEnds, ServiceEnds, WaitOutcomes, AfterTimeout
<1>1. TypeOK'
  BY <1>0 DEF TypeOK, HandlerState, Validate, SpawnFails, WaitReturns, TimeoutExpires,
         ReadStdoutEnds, ReadStderrEnds, ServiceEnds, WaitOutcomes, AfterTimeout
<1>2. NothingLost'
  BY <1>0 DEF NothingLost
<1>3. HandlerInv'
  BY DEF HandlerInv, Nothing, PipeEnded, Answers, Validate, SpawnFails, WaitReturns,
         TimeoutExpires, ReadStdoutEnds, ReadStderrEnds, ServiceEnds, WaitOutcomes,
         AfterTimeout
<1>4. WaitInv'
  <2>1. CASE TimeoutExpires
    <3>1. handler = "wait" /\ handler' = "kill" /\ (command.ends # "in_time" \/ ChildStuck)
      BY <2>1 DEF TimeoutExpires, AfterTimeout
    <3>2. Fits => ~ChildStuck
      <4>1. \A s \in Stream : /\ pipe[s] \in Nat /\ unwritten[s] \in Nat
                             /\ command.output[s] \in Nat /\ PipeCapacity \in Nat
        BY CommandsAssumption, PipeCapacityAssumption DEF TypeOK, Command
      <4>2. \A s \in Stream : pipe[s] + unwritten[s] <= command.output[s]
        BY <3>1 DEF WaitInv
      <4> QED BY <4>1, <4>2 DEF Fits, ChildStuck, Blocked
    <3> QED BY <3>1, <3>2 DEF WaitInv, FittingNotKilled, Fits
  <2>2. CASE ~TimeoutExpires
    BY <2>2 DEF WaitInv, FittingNotKilled, Fits, Validate, SpawnFails, WaitReturns,
                ReadStdoutEnds, ReadStderrEnds, ServiceEnds, WaitOutcomes
  <2> QED BY <2>1, <2>2
<1> QED BY <1>1, <1>2, <1>3, <1>4

LEMMA StepInv == IInv /\ [Next]_vars => IInv'
<1> SUFFICES ASSUME IInv, [Next]_vars PROVE IInv'
  OBVIOUS
<1> USE DEF IInv
<1>1. /\ command.output \in [Stream -> Nat] /\ command.descendant \in BOOLEAN
      /\ unwritten \in [Stream -> Nat]
      /\ pipe \in [Stream -> 0 .. PipeCapacity]
      /\ received \in [Stream -> Nat]
      /\ PipeCapacity \in Nat \ {0}
  BY CommandsAssumption, PipeCapacityAssumption DEF TypeOK, Command
<1>2. CASE Spawn
  <2>1. TypeOK'
    BY <1>1, <1>2 DEF Spawn, TypeOK, HandlerState, ProcessState
  <2>2. NothingLost'
    <3>1. /\ child = "none" /\ child' = "running" /\ unwritten' = command.output
          /\ UNCHANGED <<command, pipe, received>>
      BY <1>2 DEF Spawn, HandlerInv
    <3>2. \A s \in Stream : command.text[s] => received[s] + pipe[s] + unwritten[s] = 0
      BY <3>1 DEF NothingLost
    <3>3. \A s \in Stream : command.text[s] => received[s] = 0 /\ pipe[s] = 0
      <4>1. \A a, b, d \in Nat : a + b + d = 0 => a = 0 /\ b = 0
        OBVIOUS
      <4>2. \A s \in Stream : received[s] \in Nat /\ pipe[s] \in Nat /\ unwritten[s] \in Nat
        BY <1>1
      <4> QED BY <3>2, <4>1, <4>2
    <3>4. \A s \in Stream :
            command.text[s] =>
              received[s] + pipe[s] + command.output[s] = command.output[s]
      BY <1>1, <3>3
    <3> QED BY <3>1, <3>4 DEF NothingLost
  <2>3. HandlerInv'
    BY <1>2 DEF Spawn, HandlerInv
  <2>4. WaitInv'
    <3>1. \A s \in Stream : pipe'[s] = 0 /\ unwritten'[s] = command.output[s]
      BY <1>2 DEF Spawn, WaitInv, Nothing
    <3> QED BY <1>1, <1>2, <3>1 DEF Spawn, WaitInv, FittingNotKilled
  <2> QED BY <2>1, <2>2, <2>3, <2>4
<1>3. ASSUME NEW s \in Stream, ChildWrites(s)
      PROVE  IInv'
  <2>1. /\ unwritten[s] > 0 /\ pipe[s] < PipeCapacity /\ child = "running"
        /\ unwritten' = [unwritten EXCEPT ![s] = unwritten[s] - 1]
        /\ pipe' = [pipe EXCEPT ![s] = pipe[s] + 1]
        /\ UNCHANGED <<command, handler, child, descendant, received>>
    BY <1>1, <1>3 DEF ChildWrites, ChildStuck, Blocked
  <2>2. unwritten[s] - 1 \in Nat /\ pipe[s] + 1 \in 0 .. PipeCapacity
    BY <1>1, <2>1
  <2>3. TypeOK'
    BY <1>1, <2>1, <2>2 DEF TypeOK
  <2>4. NothingLost'
    BY <1>1, <2>1 DEF NothingLost
  <2>5. HandlerInv'
    BY <2>1 DEF HandlerInv
  <2>6. WaitInv'
    <3>1. handler \notin {"validate", "spawn"}
      BY <2>1 DEF HandlerInv
    <3>2. ASSUME NEW t \in Stream
          PROVE  pipe'[t] + unwritten'[t] = pipe[t] + unwritten[t]
      BY <1>1, <2>1
    <3>3. handler = "wait" => \A t \in Stream : pipe'[t] + unwritten'[t] <= command.output[t]
      BY <3>2 DEF WaitInv
    <3> QED BY <2>1, <3>1, <3>3 DEF WaitInv, FittingNotKilled, Fits
  <2> QED BY <2>3, <2>4, <2>5, <2>6
<1>4. CASE ChildExits
  <2>1. TypeOK'
    BY <1>1, <1>4 DEF ChildExits, TypeOK, ProcessState
  <2>2. NothingLost' /\ HandlerInv'
    BY <1>4 DEF ChildExits, NothingLost, HandlerInv
  <2>3. WaitInv'
    BY <1>4 DEF ChildExits, WaitInv, FittingNotKilled, Fits
  <2> QED BY <2>1, <2>2, <2>3
<1>5. CASE DescendantExits
  BY <1>5 DEF DescendantExits, TypeOK, NothingLost, HandlerInv, WaitInv, FittingNotKilled, Fits
<1>6. CASE Kill
  <2>1. TypeOK'
    BY <1>1, <1>6 DEF Kill, TypeOK, HandlerState, ProcessState
  <2>2. NothingLost' /\ HandlerInv'
    BY <1>6 DEF Kill, NothingLost, HandlerInv
  <2>3. WaitInv'
    BY <1>6 DEF Kill, WaitInv, FittingNotKilled, Fits
  <2> QED BY <2>1, <2>2, <2>3
<1>7. ASSUME NEW s \in Stream, ReadMore(s)
      PROVE  IInv'
  <2>1. /\ received' = [received EXCEPT ![s] = received[s] + pipe[s]]
        /\ pipe' = [pipe EXCEPT ![s] = 0]
        /\ handler \in {"read_stdout", "read_stderr"}
        /\ UNCHANGED <<command, handler, child, descendant, unwritten>>
    BY <1>7 DEF ReadMore
  <2>2. received[s] + pipe[s] \in Nat
    BY <1>1
  <2>3. TypeOK'
    BY <1>1, <2>1, <2>2 DEF TypeOK
  <2>4. NothingLost'
    BY <1>1, <2>1 DEF NothingLost
  <2>5. HandlerInv'
    BY <1>1, <2>1 DEF HandlerInv, Stream
  <2>6. WaitInv'
    BY <2>1 DEF WaitInv, FittingNotKilled, Fits
  <2> QED BY <2>3, <2>4, <2>5, <2>6
<1>8. CASE UNCHANGED vars
  BY <1>8 DEF vars, TypeOK, NothingLost, HandlerInv, WaitInv, FittingNotKilled, Fits
<1>9. Validate \/ SpawnFails \/ WaitReturns \/ TimeoutExpires
        \/ ReadStdoutEnds \/ ReadStderrEnds \/ ServiceEnds => IInv'
  BY HandlerStepInv DEF Validate, SpawnFails, WaitReturns, TimeoutExpires,
     ReadStdoutEnds, ReadStderrEnds, ServiceEnds, WaitOutcomes, AfterTimeout
<1> QED
  BY <1>2, <1>3, <1>4, <1>5, <1>6, <1>7, <1>8, <1>9 DEF Next, HandlerStep, OsStep

THEOREM CargoInvariance == Spec => []IInv
BY InitInv, StepInv, PTL DEF Spec

\* Every variable has its type.
THEOREM CargoTypeCorrect == Spec => []TypeOK
<1>1. IInv => TypeOK
  BY DEF IInv
<1> QED BY <1>1, CargoInvariance, PTL

\* A reply that shows the output shows all text, for any amounts and any pipe.
THEOREM OutputCompleteTheorem == Spec => []OutputComplete
<1>1. IInv => OutputComplete
  <2> SUFFICES ASSUME IInv, handler = "output",
                         NEW s \in Stream, command.text[s]
                  PROVE  received[s] = command.output[s]
    BY DEF OutputComplete
  <2>1. /\ command.output \in [Stream -> Nat] /\ received \in [Stream -> Nat]
        /\ child = "exited" /\ unwritten = Nothing
        /\ pipe["stdout"] = 0 /\ pipe["stderr"] = 0
    BY CommandsAssumption DEF IInv, TypeOK, Command, HandlerInv
  <2>2. received[s] + pipe[s] + unwritten[s] = command.output[s]
    BY <2>1 DEF IInv, NothingLost
  <2>3. pipe[s] = 0 /\ unwritten[s] = 0
    BY <2>1 DEF Nothing, Stream
  <2> QED BY <2>1, <2>2, <2>3
<1> QED BY <1>1, CargoInvariance, PTL

\* No call is answered while its cargo process runs, however the timer, the exit
\* and the end of the service fall.
THEOREM AnsweredChildGoneTheorem == Spec => []AnsweredChildGone
<1>1. IInv => AnsweredChildGone
  BY DEF IInv, HandlerInv, AnsweredChildGone, Answers
<1> QED BY <1>1, CargoInvariance, PTL

\* No command is killed that would have ended in time, if the pipes can hold its
\* output, whatever their capacity.
THEOREM FittingNotKilledTheorem == Spec => []FittingNotKilled
<1>1. IInv => FittingNotKilled
  BY DEF IInv, WaitInv
<1> QED BY <1>1, CargoInvariance, PTL
=============================================================================
