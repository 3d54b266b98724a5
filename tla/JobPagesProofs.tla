--------------------------- MODULE JobPagesProofs ---------------------------
(***************************************************************************)
(* Proofs about what runs beside the interface.  The components of         *)
(* JobPages share no state, so that each has an inductive invariant of its *)
(* own, and a step of JobNext is one component's.                          *)
(***************************************************************************)
EXTENDS JobPages, Integers, Sequences, SequenceTheorems, FiniteSetTheorems, Induction, TLAPS

-----------------------------------------------------------------------------
(* ProcessRunner: the command.                                             *)

(* What was written to a pipe and is not in it any more has been kept, or  *)
(* is over the limit and was cut, which the result says.                   *)
Accounted ==
  \A p \in Pipes :
    \/ kept[p] + in_pipe[p] = written[p]
    \/ truncated /\ kept[p] = MaxOutput /\ kept[p] + in_pipe[p] < written[p]

(* An end of file is only seen when nobody can write any more and nothing  *)
(* is left to read.                                                        *)
ClosedAtEnd == \A p \in Pipes : ~open[p] => writers[p] = {} /\ in_pipe[p] = 0

(* Where the caller is tells what has been started; it leaves the loop     *)
(* after both ends of file, at the time limit, or because poll failed.     *)
CallerPlaced ==
  /\ pc = "spawn" => child = "none" /\ \A p \in Pipes : writers[p] = {} /\ open[p]
  /\ child = "none" => pc \in {"spawn", "done"}
  /\ pc = "drain" => timed_out
  /\ pc \in {"reap", "done"} => failed \/ timed_out \/ \A p \in Pipes : ~open[p]

(* The inductive invariant of ProcessRunner.                               *)
PInv == TypeOK /\ Accounted /\ ClosedAtEnd /\ CallerPlaced /\ ChildReaped

(* It tells all that Inv does.                                             *)
LEMMA PInvGivesInv == ASSUME PInv PROVE Inv
<1>1. SuccessIsComplete
  <2> SUFFICES ASSUME pc = "done", Success, NEW p \in Pipes
               PROVE  \/ kept[p] = written[p]
                      \/ truncated /\ kept[p] = MaxOutput /\ written[p] > MaxOutput
    BY DEF SuccessIsComplete
  <2>1. ~open[p]
    BY DEF PInv, CallerPlaced, Success
  <2>2. in_pipe[p] = 0
    BY <2>1 DEF PInv, ClosedAtEnd
  <2>3. kept[p] \in Nat /\ written[p] \in Nat /\ MaxOutput \in Nat
    BY ProcessConstants DEF PInv, TypeOK
  <2>4. CASE kept[p] + in_pipe[p] = written[p]
    BY <2>2, <2>3, <2>4
  <2>5. CASE truncated /\ kept[p] = MaxOutput /\ kept[p] + in_pipe[p] < written[p]
    BY <2>2, <2>3, <2>5
  <2> QED
    BY <2>4, <2>5 DEF PInv, Accounted
<1> QED
  BY <1>1 DEF PInv, Inv

(* The command starts in it.                                               *)
LEMMA InitPInv == Init => PInv
<1> SUFFICES ASSUME Init PROVE PInv
  OBVIOUS
<1>1. TypeOK
  <2>1. PipeSize \in Nat /\ MaxOutput \in Nat /\ MaxWritten \in Nat /\ StdinSize \in Nat
    BY ProcessConstants
  <2>2. kept \in [Pipes -> 0..MaxOutput] /\ in_pipe \in [Pipes -> 0..PipeSize]
        /\ written \in [Pipes -> 0..MaxWritten]
    BY <2>1 DEF Init
  <2>3. stdin_pipe \in 0..PipeSize /\ input_left \in 0..StdinSize
    BY <2>1 DEF Init
  <2> QED
    BY <2>2, <2>3 DEF Init, TypeOK
<1>2. Accounted
  BY DEF Init, Accounted
<1>3. ClosedAtEnd
  BY DEF Init, ClosedAtEnd
<1>4. CallerPlaced /\ ChildReaped
  BY DEF Init, CallerPlaced, ChildReaped
<1> QED
  BY <1>1, <1>2, <1>3, <1>4 DEF PInv

(* read_available keeps the count of every pipe, empties those it reads,   *)
(* and does not close one that somebody may still write to.                *)
LEMMA ReadAvailableCounts ==
  ASSUME PInv, NEW ps \in SUBSET Pipes, ReadAvailable(ps), UNCHANGED <<writers, written>>
  PROVE  /\ kept' \in [Pipes -> 0..MaxOutput] /\ in_pipe' \in [Pipes -> 0..PipeSize]
         /\ open' \in [Pipes -> BOOLEAN] /\ truncated' \in BOOLEAN
         /\ Accounted' /\ ClosedAtEnd'
         /\ \A p \in Pipes : p \in ps => in_pipe'[p] = 0
<1> DEFINE now == {p \in ps : open[p]}
           all == [p \in Pipes |-> IF p \in now THEN kept[p] + in_pipe[p] ELSE kept[p]]
<1>1. /\ kept' = [p \in Pipes |-> IF all[p] > MaxOutput THEN MaxOutput ELSE all[p]]
      /\ truncated' = (truncated \/ \E p \in now : all[p] > MaxOutput)
      /\ in_pipe' = [p \in Pipes |-> IF p \in now THEN 0 ELSE in_pipe[p]]
      /\ open' = [p \in Pipes |-> open[p] /\ (p \in now => writers[p] # {})]
  BY DEF ReadAvailable
<1>2. \A p \in Pipes : /\ kept[p] \in 0..MaxOutput /\ in_pipe[p] \in 0..PipeSize
                       /\ written[p] \in Nat /\ MaxOutput \in Nat /\ PipeSize \in Nat
  BY ProcessConstants DEF PInv, TypeOK
<1>3. \A p \in Pipes : all[p] \in Nat /\ (p \notin now => all[p] = kept[p])
                       /\ (p \in now => all[p] = kept[p] + in_pipe[p])
  BY <1>2
<1>4. now \subseteq Pipes
  OBVIOUS
<1> HIDE DEF all, now
<1>5. kept' \in [Pipes -> 0..MaxOutput]
  BY <1>1, <1>2, <1>3
<1>6. in_pipe' \in [Pipes -> 0..PipeSize]
  BY <1>1, <1>2
<1>7. open' \in [Pipes -> BOOLEAN]
  BY <1>1 DEF PInv, TypeOK
<1>8. truncated' \in BOOLEAN
  BY <1>1 DEF PInv, TypeOK
<1>9. Accounted'
  <2> SUFFICES ASSUME NEW p \in Pipes
               PROVE  \/ kept'[p] + in_pipe'[p] = written[p]
                      \/ /\ truncated' /\ kept'[p] = MaxOutput
                         /\ kept'[p] + in_pipe'[p] < written[p]
    BY DEF Accounted
  <2>1. /\ kept'[p] = IF all[p] > MaxOutput THEN MaxOutput ELSE all[p]
        /\ in_pipe'[p] = IF p \in now THEN 0 ELSE in_pipe[p]
    BY <1>1
  <2>2. \/ kept[p] + in_pipe[p] = written[p]
        \/ truncated /\ kept[p] = MaxOutput /\ kept[p] + in_pipe[p] < written[p]
    BY DEF PInv, Accounted
  <2>3. CASE p \notin now
    <3>1. ~(all[p] > MaxOutput) /\ all[p] = kept[p]
      BY <1>2, <1>3, <2>3
    <3>2. kept'[p] = kept[p] /\ in_pipe'[p] = in_pipe[p]
      BY <2>1, <2>3, <3>1
    <3> QED
      BY <1>1, <2>2, <3>2
  <2>4. CASE p \in now /\ all[p] > MaxOutput
    <3>1. truncated'
      BY <1>1, <2>4
    <3>2. kept'[p] = MaxOutput /\ in_pipe'[p] = 0 /\ all[p] = kept[p] + in_pipe[p]
      BY <1>3, <2>1, <2>4
    <3> QED
      BY <1>2, <2>2, <2>4, <3>1, <3>2
  <2>5. CASE p \in now /\ ~(all[p] > MaxOutput)
    <3>1. kept'[p] = kept[p] + in_pipe[p] /\ in_pipe'[p] = 0
      BY <1>3, <2>1, <2>5
    <3>2. kept[p] + in_pipe[p] <= MaxOutput
      BY <1>2, <1>3, <2>5
    <3>3. CASE kept[p] + in_pipe[p] = written[p]
      BY <1>2, <3>1, <3>3
    <3>4. CASE truncated /\ kept[p] = MaxOutput /\ kept[p] + in_pipe[p] < written[p]
      <4>1. truncated'
        BY <1>1, <3>4
      <4>2. kept'[p] = MaxOutput /\ kept'[p] + in_pipe'[p] < written[p]
        BY <1>2, <3>1, <3>2, <3>4
      <4> QED
        BY <4>1, <4>2
    <3> QED
      BY <2>2, <3>3, <3>4
  <2> QED
    BY <2>3, <2>4, <2>5
<1>10. ClosedAtEnd'
  <2> SUFFICES ASSUME NEW p \in Pipes, ~open'[p]
               PROVE  writers[p] = {} /\ in_pipe'[p] = 0
    BY DEF ClosedAtEnd
  <2>1. CASE ~open[p]
    BY <1>1, <2>1 DEF PInv, ClosedAtEnd
  <2>2. CASE open[p]
    BY <1>1, <2>2
  <2> QED
    BY <2>1, <2>2
<1>11. ASSUME NEW p \in Pipes, p \in ps PROVE in_pipe'[p] = 0
  <2>1. CASE p \in now
    BY <1>1, <2>1
  <2>2. CASE p \notin now
    <3>1. ~open[p]
      BY <1>11, <2>2 DEF now
    <3> QED
      BY <1>1, <2>2, <3>1 DEF PInv, ClosedAtEnd
  <2> QED
    BY <2>1, <2>2
<1> QED
  BY <1>5, <1>6, <1>7, <1>8, <1>9, <1>10, <1>11

(* A step that leaves the pipes alone keeps their count.                   *)
LEMMA PipesKept ==
  ASSUME PInv, UNCHANGED <<kept, in_pipe, written, truncated>>
  PROVE  Accounted'
  BY DEF PInv, Accounted

(* One writer less closes no pipe and opens none.                          *)
LEMMA WriterLeaves ==
  ASSUME PInv, NEW who, writers' = [p \in Pipes |-> writers[p] \ {who}],
         UNCHANGED <<open, in_pipe>>
  PROVE  writers' \in [Pipes -> SUBSET {"child", "descendant"}] /\ ClosedAtEnd'
<1>1. writers' \in [Pipes -> SUBSET {"child", "descendant"}]
  BY DEF PInv, TypeOK
<1>2. ClosedAtEnd'
  BY DEF PInv, ClosedAtEnd
<1> QED
  BY <1>1, <1>2

(* The steps of the caller up to the first round of the loop.              *)
LEMMA StartsPInv ==
  ASSUME PInv, SpawnFails \/ Spawn \/ WriteInput \/ InputWritten
  PROVE  PInv'
<1> USE DEF At, Goto, result, caller, world
<1>1. Accounted'
  BY PipesKept DEF SpawnFails, Spawn, WriteInput, InputWritten
<1>2. TypeOK'
  <2>1. CASE SpawnFails
    BY <2>1 DEF PInv, TypeOK, SpawnFails
  <2>2. CASE Spawn
    BY <2>2 DEF PInv, TypeOK, Spawn
  <2>3. CASE WriteInput
    <3>1. stdin_pipe' \in 0..PipeSize /\ input_left' \in 0..StdinSize
      <4>1. PipeSize \in Nat /\ StdinSize \in Nat
        BY ProcessConstants
      <4> QED
        BY <2>3, <4>1 DEF PInv, TypeOK, WriteInput
    <3> QED
      BY <2>3, <3>1 DEF PInv, TypeOK, WriteInput
  <2>4. CASE InputWritten
    BY <2>4 DEF PInv, TypeOK, InputWritten
  <2> QED
    BY <2>1, <2>2, <2>3, <2>4
<1>3. ClosedAtEnd'
  <2>1. CASE Spawn
    BY <2>1 DEF PInv, ClosedAtEnd, CallerPlaced, Spawn
  <2> QED
    BY <2>1 DEF PInv, ClosedAtEnd, SpawnFails, WriteInput, InputWritten
<1>4. CallerPlaced' /\ ChildReaped'
  BY DEF PInv, CallerPlaced, ChildReaped, SpawnFails, Spawn, WriteInput, InputWritten
<1> QED
  BY <1>1, <1>2, <1>3, <1>4 DEF PInv

(* The steps of the loop that do not read, and the end.                    *)
LEMMA LoopPInv ==
  ASSUME PInv, CheckChild \/ Deadline \/ PollFails \/ Reap
  PROVE  PInv'
<1> USE DEF At, Goto, result, caller, world
<1>1. Accounted'
  BY PipesKept DEF CheckChild, Deadline, PollFails, Reap
<1>2. CASE CheckChild
  <2>1. TypeOK'
    BY <1>2 DEF PInv, TypeOK, CheckChild
  <2>2. ClosedAtEnd'
    BY <1>2 DEF PInv, ClosedAtEnd, CheckChild
  <2>3. CallerPlaced' /\ ChildReaped'
    BY <1>2 DEF PInv, CallerPlaced, ChildReaped, CheckChild
  <2> QED
    BY <1>1, <2>1, <2>2, <2>3 DEF PInv
<1>3. CASE Deadline
  <2>1. writers' \in [Pipes -> SUBSET {"child", "descendant"}] /\ ClosedAtEnd'
    <3>1. CASE writers' = [p \in Pipes |-> writers[p] \ {"child"}]
      BY <1>3, <3>1, WriterLeaves DEF Deadline
    <3>2. CASE writers' = writers
      BY <1>3, <3>2 DEF PInv, TypeOK, ClosedAtEnd, Deadline
    <3> QED
      BY <1>3, <3>1, <3>2 DEF Deadline
  <2>2. TypeOK'
    BY <1>3, <2>1 DEF PInv, TypeOK, Deadline
  <2>3. CallerPlaced' /\ ChildReaped'
    BY <1>3 DEF PInv, CallerPlaced, ChildReaped, Deadline
  <2> QED
    BY <1>1, <2>1, <2>2, <2>3 DEF PInv
<1>4. CASE PollFails \/ Reap
  <2>1. TypeOK'
    BY <1>4 DEF PInv, TypeOK, PollFails, Reap
  <2>2. ClosedAtEnd'
    BY <1>4 DEF PInv, ClosedAtEnd, PollFails, Reap
  <2>3. CallerPlaced' /\ ChildReaped'
    BY <1>4 DEF PInv, CallerPlaced, ChildReaped, PollFails, Reap
  <2> QED
    BY <1>1, <2>1, <2>2, <2>3 DEF PInv
<1> QED
  BY <1>2, <1>3, <1>4

(* The reads, after poll and after the time limit.                         *)
LEMMA ReadsPInv ==
  ASSUME PInv, Drain \/ Poll
  PROVE  PInv'
<1> USE DEF At, Goto, world
<1>1. PICK ps \in SUBSET Pipes : ReadAvailable(ps)
  <2>1. CASE Drain
    BY <2>1 DEF Drain
  <2>2. CASE Poll
    <3>1. PICK ready \in {{p \in Pipes : Ready(p)}, {}} :
            ReadAvailable(IF child_done THEN Pipes ELSE ready)
      BY <2>2 DEF Poll
    <3>2. (IF child_done THEN Pipes ELSE ready) \in SUBSET Pipes
      BY <3>1
    <3> QED
      BY <3>1, <3>2
  <2> QED
    BY <2>1, <2>2
<1>2. UNCHANGED <<writers, written>>
  BY DEF Drain, Poll
<1>3. /\ kept' \in [Pipes -> 0..MaxOutput] /\ in_pipe' \in [Pipes -> 0..PipeSize]
      /\ open' \in [Pipes -> BOOLEAN] /\ truncated' \in BOOLEAN
      /\ Accounted' /\ ClosedAtEnd'
  BY <1>1, <1>2, ReadAvailableCounts
<1>4. TypeOK'
  BY <1>3 DEF PInv, TypeOK, Drain, Poll
<1>5. CallerPlaced' /\ ChildReaped'
  BY DEF PInv, CallerPlaced, ChildReaped, Drain, Poll
<1> QED
  BY <1>3, <1>4, <1>5 DEF PInv

(* The child, its descendant and the clock.                                *)
LEMMA ProcessesPInv ==
  ASSUME PInv, Processes \/ Elapse
  PROVE  PInv'
<1> USE DEF result, caller
<1>1. CASE \E p \in Pipes : Writes(p)
  <2> PICK q \in Pipes : Writes(q)
    BY <1>1
  <2>1. /\ in_pipe' = [in_pipe EXCEPT ![q] = @ + 1] /\ written' = [written EXCEPT ![q] = @ + 1]
        /\ writers[q] # {} /\ in_pipe[q] < PipeSize /\ written[q] < MaxWritten
    BY DEF Writes
  <2>2. /\ \A p \in Pipes : kept[p] \in Nat /\ in_pipe[p] \in Nat /\ written[p] \in Nat
        /\ PipeSize \in Nat /\ MaxWritten \in Nat /\ MaxOutput \in Nat
    BY ProcessConstants DEF PInv, TypeOK
  <2>3. in_pipe' \in [Pipes -> 0..PipeSize] /\ written' \in [Pipes -> 0..MaxWritten]
    BY <2>1, <2>2 DEF PInv, TypeOK
  <2>4. TypeOK'
    BY <2>3 DEF PInv, TypeOK, Writes
  <2>5. Accounted'
    <3> SUFFICES ASSUME NEW p \in Pipes
                 PROVE  \/ kept'[p] + in_pipe'[p] = written'[p]
                        \/ /\ truncated' /\ kept'[p] = MaxOutput
                           /\ kept'[p] + in_pipe'[p] < written'[p]
      BY DEF Accounted
    <3>1. kept'[p] = kept[p] /\ truncated' = truncated
      BY DEF Writes
    <3>2. \/ in_pipe'[p] = in_pipe[p] + 1 /\ written'[p] = written[p] + 1
          \/ in_pipe'[p] = in_pipe[p] /\ written'[p] = written[p]
      BY <2>1 DEF PInv, TypeOK
    <3>3. CASE kept[p] + in_pipe[p] = written[p]
      BY <2>2, <3>1, <3>2, <3>3
    <3>4. CASE truncated /\ kept[p] = MaxOutput /\ kept[p] + in_pipe[p] < written[p]
      BY <2>2, <3>1, <3>2, <3>4
    <3> QED
      BY <3>3, <3>4 DEF PInv, Accounted
  <2>6. ClosedAtEnd'
    BY <2>1 DEF PInv, TypeOK, ClosedAtEnd, Writes
  <2>7. CallerPlaced' /\ ChildReaped'
    BY DEF PInv, CallerPlaced, ChildReaped, Writes
  <2> QED
    BY <2>4, <2>5, <2>6, <2>7 DEF PInv
<1>2. CASE ReadsInput
  <2>1. stdin_pipe' \in 0..PipeSize
    <3>1. PipeSize \in Nat
      BY ProcessConstants
    <3> QED
      BY <1>2, <3>1 DEF PInv, TypeOK, ReadsInput
  <2>2. TypeOK'
    BY <1>2, <2>1 DEF PInv, TypeOK, ReadsInput
  <2>3. Accounted' /\ ClosedAtEnd'
    BY <1>2, PipesKept DEF PInv, ClosedAtEnd, ReadsInput
  <2>4. CallerPlaced' /\ ChildReaped'
    BY <1>2 DEF PInv, CallerPlaced, ChildReaped, ReadsInput
  <2> QED
    BY <2>2, <2>3, <2>4 DEF PInv
<1>3. CASE ClosesPipes \/ DescendantEnds \/ ChildExits
  <2>1. PICK who \in {"child", "descendant"} :
          writers' = [p \in Pipes |-> writers[p] \ {who}]
    BY <1>3 DEF ClosesPipes, DescendantEnds, ChildExits
  <2>2. writers' \in [Pipes -> SUBSET {"child", "descendant"}] /\ ClosedAtEnd'
    BY <1>3, <2>1, WriterLeaves DEF ClosesPipes, DescendantEnds, ChildExits
  <2>3. TypeOK'
    BY <1>3, <2>2 DEF PInv, TypeOK, ClosesPipes, DescendantEnds, ChildExits
  <2>4. Accounted'
    BY <1>3, PipesKept DEF ClosesPipes, DescendantEnds, ChildExits
  <2>5. CallerPlaced' /\ ChildReaped'
    <3>1. pc = "spawn" => \A p \in Pipes : writers'[p] = {}
      BY <2>1 DEF PInv, CallerPlaced
    <3> QED
      BY <1>3, <3>1 DEF PInv, CallerPlaced, ChildReaped, ClosesPipes, DescendantEnds, ChildExits
  <2> QED
    BY <2>2, <2>3, <2>4, <2>5 DEF PInv
<1>4. CASE Forks
  <2>1. writers' = [p \in Pipes |-> IF "child" \in writers[p]
                                    THEN writers[p] \cup {"descendant"} ELSE writers[p]]
    BY <1>4 DEF Forks
  <2>2. writers' \in [Pipes -> SUBSET {"child", "descendant"}]
    BY <2>1 DEF PInv, TypeOK
  <2>3. \A p \in Pipes : writers[p] = {} => writers'[p] = {}
    BY <2>1
  <2>4. TypeOK'
    BY <1>4, <2>2 DEF PInv, TypeOK, Forks
  <2>5. Accounted' /\ ClosedAtEnd'
    BY <1>4, <2>3, PipesKept DEF PInv, ClosedAtEnd, Forks
  <2>6. CallerPlaced' /\ ChildReaped'
    BY <1>4, <2>3 DEF PInv, CallerPlaced, ChildReaped, Forks
  <2> QED
    BY <2>4, <2>5, <2>6 DEF PInv
<1>5. CASE Elapse
  <2>1. TypeOK'
    BY <1>5 DEF PInv, TypeOK, Elapse
  <2>2. Accounted' /\ ClosedAtEnd'
    BY <1>5, PipesKept DEF PInv, ClosedAtEnd, Elapse
  <2>3. CallerPlaced' /\ ChildReaped'
    BY <1>5 DEF PInv, CallerPlaced, ChildReaped, Elapse
  <2> QED
    BY <2>1, <2>2, <2>3 DEF PInv
<1> QED
  BY <1>1, <1>2, <1>3, <1>4, <1>5 DEF Processes

(* Every step keeps it.                                                    *)
LEMMA NextPInv == PInv /\ [Next]_vars => PInv'
<1> SUFFICES ASSUME PInv, [Next]_vars PROVE PInv'
  OBVIOUS
<1>1. CASE Next
  BY <1>1, StartsPInv, LoopPInv, ReadsPInv, ProcessesPInv DEF Next, Caller
<1>2. CASE UNCHANGED vars
  <2> USE <1>2 DEF vars, result, caller, world
  <2>1. TypeOK'
    BY DEF PInv, TypeOK
  <2>2. Accounted' /\ ClosedAtEnd'
    BY DEF PInv, Accounted, ClosedAtEnd
  <2>3. CallerPlaced' /\ ChildReaped'
    BY DEF PInv, CallerPlaced, ChildReaped
  <2> QED
    BY <2>1, <2>2, <2>3 DEF PInv
<1> QED
  BY <1>1, <1>2

(* The read after the time limit takes all that was written before it, or  *)
(* says that the output is cut.                                            *)
LEMMA DrainTakesAll ==
  PInv /\ [Next]_vars
    => [ (pc = "drain" /\ pc' # "drain")
           => truncated' \/ \A p \in Pipes : kept'[p] = written'[p] ]_vars
<1> SUFFICES ASSUME PInv, Next, pc = "drain", pc' # "drain"
             PROVE  truncated' \/ \A p \in Pipes : kept'[p] = written'[p]
  OBVIOUS
<1>1. Drain
  BY DEF Next, Caller, Processes, SpawnFails, Spawn, WriteInput, InputWritten, CheckChild,
         Deadline, Poll, PollFails, Reap, Writes, ReadsInput, ClosesPipes, Forks,
         DescendantEnds, ChildExits, Elapse, At
<1>2. UNCHANGED <<writers, written>> /\ ReadAvailable(Pipes)
  BY <1>1 DEF Drain, world
<1>3. Accounted' /\ (\A p \in Pipes : in_pipe'[p] = 0) /\ kept' \in [Pipes -> 0..MaxOutput]
  BY <1>2, ReadAvailableCounts
<1>4. MaxOutput \in Nat
  BY ProcessConstants
<1> QED
  BY <1>3, <1>4 DEF Accounted

(* A step of the jobs is one of the command or leaves it alone.            *)
LEMMA JobsRunCommand == [JobNext]_jobVars => [Next]_vars
  BY DEF JobNext, jobVars, RunCommand, TestPerformance, TestAudio, MakeSounds, ReadJack,
         TestCamera, BakePi, TestDisplay, WriteLogs, KeepConfig

(* run_spawned_command, for every size of its pipes and every limit: the   *)
(* state is of its types, a result that reports success is complete or     *)
(* says where it was cut, and no child is left unreaped.                   *)
THEOREM CommandThm == JobSpec => []Inv
<1>1. JobInit => PInv
  BY InitPInv DEF JobInit
<1>2. PInv /\ [JobNext]_jobVars => PInv'
  BY NextPInv, JobsRunCommand
<1>3. PInv => Inv
  BY PInvGivesInv
<1> QED
  BY <1>1, <1>2, <1>3, PTL DEF JobSpec

(* run_spawned_command: at the time limit the output from before it is     *)
(* kept, or cut at the limit of the result.                                *)
THEOREM TimeoutThm == JobSpec => TimeoutKeepsOutput
<1>1. JobInit => PInv
  BY InitPInv DEF JobInit
<1>2. PInv /\ [JobNext]_jobVars => PInv'
  BY NextPInv, JobsRunCommand
<1>3. PInv /\ [JobNext]_jobVars
        => [ (pc = "drain" /\ pc' # "drain")
               => truncated' \/ \A p \in Pipes : kept'[p] = written'[p] ]_vars
  BY DrainTakesAll, JobsRunCommand
<1> QED
  BY <1>1, <1>2, <1>3, PTL DEF JobSpec, TimeoutKeepsOutput

-----------------------------------------------------------------------------
(* ConfigStore: the configuration.                                         *)

(* What a file has, as it is read; its texts are those that were found or  *)
(* that the program writes.                                                *)
TextsFound == UNION {{f.kind, f.language, f.sounds, f.baud} : f \in FoundFiles}
Texts      == TextsFound \cup {"fields", "en", "zh_CN", "on", "off", "9600", "115200"}
Fields     == [kind : Texts, language : Texts, sounds : Texts, baud : Texts,
               segment : Nat, directory : Nat]

(* A configuration that needs no repair.                                   *)
IsValid(c) ==
  /\ c \in Fields /\ c.kind = "fields"
  /\ c.language # "bad" /\ c.sounds # "bad" /\ c.baud # "bad"
  /\ c.segment # 0 /\ c.directory # 0 /\ c.segment <= c.directory

(* Files that the program may read, and the one that it reads next.        *)
ConfTypeOK ==
  /\ conf_at \in {"down", "loaded", "up"}
  /\ durable \subseteq Fields /\ conf_file \in durable

(* A configuration in use is valid, and is the file's if it was saved.     *)
ConfInUse ==
  /\ conf_at # "down" => IsValid(config)
  /\ conf_at # "down" /\ conf_saved => conf_file = config
  /\ conf_at = "up" => audible = config.sounds

(* A file that is not understood is only replaced by a change of a         *)
(* setting; until then the program runs with the defaults, which no part   *)
(* of the start has a reason to save.                                      *)
ConfLeftAlone ==
  /\ Config!Malformed \in durable => found = Config!Malformed
  /\ found.kind \in {"malformed", "other schema"} /\ ~touched =>
       durable = {found} /\ conf_file = found
       /\ (conf_at # "down" => config = Config!Defaults)

(* The inductive invariant of ConfigStore.                                 *)
CInv == ConfTypeOK /\ ConfInUse /\ ConfLeftAlone

(* The defaults are valid.                                                 *)
LEMMA DefaultsValid ==
  /\ {"fields", "en", "zh_CN", "on", "off", "9600", "115200"} \subseteq Texts
  /\ IsValid(Config!Defaults) /\ Config!Defaults.language = "en"
  /\ Config!Malformed.kind = "malformed"
<1>0. {"fields", "en", "zh_CN", "on", "off", "9600", "115200"} \subseteq Texts
  BY DEF Texts
<1>1. IsValid(Config!Defaults) /\ Config!Defaults.language = "en"
  BY <1>0 DEF IsValid, Fields, Config!Defaults
<1>2. Config!Malformed.kind = "malformed"
  BY DEF Config!Defaults, Config!Malformed
<1> QED
  BY <1>0, <1>1, <1>2

(* One field of a valid configuration changes.                             *)
LEMMA ChangedValid ==
  ASSUME NEW c, IsValid(c), NEW text \in Texts, text # "bad"
  PROVE  /\ IsValid([c EXCEPT !.language = text])
         /\ [c EXCEPT !.language = text].sounds = c.sounds
         /\ IsValid([c EXCEPT !.baud = text])
         /\ [c EXCEPT !.baud = text].sounds = c.sounds
         /\ IsValid([c EXCEPT !.sounds = text])
         /\ [c EXCEPT !.sounds = text].sounds = text
<1>1. c \in Fields
  BY DEF IsValid
<1>2. /\ [c EXCEPT !.language = text] \in Fields
      /\ [c EXCEPT !.baud = text] \in Fields
      /\ [c EXCEPT !.sounds = text] \in Fields
  BY <1>1 DEF Fields
<1>3. IsValid([c EXCEPT !.language = text]) /\ [c EXCEPT !.language = text].sounds = c.sounds
  BY <1>1, <1>2 DEF IsValid, Fields
<1>4. IsValid([c EXCEPT !.baud = text]) /\ [c EXCEPT !.baud = text].sounds = c.sounds
  BY <1>1, <1>2 DEF IsValid, Fields
<1>5. IsValid([c EXCEPT !.sounds = text]) /\ [c EXCEPT !.sounds = text].sounds = text
  BY <1>1, <1>2 DEF IsValid, Fields
<1> QED
  BY <1>3, <1>4, <1>5

(* load: every field that is invalid is replaced, and the two sizes are if *)
(* they do not go together.                                                *)
LEMMA RepairedValid ==
  ASSUME NEW f \in Fields, f.kind = "fields"
  PROVE  IsValid(Config!Repaired(f))
<1> DEFINE Valid(name) == IF f[name] = Config!Bad[name] THEN Config!Defaults[name] ELSE f[name]
           valid == [name \in DOMAIN Config!Defaults |-> Valid(name)]
<1>1. valid = [kind |-> Valid("kind"), language |-> Valid("language"),
               sounds |-> Valid("sounds"), baud |-> Valid("baud"),
               segment |-> Valid("segment"), directory |-> Valid("directory")]
  BY DEF Config!Defaults
<1>2. /\ Valid("kind") = "fields"
      /\ Valid("language") \in Texts /\ Valid("language") # "bad"
      /\ Valid("sounds") \in Texts /\ Valid("sounds") # "bad"
      /\ Valid("baud") \in Texts /\ Valid("baud") # "bad"
      /\ Valid("segment") \in Nat /\ Valid("segment") # 0
      /\ Valid("directory") \in Nat /\ Valid("directory") # 0
  <2>1. Config!Bad = [kind |-> "bad", language |-> "bad", sounds |-> "bad", baud |-> "bad",
                      segment |-> 0, directory |-> 0]
    <3>1. Config!Bad = [[[[[[Config!Defaults
            EXCEPT !.kind = "bad"] EXCEPT !.language = "bad"] EXCEPT !.sounds = "bad"]
            EXCEPT !.baud = "bad"] EXCEPT !.segment = 0] EXCEPT !.directory = 0]
      BY DEF Config!Bad
    <3> QED
      BY <3>1 DEF Config!Defaults
  <2>2. Valid("kind") = "fields"
    BY <2>1 DEF Config!Defaults
  <2>3. Valid("language") \in Texts /\ Valid("language") # "bad"
    BY <2>1, DefaultsValid DEF Config!Defaults, Fields
  <2>4. Valid("sounds") \in Texts /\ Valid("sounds") # "bad"
    BY <2>1, DefaultsValid DEF Config!Defaults, Fields
  <2>5. Valid("baud") \in Texts /\ Valid("baud") # "bad"
    BY <2>1, DefaultsValid DEF Config!Defaults, Fields
  <2>6. Valid("segment") \in Nat /\ Valid("segment") # 0
    BY <2>1, DefaultsValid DEF Config!Defaults, Fields
  <2>7. Valid("directory") \in Nat /\ Valid("directory") # 0
    BY <2>1, DefaultsValid DEF Config!Defaults, Fields
  <2> QED
    BY <2>2, <2>3, <2>4, <2>5, <2>6, <2>7
<1> HIDE DEF Valid
<1>3. Config!Repaired(f) = IF valid.directory < valid.segment
        THEN [valid EXCEPT !.segment = Config!Defaults.segment,
                           !.directory = Config!Defaults.directory]
        ELSE valid
  BY DEF Config!Repaired, Valid
<1>4. valid \in Fields /\ valid.kind = "fields" /\ valid.language # "bad"
      /\ valid.sounds # "bad" /\ valid.baud # "bad" /\ valid.segment # 0 /\ valid.directory # 0
  BY <1>1, <1>2 DEF Fields
<1> HIDE DEF valid
<1>5. CASE valid.directory < valid.segment
  <2>1. Config!Defaults.segment = 2 /\ Config!Defaults.directory = 4
    BY DEF Config!Defaults
  <2>2. Config!Repaired(f) = [valid EXCEPT !.segment = 2, !.directory = 4]
    BY <1>3, <1>5, <2>1
  <2>3. [valid EXCEPT !.segment = 2, !.directory = 4] \in Fields
    BY <1>4 DEF Fields
  <2> QED
    BY <1>4, <2>2, <2>3 DEF IsValid, Fields
<1>6. CASE ~(valid.directory < valid.segment)
  BY <1>3, <1>4, <1>6 DEF IsValid, Fields
<1> QED
  BY <1>5, <1>6

(* A valid configuration is read back as it is.                            *)
LEMMA ValidKept ==
  ASSUME NEW c, IsValid(c)
  PROVE  Config!Repaired(c) = c
<1> DEFINE Valid(name) == IF c[name] = Config!Bad[name] THEN Config!Defaults[name] ELSE c[name]
           valid == [name \in DOMAIN Config!Defaults |-> Valid(name)]
<1>1. \A name \in DOMAIN Config!Defaults : Valid(name) = c[name]
  BY DEF IsValid, Fields, Config!Defaults, Config!Bad
<1>2. DOMAIN c = DOMAIN Config!Defaults /\ c = [name \in DOMAIN c |-> c[name]]
  BY DEF IsValid, Fields, Config!Defaults
<1>3. valid = c
  BY <1>1, <1>2
<1>4. ~(c.directory < c.segment)
  BY DEF IsValid, Fields
<1>5. Config!Repaired(c) = IF valid.directory < valid.segment
        THEN [valid EXCEPT !.segment = Config!Defaults.segment,
                           !.directory = Config!Defaults.directory]
        ELSE valid
  BY DEF Config!Repaired
<1> QED
  BY <1>3, <1>4, <1>5

(* Whatever end a save has, the file is one that may last; it is the new   *)
(* one if the save says so.                                                *)
LEMMA SaveKeeps ==
  ASSUME ConfTypeOK, NEW new, IsValid(new), NEW save \in Config!Writes(new),
         Config!Save(new, save)
  PROVE  /\ durable' \subseteq Fields /\ conf_file' \in durable'
         /\ conf_saved' => conf_file' = new
         /\ Config!Malformed \in durable' => Config!Malformed \in durable
         /\ conf_saved' = save.ok
<1>1. new \in Fields /\ new # Config!Malformed
  BY DefaultsValid DEF IsValid
<1>2. conf_file' = save.file /\ durable' = save.durable /\ conf_saved' = save.ok
  BY DEF Config!Save
<1>3. \/ save = [ok |-> FALSE, file |-> conf_file, durable |-> durable]
      \/ save = [ok |-> FALSE, file |-> new, durable |-> durable \cup {new}]
      \/ save = [ok |-> TRUE, file |-> new, durable |-> {new}]
  BY DEF Config!Writes
<1> QED
  BY <1>1, <1>2, <1>3 DEF ConfTypeOK

(* What CInv keeps is all that ConfigSound promises.                       *)
LEMMA CInvGivesSound == ASSUME CInv PROVE Config!ConfigSound
<1>1. conf_at # "down" => config = Config!Repaired(config)
  BY ValidKept DEF CInv, ConfInUse
<1> QED
  BY <1>1 DEF CInv, ConfTypeOK, ConfInUse, ConfLeftAlone, Config!ConfigSound

(* What is found at first is what an earlier start left, or somebody else. *)
LEMMA InitCInv == ASSUME Config!ConfInit PROVE CInv
<1>1. conf_file \in Fields
  <2>1. conf_file \in FoundFiles
    BY DEF Config!ConfInit
  <2>2. {conf_file.kind, conf_file.language, conf_file.sounds, conf_file.baud} \subseteq Texts
    BY <2>1 DEF Texts, TextsFound
  <2> QED
    BY <2>1, <2>2, JobFiles DEF Fields
<1> QED
  BY <1>1 DEF Config!ConfInit, CInv, ConfTypeOK, ConfInUse, ConfLeftAlone

(* The start: the file is read, and repaired or written if need be.        *)
LEMMA LoadCInv == ASSUME CInv, Config!Load PROVE CInv'
<1>1. conf_at = "down" /\ conf_at' = "loaded" /\ UNCHANGED <<audible, found, touched>>
  BY DEF Config!Load
<1>2. conf_file \in Fields
  BY DEF CInv, ConfTypeOK
<1>3. CASE Config!Unsaved /\ config' = Config!Defaults /\ conf_saved' = FALSE
  BY <1>1, <1>3, DefaultsValid
     DEF CInv, ConfTypeOK, ConfInUse, ConfLeftAlone, Config!Unsaved
<1>4. CASE Config!Unsaved /\ config' = conf_file /\ IsValid(config') /\ conf_file.kind = "fields"
  <2>1. ConfTypeOK' /\ ConfInUse'
    BY <1>1, <1>4 DEF CInv, ConfTypeOK, ConfInUse, Config!Unsaved
  <2>2. ConfLeftAlone'
    BY <1>1, <1>4 DEF CInv, ConfLeftAlone, Config!Unsaved
  <2> QED
    BY <2>1, <2>2 DEF CInv
<1>5. CASE /\ IsValid(config') /\ conf_file.kind \in {"none", "fields"}
           /\ \E save \in Config!Writes(config') : Config!Save(config', save)
  <2> PICK save \in Config!Writes(config') : Config!Save(config', save)
    BY <1>5
  <2>1. /\ durable' \subseteq Fields /\ conf_file' \in durable'
        /\ conf_saved' => conf_file' = config'
        /\ Config!Malformed \in durable' => Config!Malformed \in durable
    BY <1>5, SaveKeeps DEF CInv
  <2>2. ConfTypeOK' /\ ConfInUse'
    BY <1>1, <1>5, <2>1 DEF ConfTypeOK, ConfInUse
  <2>3. ~(found.kind \in {"malformed", "other schema"} /\ ~touched)
    BY <1>5 DEF CInv, ConfLeftAlone
  <2>4. ConfLeftAlone'
    BY <1>1, <2>1, <2>3 DEF CInv, ConfLeftAlone
  <2> QED
    BY <2>2, <2>4 DEF CInv
<1>6. CASE conf_file.kind = "fields" /\ config' = Config!Repaired(conf_file)
  <2>1. IsValid(config')
    BY <1>2, <1>6, RepairedValid
  <2>2. CASE config' = conf_file /\ Config!Unsaved
    BY <1>4, <1>6, <2>1, <2>2
  <2>3. CASE \E save \in Config!Writes(config') : Config!Save(config', save)
    BY <1>5, <1>6, <2>1, <2>3
  <2> HIDE DEF CInv
  <2>4. \/ config' = conf_file /\ Config!Unsaved
        \/ \E save \in Config!Writes(config') : Config!Save(config', save)
        \/ Config!Unsaved /\ config' = Config!Defaults /\ conf_saved' = FALSE
    BY <1>6, DefaultsValid DEF Config!Load
  <2> QED
    BY <1>3, <2>2, <2>3, <2>4
<1> QED
  BY <1>3, <1>5, <1>6, DefaultsValid DEF Config!Load

(* The settings that the program changes by itself, or the operator.       *)
LEMMA SettingsCInv ==
  ASSUME CInv, Config!BuildViewModel \/ Config!SetSounds \/ Config!SetOther
  PROVE  CInv'
<1>1. CASE Config!BuildViewModel
  <2>1. /\ conf_at = "loaded" /\ conf_at' = "up" /\ audible' = config'.sounds
        /\ UNCHANGED <<found, touched>>
    BY <1>1 DEF Config!BuildViewModel, CInv, ConfInUse, IsValid, Fields
  <2>2. CASE UNCHANGED <<config, conf_saved>> /\ Config!Unsaved
    BY <2>1, <2>2 DEF CInv, ConfTypeOK, ConfInUse, ConfLeftAlone, Config!Unsaved
  <2>3. CASE /\ config.language # "en" /\ config' = [config EXCEPT !.language = "en"]
             /\ \E save \in Config!Writes(config') : Config!Save(config', save)
    <3> PICK save \in Config!Writes(config') : Config!Save(config', save)
      BY <2>3
    <3>1. IsValid(config')
      BY <2>1, <2>3, ChangedValid, DefaultsValid DEF CInv, ConfInUse
    <3>2. /\ durable' \subseteq Fields /\ conf_file' \in durable'
          /\ conf_saved' => conf_file' = config'
          /\ Config!Malformed \in durable' => Config!Malformed \in durable
      BY <3>1, SaveKeeps DEF CInv
    <3>3. ConfTypeOK' /\ ConfInUse'
      BY <2>1, <3>1, <3>2 DEF ConfTypeOK, ConfInUse
    <3>4. config # Config!Defaults
      BY <2>3, DefaultsValid
    <3>5. ConfLeftAlone'
      BY <2>1, <3>2, <3>4 DEF CInv, ConfLeftAlone
    <3> QED
      BY <3>3, <3>5 DEF CInv
  <2> QED
    BY <1>1, <2>2, <2>3 DEF Config!BuildViewModel
<1>2. CASE Config!SetSounds
  <2> PICK wish \in {"on", "off"} \ {config.sounds} :
        \E save \in Config!Writes([config EXCEPT !.sounds = wish]) :
          /\ Config!Save([config EXCEPT !.sounds = wish], save)
          /\ config' = IF save.ok THEN [config EXCEPT !.sounds = wish] ELSE config
          /\ audible' = IF save.ok THEN wish ELSE audible
    BY <1>2 DEF Config!SetSounds
  <2> DEFINE new == [config EXCEPT !.sounds = wish]
  <2> PICK save \in Config!Writes(new) :
          /\ Config!Save(new, save)
          /\ config' = IF save.ok THEN new ELSE config
          /\ audible' = IF save.ok THEN wish ELSE audible
    OBVIOUS
  <2>1. conf_at = "up" /\ touched' = TRUE /\ UNCHANGED <<conf_at, found>>
    BY <1>2 DEF Config!SetSounds
  <2>2. IsValid(new) /\ new.sounds = wish /\ IsValid(config) /\ audible = config.sounds
    <3>1. wish \in Texts /\ wish # "bad" /\ IsValid(config) /\ audible = config.sounds
      BY <2>1, DefaultsValid DEF CInv, ConfInUse
    <3> QED
      BY <3>1, ChangedValid
  <2> HIDE DEF new
  <2>3. /\ durable' \subseteq Fields /\ conf_file' \in durable'
        /\ conf_saved' => conf_file' = new
        /\ Config!Malformed \in durable' => Config!Malformed \in durable
        /\ conf_saved' = save.ok
    BY <2>2, SaveKeeps DEF CInv
  <2>4. ConfTypeOK' /\ ConfInUse'
    BY <2>1, <2>2, <2>3 DEF ConfTypeOK, ConfInUse
  <2>5. ConfLeftAlone'
    BY <2>1, <2>3 DEF CInv, ConfLeftAlone
  <2> QED
    BY <2>4, <2>5 DEF CInv
<1>3. CASE Config!SetOther
  <2> PICK new \in {[config EXCEPT !.language = "zh_CN"], [config EXCEPT !.baud = "115200"]} :
        config' = new /\ \E save \in Config!Writes(new) : Config!Save(new, save)
    BY <1>3 DEF Config!SetOther
  <2> PICK save \in Config!Writes(new) : Config!Save(new, save)
    OBVIOUS
  <2>1. conf_at = "up" /\ touched' = TRUE /\ UNCHANGED <<conf_at, audible, found>>
    BY <1>3 DEF Config!SetOther
  <2>2. IsValid(new) /\ new.sounds = config.sounds /\ audible = config.sounds
    <3>1. IsValid(config) /\ audible = config.sounds /\ {"zh_CN", "115200"} \subseteq Texts
      BY <2>1, DefaultsValid DEF CInv, ConfInUse
    <3>2. CASE new = [config EXCEPT !.language = "zh_CN"]
      BY <3>1, <3>2, ChangedValid
    <3>3. CASE new = [config EXCEPT !.baud = "115200"]
      BY <3>1, <3>3, ChangedValid
    <3> QED
      BY <3>2, <3>3
  <2>3. /\ durable' \subseteq Fields /\ conf_file' \in durable'
        /\ conf_saved' => conf_file' = new
        /\ Config!Malformed \in durable' => Config!Malformed \in durable
    BY <2>2, SaveKeeps DEF CInv
  <2>4. ConfTypeOK' /\ ConfInUse'
    BY <2>1, <2>2, <2>3 DEF ConfTypeOK, ConfInUse
  <2>5. ConfLeftAlone'
    BY <2>1, <2>3 DEF CInv, ConfLeftAlone
  <2> QED
    BY <2>4, <2>5 DEF CInv
<1> QED
  BY <1>1, <1>2, <1>3

(* The end of the program, and a power cut: what is read next may last.    *)
LEMMA EndsCInv == ASSUME CInv, Config!Ends PROVE CInv'
  BY DEF CInv, ConfTypeOK, ConfInUse, ConfLeftAlone, Config!Ends, Config!Unsaved

(* Every step keeps it.                                                    *)
LEMMA NextCInv == CInv /\ [JobNext]_jobVars => CInv'
<1> SUFFICES ASSUME CInv, [JobNext]_jobVars PROVE CInv'
  OBVIOUS
<1>1. CASE Config!ConfNext
  BY <1>1, LoadCInv, SettingsCInv, EndsCInv DEF Config!ConfNext
<1>2. CASE UNCHANGED conf
  BY <1>2 DEF conf, CInv, ConfTypeOK, ConfInUse, ConfLeftAlone
<1> QED
  BY <1>1, <1>2 DEF JobNext, jobVars, RunCommand, TestPerformance, TestAudio, MakeSounds,
     ReadJack, TestCamera, BakePi, TestDisplay, WriteLogs, KeepConfig

(* AppConfigStore and the settings of AppViewModel, whatever fails in a    *)
(* save and wherever the power is cut: what the program works with is      *)
(* valid, what was saved is read again as it is, no cut makes a file       *)
(* unreadable, and one that is not understood is left alone.               *)
THEOREM ConfigThm == JobSpec => []Config!ConfigSound
<1>1. JobInit => CInv
  BY InitCInv DEF JobInit
<1>2. CInv => Config!ConfigSound
  BY CInvGivesSound
<1> QED
  BY <1>1, <1>2, NextCInv, PTL DEF JobSpec

-----------------------------------------------------------------------------
(* LogFiles: sizes and names.                                              *)

LogRuns == [name : Names \cup {"none"}, collision : Nat]

(* What the sum of the sizes is after each file.                           *)
Sums(dir, base) ==
  LET sum[i \in 0 .. Len(dir)] == IF i = 0 THEN base ELSE sum[i - 1] + dir[i].size
  IN sum

(* Total is that sum after the last file.                                  *)
LEMMA TotalIsSum == ASSUME NEW dir PROVE Logs!Total(dir) = Sums(dir, foreign)[Len(dir)]
BY DEF Logs!Total, Sums

(* It is a number, and grows by the size of each file.                     *)
LEMMA SumSteps ==
  ASSUME NEW dir \in Seq(Logs!Files), NEW base \in Nat, MaxSegment \in Nat
  PROVE  /\ Sums(dir, base) \in [0 .. Len(dir) -> Nat] /\ Sums(dir, base)[0] = base
         /\ \A i \in 1 .. Len(dir) : Sums(dir, base)[i] = Sums(dir, base)[i - 1] + dir[i].size
<1> DEFINE n == Len(dir)
           step == [p \in (1 .. n) \X Nat |-> p[2] + dir[p[1]].size]
           Is(g) == g = [i \in 0 .. n |-> IF i = 0 THEN base ELSE g[i - 1] + dir[i].size]
<1>1. n \in Nat /\ \A i \in 1 .. n : dir[i].size \in Nat
  <2>1. \A i \in 1 .. n : dir[i] \in Logs!Files
    OBVIOUS
  <2>2. \A f \in Logs!Files : f.size \in Nat
    BY DEF Logs!Files
  <2> QED BY <2>1, <2>2
<1>2. \A i \in 1 .. n, b \in Nat : step[<<i, b>>] = b + dir[i].size
  OBVIOUS
<1> HIDE DEF step, n
<1>3. IsStep(step, n, Nat)
  <2>1. \A i \in 1 .. n, b \in Nat : b + dir[i].size \in Nat
    BY <1>1
  <2>2. \A i \in 1 .. n, b \in Nat : step[<<i, b>>] \in Nat
    BY <1>2, <2>1
  <2> QED BY <2>2 DEF IsStep
<1>4. PICK f \in [0 .. n -> Nat] : IsRecursive(f, base, step, n)
  BY <1>1, <1>3, Recursion
<1>5. f[0] = base /\ \A i \in 1 .. n : f[i] = f[i - 1] + dir[i].size
  <2>1. f[0] = base /\ \A i \in 1 .. n : f[i] = step[<<i, f[i - 1]>>]
    BY <1>4 DEF IsRecursive
  <2>2. \A i \in 1 .. n : i - 1 \in 0 .. n
    BY <1>1
  <2>3. \A i \in 1 .. n : f[i - 1] \in Nat
    BY <1>4, <2>2
  <2> QED BY <1>2, <2>1, <2>3
<1>6. Is(f)
  <2>1. f = [i \in 0 .. n |-> f[i]]
    BY <1>4
  <2>2. \A i \in 0 .. n : i # 0 => i \in 1 .. n
    BY <1>1
  <2> QED BY <1>5, <2>1, <2>2
<1>7. Sums(dir, base) = CHOOSE g : Is(g)
  BY DEF Sums, n
<1> DEFINE g == Sums(dir, base)
<1> HIDE DEF g
<1>8. Is(g)
  BY <1>6, <1>7 DEF g
<1>9. g[0] = base /\ \A i \in 1 .. n : g[i] = g[i - 1] + dir[i].size
  <2>1. g[0] = base
    BY <1>1, <1>8
  <2>2. ASSUME NEW i \in 1 .. n PROVE g[i] = g[i - 1] + dir[i].size
    <3>1. i \in 0 .. n /\ i # 0
      BY <1>1
    <3> QED BY <1>8, <3>1
  <2> QED BY <2>1, <2>2
<1>10. \A i \in 0 .. n : g[i] \in Nat
  <2> DEFINE T == {i \in 0 .. n : g[i] \in Nat}
  <2>1. 0 \in T
    BY <1>1, <1>9
  <2>2. ASSUME NEW i \in 0 .. n - 1, i \in T PROVE i + 1 \in T
    <3>1. i + 1 \in 1 .. n /\ (i + 1) - 1 = i /\ i + 1 \in 0 .. n
      BY <1>1
    <3>2. g[i + 1] = g[i] + dir[i + 1].size
      BY <1>9, <3>1
    <3> QED BY <1>1, <2>2, <3>1, <3>2
  <2> HIDE DEF T
  <2>3. \A i \in 0 .. n : i \in T
    BY <1>1, <2>1, <2>2, Upwards
  <2> QED BY <2>3 DEF T
<1>11. g = [i \in 0 .. n |-> g[i]]
  BY <1>8
<1> QED BY <1>9, <1>10, <1>11 DEF g, n

(* The sum of the first n files is told by their sizes.                    *)
SameSizes(d, e, n) ==
  n <= Len(d) /\ n <= Len(e) /\ \A i \in 1 .. n : d[i].size = e[i].size

(* Files of the same sizes have the same sum.                              *)
LEMMA SumAgree ==
  ASSUME NEW d \in Seq(Logs!Files), NEW e \in Seq(Logs!Files), NEW base \in Nat,
         MaxSegment \in Nat, NEW n \in Nat, SameSizes(d, e, n)
  PROVE  Sums(d, base)[n] = Sums(e, base)[n]
<1> DEFINE G == {i \in 0 .. n : Sums(d, base)[i] = Sums(e, base)[i]}
<1>1. /\ n <= Len(d) /\ n <= Len(e) /\ Len(d) \in Nat /\ Len(e) \in Nat
      /\ \A i \in 1 .. n : d[i].size = e[i].size
  BY DEF SameSizes
<1>2. /\ Sums(d, base)[0] = base /\ Sums(e, base)[0] = base
      /\ \A i \in 1 .. Len(d) : Sums(d, base)[i] = Sums(d, base)[i - 1] + d[i].size
      /\ \A i \in 1 .. Len(e) : Sums(e, base)[i] = Sums(e, base)[i - 1] + e[i].size
  BY SumSteps
<1>3. 0 \in G
  BY <1>2
<1>4. ASSUME NEW i \in 0 .. n - 1, i \in G PROVE i + 1 \in G
  <2>1. i + 1 \in 1 .. n /\ (i + 1) - 1 = i /\ i + 1 \in 0 .. n
        /\ i + 1 \in 1 .. Len(d) /\ i + 1 \in 1 .. Len(e)
    BY <1>1
  <2>2. Sums(d, base)[i] = Sums(e, base)[i]
    BY <1>4
  <2> QED BY <1>1, <1>2, <2>1, <2>2
<1> HIDE DEF G
<1>5. \A i \in 0 .. n : i \in G
  BY <1>3, <1>4, Upwards
<1>6. n \in G
  BY <1>5
<1> QED BY <1>6 DEF G

(* What is in the directory without its last file.                         *)
BeforeLast(d) == Sums(d, foreign)[Len(d) - 1]

(* The last file is added to what is there without it.                     *)
LEMMA TotalOfLast ==
  ASSUME NEW d \in Seq(Logs!Files), foreign \in Nat, MaxSegment \in Nat, d # <<>>
  PROVE  Logs!Total(d) = BeforeLast(d) + d[Len(d)].size /\ BeforeLast(d) \in Nat
<1>1. Len(d) \in 1 .. Len(d) /\ Len(d) - 1 \in 0 .. Len(d)
  OBVIOUS
<1> QED BY <1>1, SumSteps, TotalIsSum DEF BeforeLast

(* Without a file that is added, the directory is what it was.             *)
LEMMA BeforeAppended ==
  ASSUME NEW d \in Seq(Logs!Files), foreign \in Nat, MaxSegment \in Nat, NEW f \in Logs!Files
  PROVE  BeforeLast(Append(d, f)) = Logs!Total(d)
<1> DEFINE e == Append(d, f)
<1>1. e \in Seq(Logs!Files) /\ Len(e) = Len(d) + 1 /\ Len(d) \in Nat
      /\ \A i \in 1 .. Len(d) : e[i] = d[i]
  OBVIOUS
<1> HIDE DEF e
<1>2. SameSizes(d, e, Len(d)) /\ Len(e) - 1 = Len(d)
  BY <1>1 DEF SameSizes
<1>3. Sums(d, foreign)[Len(d)] = Sums(e, foreign)[Len(d)]
  BY <1>1, <1>2, SumAgree
<1> QED BY <1>2, <1>3, TotalIsSum DEF BeforeLast, e

-----------------------------------------------------------------------------
(* LogFiles: a free name is found among one more than there are files.     *)

AllDiffer(g, lo, n) == \A x, y \in lo .. lo + n : g[x] = g[y] => x = y
SomeOther(g, h, lo, n) == \E c \in lo .. lo + n : \A i \in 1 .. n : g[c] # h[i]

(* Of n + 1 names that differ, one is not among n others.                  *)
LEMMA Pigeons ==
  ASSUME NEW n \in Nat, NEW lo \in Nat, NEW g, NEW h, AllDiffer(g, lo, n)
  PROVE  SomeOther(g, h, lo, n)
<1> USE DEF AllDiffer, SomeOther
<1> SUFFICES ASSUME \A c \in lo .. lo + n : \E i \in 1 .. n : g[c] = h[i] PROVE FALSE
  OBVIOUS
<1> DEFINE S == lo .. lo + n
           T == 1 .. n
           f == [c \in S |-> CHOOSE i \in T : g[c] = h[i]]
<1>1. IsFiniteSet(S) /\ Cardinality(S) = n + 1 /\ IsFiniteSet(T) /\ Cardinality(T) = n
  BY FS_Interval
<1>2. f \in [S -> T] /\ \A c \in S : g[c] = h[f[c]]
  OBVIOUS
<1>3. \A x, y \in S : g[x] = g[y] => x = y
  OBVIOUS
<1> HIDE DEF S, T, f
<1>4. Cardinality(T) < Cardinality(S)
  BY <1>1
<1>5. PICK x \in S, y \in S : x # y /\ f[x] = f[y]
  BY <1>1, <1>2, <1>4, FS_PigeonHole
<1> QED BY <1>2, <1>3, <1>5

(* Min is the least of a set of numbers.                                   *)
LEMMA LogMin ==
  ASSUME NEW T \in SUBSET Nat, T # {}
  PROVE  Logs!Min(T) \in T /\ \A x \in T : Logs!Min(T) <= x
BY Least DEF Logs!Min

(* No two files have a name.                                               *)
Apart(d) ==
  \A i, j \in 1 .. Len(d) : d[i].run = d[j].run /\ d[i].part = d[j].part => i = j

(* A name is present if a file has it.                                     *)
LEMMA IsPresent ==
  ASSUME NEW d \in Seq(Logs!Files), NEW r, NEW p
  PROVE  [run |-> r, part |-> p] \in Logs!Present(d)
           <=> \E i \in 1 .. Len(d) : d[i].run = r /\ d[i].part = p
<1>1. Logs!ToSet(d) = {d[i] : i \in 1 .. Len(d)}
  BY DEF Logs!ToSet
<1> QED BY <1>1 DEF Logs!Present

IsFree(id, d) ==
  /\ id.run \in LogRuns /\ id.part \in Nat
  /\ \A i \in 1 .. Len(d) : ~(d[i].run = id.run /\ d[i].part = id.part)

(* The name that Free finds, with a collision for a run's first segment    *)
(* and with a number for the others, is of no file.                        *)
LEMMA FreeIsFree ==
  ASSUME NEW d \in Seq(Logs!Files), NEW now, now.run \in LogRuns, now.index \in Nat
  PROVE  IsFree(Logs!Free(d, now), d)
<1>0. Len(d) \in Nat
  OBVIOUS
<1>1. CASE now.index = 0
  <2> DEFINE n == Len(d)
             run(c) == [now.run EXCEPT !.collision = c]
             Cs == {c \in 0 .. n : [run |-> run(c), part |-> 0] \notin Logs!Present(d)}
             g == [c \in 0 .. n |-> <<run(c), 0>>]
             h == [i \in 1 .. n |-> <<d[i].run, d[i].part>>]
  <2>1. \A c \in Nat : run(c) \in LogRuns /\ run(c).collision = c
    BY DEF LogRuns
  <2>2. \A x, y \in 0 .. n : g[x] = g[y] => x = y
    <3>1. \A x \in 0 .. n : x \in Nat
      BY <1>0
    <3> HIDE DEF run
    <3>2. \A x, y \in 0 .. n : g[x] = g[y] => run(x) = run(y)
      OBVIOUS
    <3> QED BY <2>1, <3>1, <3>2
  <2> HIDE DEF run
  <2>3. \A c \in 0 .. n, i \in 1 .. n : g[c] # h[i] => ~(d[i].run = run(c) /\ d[i].part = 0)
    OBVIOUS
  <2>4. 0 + n = n /\ 0 \in Nat /\ n \in Nat
    BY <1>0
  <2> HIDE DEF g, h, n
  <2>5. PICK c \in 0 .. n : \A i \in 1 .. n : g[c] # h[i]
    <3>1. AllDiffer(g, 0, n)
      BY <2>2, <2>4 DEF AllDiffer
    <3>2. SomeOther(g, h, 0, n)
      BY <2>4, <3>1, Pigeons
    <3> QED BY <2>4, <3>2 DEF SomeOther
  <2>6. \A k \in 0 .. n : [run |-> run(k), part |-> 0] \in Logs!Present(d)
          <=> \E i \in 1 .. n : d[i].run = run(k) /\ d[i].part = 0
    BY IsPresent DEF n
  <2>7. c \in Cs
    BY <2>3, <2>5, <2>6
  <2>8. Cs \in SUBSET Nat /\ Cs # {}
    BY <2>4, <2>7
  <2> DEFINE m == Logs!Min(Cs)
  <2>9. m \in Cs
    BY <2>8, LogMin
  <2>10. Logs!Free(d, now) = [run |-> run(m), part |-> 0]
    BY <1>1 DEF Logs!Free, run, n
  <2> HIDE DEF m
  <2>11. m \in Nat /\ m \in 0 .. n /\ [run |-> run(m), part |-> 0] \notin Logs!Present(d)
    BY <2>4, <2>9
  <2> HIDE DEF Cs
  <2>12. \A i \in 1 .. n : ~(d[i].run = run(m) /\ d[i].part = 0)
    BY <2>6, <2>11
  <2> QED BY <2>1, <2>10, <2>11, <2>12 DEF IsFree, n
<1>2. CASE now.index # 0
  <2> DEFINE n == Len(d)
             lo == now.index
             Ps == {p \in lo .. lo + n : [run |-> now.run, part |-> p] \notin Logs!Present(d)}
             g == [p \in lo .. lo + n |-> <<now.run, p>>]
             h == [i \in 1 .. n |-> <<d[i].run, d[i].part>>]
  <2>2. \A x, y \in lo .. lo + n : g[x] = g[y] => x = y
    OBVIOUS
  <2>3. \A p \in lo .. lo + n, i \in 1 .. n :
          g[p] # h[i] => ~(d[i].run = now.run /\ d[i].part = p)
    OBVIOUS
  <2>4. lo \in Nat /\ n \in Nat
    BY <1>0
  <2>10. Logs!Free(d, now) = [run |-> now.run, part |-> Logs!Min(Ps)]
    BY <1>2 DEF Logs!Free
  <2> HIDE DEF g, h, n, lo
  <2>5. PICK p \in lo .. lo + n : \A i \in 1 .. n : g[p] # h[i]
    <3>1. AllDiffer(g, lo, n)
      BY <2>2 DEF AllDiffer
    <3>2. SomeOther(g, h, lo, n)
      BY <2>4, <3>1, Pigeons
    <3> QED BY <3>2 DEF SomeOther
  <2>6. \A k \in lo .. lo + n : [run |-> now.run, part |-> k] \in Logs!Present(d)
          <=> \E i \in 1 .. n : d[i].run = now.run /\ d[i].part = k
    BY IsPresent DEF n
  <2>7. p \in Ps
    BY <2>3, <2>5, <2>6
  <2>8. Ps \in SUBSET Nat /\ Ps # {}
    <3>1. \A p_ \in lo .. lo + n : p_ \in Nat
      BY <2>4
    <3> QED BY <2>7, <3>1
  <2> DEFINE m == Logs!Min(Ps)
  <2>9. m \in Ps
    BY <2>8, LogMin
  <2> HIDE DEF m
  <2>11. m \in Nat /\ m \in lo .. lo + n /\ [run |-> now.run, part |-> m] \notin Logs!Present(d)
    BY <2>4, <2>9
  <2> HIDE DEF Ps
  <2>12. \A i \in 1 .. n : ~(d[i].run = now.run /\ d[i].part = m)
    BY <2>6, <2>11
  <2>13. Logs!Free(d, now) = [run |-> now.run, part |-> m]
    BY <2>10 DEF m
  <2> QED BY <2>11, <2>12, <2>13 DEF IsFree, n
<1> QED BY <1>1, <1>2

-----------------------------------------------------------------------------
(* LogFiles: what is left of the directory.                                *)
LogLimits == MaxSegment \in Nat /\ MaxDirectory \in Nat /\ Header \in 0 .. MaxSegment

IsRoom(room, dir) ==
  /\ room.ok \in BOOLEAN
  /\ \E k \in 0 .. Len(dir) : room.dir = SubSeq(dir, k + 1, Len(dir))
  /\ room.ok => Logs!Total(room.dir) + MaxSegment <= MaxDirectory

(* make_directory_room_locked removes the oldest, and succeeds only when   *)
(* a whole segment has room.                                               *)
LEMMA RoomsFit ==
  ASSUME NEW dir \in Seq(Logs!Files), NEW room \in Logs!Rooms(dir)
  PROVE  IsRoom(room, dir)
<1> DEFINE Kept(k) == SubSeq(dir, k + 1, Len(dir))
           fits == {k \in 0 .. Len(dir) : Logs!Total(Kept(k)) + MaxSegment <= MaxDirectory}
           removed == IF fits = {} THEN Len(dir) ELSE Logs!Min(fits)
<1>1. Len(dir) \in Nat
  OBVIOUS
<1>2. removed \in 0 .. Len(dir)
  <2>1. CASE fits = {}
    BY <1>1, <2>1
  <2>2. CASE fits # {}
    <3>1. fits \in SUBSET Nat
      BY <1>1
    <3>2. Logs!Min(fits) \in fits
      BY <2>2, <3>1, LogMin
    <3> QED BY <2>2, <3>2
  <2> QED BY <2>1, <2>2
<1>3. room \in {[ok |-> TRUE,  dir |-> Kept(k)] : k \in fits \cap {removed}}
      \/ room \in {[ok |-> FALSE, dir |-> Kept(k)] :
                     k \in {n \in 0 .. removed : n < removed \/ n = 0 \/ fits = {}}}
  BY DEF Logs!Rooms
<1>4. \A k \in fits : k \in 0 .. Len(dir) /\ Logs!Total(Kept(k)) + MaxSegment <= MaxDirectory
  OBVIOUS
<1> HIDE DEF fits, removed
<1>5. \A k \in 0 .. removed : k \in 0 .. Len(dir)
  BY <1>1, <1>2
<1>6. CASE room \in {[ok |-> TRUE,  dir |-> Kept(k)] : k \in fits \cap {removed}}
  <2>1. PICK k \in fits : room = [ok |-> TRUE, dir |-> Kept(k)]
    BY <1>6
  <2>2. room.ok = TRUE /\ room.dir = Kept(k)
    BY <2>1
  <2> QED BY <1>4, <2>2 DEF IsRoom
<1>7. CASE room \in {[ok |-> FALSE, dir |-> Kept(k)] :
                       k \in {n \in 0 .. removed : n < removed \/ n = 0 \/ fits = {}}}
  <2>1. PICK k \in 0 .. removed : room = [ok |-> FALSE, dir |-> Kept(k)]
    BY <1>7
  <2>2. room.ok = FALSE /\ room.dir = Kept(k)
    BY <2>1
  <2> QED BY <1>5, <2>2 DEF IsRoom
<1> QED BY <1>3, <1>6, <1>7

(* No two of the files that are left have a name.                          *)
LEMMA RoomKept ==
  ASSUME NEW dir \in Seq(Logs!Files), Apart(dir), NEW room, IsRoom(room, dir)
  PROVE  room.dir \in Seq(Logs!Files) /\ Apart(room.dir)
<1>1. PICK k \in 0 .. Len(dir) : room.dir = SubSeq(dir, k + 1, Len(dir))
  BY DEF IsRoom
<1> DEFINE e == SubSeq(dir, k + 1, Len(dir))
           n == Len(dir)
<1>2. /\ e \in Seq(Logs!Files) /\ Len(e) = n - k
      /\ \A i \in 1 .. n - k : e[i] = dir[k + i]
  BY SubSeqOf
<1>3. n \in Nat /\ k \in Nat /\ k <= n
  OBVIOUS
<1>4. \A i, j \in 1 .. n : dir[i].run = dir[j].run /\ dir[i].part = dir[j].part => i = j
  BY DEF Apart
<1> HIDE DEF e, n
<1>5. \A i, j \in 1 .. n - k : e[i].run = e[j].run /\ e[i].part = e[j].part => i = j
  <2> SUFFICES ASSUME NEW i \in 1 .. n - k, NEW j \in 1 .. n - k,
                      e[i].run = e[j].run, e[i].part = e[j].part
               PROVE  i = j
    OBVIOUS
  <2>1. k + i \in 1 .. n /\ k + j \in 1 .. n
    BY <1>3
  <2>2. k + i = k + j
    BY <1>2, <1>4, <2>1
  <2> QED BY <1>3, <2>2
<1>6. Apart(e)
  BY <1>2, <1>5 DEF Apart
<1> QED BY <1>1, <1>2, <1>6 DEF e, n

LogRecords == [dir : Seq(Logs!Files), on : BOOLEAN, run : LogRuns, index : Nat]

(* While a run logs its last segment is within its limit, and there is     *)
(* room for it, however long it becomes.                                   *)
LogSound(l) ==
  /\ l \in LogRecords /\ Apart(l.dir)
  /\ l.on => /\ l.dir # <<>> /\ Logs!Current(l) <= MaxSegment
             /\ BeforeLast(l.dir) + MaxSegment <= MaxDirectory

(* The last file of a directory becomes longer.                            *)
(* It stays a directory of its own names, and the rest is what it was.     *)
LEMMA LongerKeeps ==
  ASSUME NEW dir \in Seq(Logs!Files), dir # <<>>, Apart(dir), foreign \in Nat, LogLimits,
         NEW n \in Nat
  PROVE  LET e == [dir EXCEPT ![Len(dir)].size = @ + n]
         IN /\ e \in Seq(Logs!Files) /\ Apart(e) /\ e # <<>> /\ BeforeLast(e) = BeforeLast(dir)
            /\ e[Len(e)].size = dir[Len(dir)].size + n
<1> DEFINE m == Len(dir)
           f == [dir[m] EXCEPT !.size = @ + n]
           e == [dir EXCEPT ![m] = f]
<1>1. m \in Nat \ {0} /\ m \in 1 .. m /\ dir[m] \in Logs!Files
  OBVIOUS
<1>2. f \in Logs!Files /\ f.run = dir[m].run /\ f.part = dir[m].part
      /\ f.size = dir[m].size + n
  <2>1. dir[m].size \in Nat
    BY <1>1 DEF Logs!Files
  <2>2. dir[m].size + n \in Nat
    BY <2>1
  <2> QED BY <1>1, <2>2 DEF Logs!Files
<1>3. [dir EXCEPT ![Len(dir)].size = @ + n] = e
  OBVIOUS
<1> HIDE DEF f
<1>4. /\ e \in Seq(Logs!Files) /\ Len(e) = m /\ e[m] = f
      /\ \A i \in 1 .. m : i # m => e[i] = dir[i]
  BY <1>1, <1>2
<1> HIDE DEF e
<1>5. \A i \in 1 .. m : e[i].run = dir[i].run /\ e[i].part = dir[i].part
  BY <1>2, <1>4
<1>6. Apart(e)
  BY <1>4, <1>5 DEF Apart
<1>7. m - 1 \in Nat /\ SameSizes(e, dir, m - 1)
  <2>1. m - 1 <= m /\ \A i \in 1 .. m - 1 : i \in 1 .. m /\ i # m
    BY <1>1
  <2>2. \A i \in 1 .. m - 1 : e[i].size = dir[i].size
    BY <1>4, <2>1
  <2>3. m - 1 \in Nat /\ m - 1 <= Len(e) /\ m - 1 <= Len(dir)
    BY <1>1, <1>4
  <2> QED BY <2>2, <2>3 DEF SameSizes
<1>8. BeforeLast(e) = BeforeLast(dir)
  <2>1. Sums(e, foreign)[m - 1] = Sums(dir, foreign)[m - 1]
    BY <1>4, <1>7, SumAgree DEF LogLimits
  <2> QED BY <1>4, <2>1 DEF BeforeLast
<1>9. e # <<>>
  BY <1>1, <1>4
<1> QED BY <1>2, <1>3, <1>4, <1>6, <1>8, <1>9

(* write_bytes_locked leaves a sound log, and all of the bytes in it or no *)
(* logging.                                                                *)
LEMMA WrittenSound ==
  ASSUME NEW now, LogSound(now), now.on, foreign \in Nat, LogLimits, NEW size \in Nat,
         Logs!Current(now) + size <= MaxSegment, NEW r \in Logs!Written(now, size)
  PROVE  LogSound(r) /\ (r.on => Logs!Current(r) = Logs!Current(now) + size)
<1> DEFINE Longer(n) == [now.dir EXCEPT ![Len(now.dir)].size = @ + n]
<1>1. /\ now \in LogRecords /\ now.dir \in Seq(Logs!Files) /\ now.dir # <<>> /\ Apart(now.dir)
      /\ BeforeLast(now.dir) + MaxSegment <= MaxDirectory
  BY DEF LogSound, LogRecords
<1>2. now.dir[Len(now.dir)].size \in Nat
      /\ now.dir[Len(now.dir)].size + size <= MaxSegment
  <2>1. Len(now.dir) \in 1 .. Len(now.dir)
    BY <1>1
  <2>2. now.dir[Len(now.dir)] \in Logs!Files
    BY <1>1, <2>1
  <2> QED BY <2>2 DEF Logs!Files, LogLimits, Logs!Current
<1>3. ASSUME NEW n \in Nat, n <= size
      PROVE  /\ Longer(n) \in Seq(Logs!Files) /\ Apart(Longer(n)) /\ Longer(n) # <<>>
             /\ BeforeLast(Longer(n)) = BeforeLast(now.dir)
             /\ Longer(n)[Len(Longer(n))].size = now.dir[Len(now.dir)].size + n
  BY <1>1, <1>3, LongerKeeps
<1> HIDE DEF Longer
<1>4. r = [now EXCEPT !.dir = Longer(size)]
      \/ \E n \in 0 .. size : r = [now EXCEPT !.dir = Longer(n), !.on = FALSE]
  BY DEF Logs!Written, Logs!Off, Longer
<1>5. CASE r = [now EXCEPT !.dir = Longer(size)]
  <2>2. size \in Nat /\ size <= size
    OBVIOUS
  <2>5. Longer(size) \in Seq(Logs!Files)
    BY <1>3, <2>2
  <2>1. r \in LogRecords /\ r.dir = Longer(size) /\ r.on = now.on
    BY <1>1, <1>5, <2>5 DEF LogRecords
  <2>3. /\ Apart(r.dir) /\ r.dir # <<>> /\ BeforeLast(r.dir) = BeforeLast(now.dir)
        /\ r.dir[Len(r.dir)].size = now.dir[Len(now.dir)].size + size
    BY <1>3, <2>1, <2>2
  <2>4. LogSound(r)
    BY <1>1, <1>2, <2>1, <2>3 DEF LogSound, Logs!Current
  <2> QED BY <2>3, <2>4 DEF Logs!Current
<1>6. CASE \E n \in 0 .. size : r = [now EXCEPT !.dir = Longer(n), !.on = FALSE]
  <2>1. PICK n \in 0 .. size : r = [now EXCEPT !.dir = Longer(n), !.on = FALSE]
    BY <1>6
  <2>2. n \in Nat /\ n <= size
    OBVIOUS
  <2>3. Longer(n) \in Seq(Logs!Files) /\ Apart(Longer(n))
    BY <1>3, <2>2
  <2>4. r \in LogRecords /\ r.dir = Longer(n) /\ r.on = FALSE
    BY <1>1, <2>1, <2>3 DEF LogRecords
  <2> QED BY <2>3, <2>4 DEF LogSound
<1> QED BY <1>4, <1>5, <1>6

(* open_next_segment_locked leaves a sound log, and a segment with its     *)
(* header or no logging.                                                   *)
LEMMA OpenedSound ==
  ASSUME NEW now, LogSound(now), foreign \in Nat, LogLimits, NEW r \in Logs!Opened(now)
  PROVE  LogSound(r) /\ (r.on => Logs!Current(r) = Header)
<1> DEFINE Id(room) == Logs!Free(room.dir, now)
           Segment(room) == [run |-> Id(room).run, part |-> Id(room).part, size |-> 0]
           New(room) == [dir |-> Append(room.dir, Segment(room)), on |-> TRUE,
                         run |-> Id(room).run, index |-> Id(room).part + 1]
<1>1. PICK room \in Logs!Rooms(now.dir) :
        r = Logs!Off(room.dir, now) \/ (room.ok /\ r \in Logs!Written(New(room), Header))
  BY Zenon DEF Logs!Opened
<1>2. now.dir \in Seq(Logs!Files) /\ now.run \in LogRuns /\ now.index \in Nat /\ Apart(now.dir)
      /\ now \in LogRecords
  BY DEF LogSound, LogRecords
<1>3. IsRoom(room, now.dir)
  BY <1>2, RoomsFit
<1>4. room.dir \in Seq(Logs!Files) /\ Apart(room.dir)
  BY <1>2, <1>3, RoomKept
<1>5. CASE r = Logs!Off(room.dir, now)
  <2>1. r = [now EXCEPT !.dir = room.dir, !.on = FALSE]
    BY <1>5 DEF Logs!Off
  <2>2. r \in LogRecords /\ r.dir = room.dir /\ r.on = FALSE
    BY <1>2, <1>4, <2>1 DEF LogRecords
  <2> QED BY <1>4, <2>2 DEF LogSound
<1>6. CASE room.ok /\ r \in Logs!Written(New(room), Header)
  <2> DEFINE id == Id(room)
             f == Segment(room)
             e == Append(room.dir, f)
             m == Len(room.dir)
  <2>1. IsFree(id, room.dir)
    BY <1>2, <1>4, FreeIsFree
  <2> HIDE DEF id
  <2>2. f \in Logs!Files /\ f.size = 0 /\ f.run = id.run /\ f.part = id.part
    BY <2>1 DEF Logs!Files, IsFree, LogRuns, LogLimits, id
  <2> HIDE DEF f
  <2>3. m \in Nat /\ e \in Seq(Logs!Files) /\ Len(e) = m + 1 /\ e[m + 1] = f
        /\ \A i \in 1 .. m : e[i] = room.dir[i]
    BY <1>4, <2>2
  <2>4. BeforeLast(e) = Logs!Total(room.dir)
    BY <1>4, <2>2, BeforeAppended DEF LogLimits
  <2>5. \A i, j \in 1 .. m : room.dir[i].run = room.dir[j].run
                             /\ room.dir[i].part = room.dir[j].part => i = j
    BY <1>4 DEF Apart
  <2>6. \A i \in 1 .. m : ~(room.dir[i].run = f.run /\ room.dir[i].part = f.part)
    BY <2>1, <2>2 DEF IsFree
  <2> HIDE DEF e, m
  <2>7. Apart(e)
    <3> SUFFICES ASSUME NEW i \in 1 .. m + 1, NEW j \in 1 .. m + 1,
                        e[i].run = e[j].run, e[i].part = e[j].part
                 PROVE  i = j
      BY <2>3 DEF Apart
    <3>1. (i \in 1 .. m \/ i = m + 1) /\ (j \in 1 .. m \/ j = m + 1)
      BY <2>3
    <3> QED BY <2>3, <2>5, <2>6, <3>1
  <2>8. New(room) = [dir |-> e, on |-> TRUE, run |-> id.run, index |-> id.part + 1]
    BY DEF e, id, f
  <2>9. e # <<>>
    BY <2>3
  <2>10. New(room) \in LogRecords
    <3>1. id.run \in LogRuns /\ id.part + 1 \in Nat
      BY <2>1 DEF IsFree
    <3> HIDE DEF New
    <3> QED BY <2>3, <2>8, <3>1 DEF LogRecords
  <2>11. Logs!Total(room.dir) + MaxSegment <= MaxDirectory
    BY <1>3, <1>6 DEF IsRoom
  <2>12. New(room).dir = e /\ New(room).on
    BY <2>8
  <2> HIDE DEF New
  <2>14. Logs!Current(New(room)) = 0
    BY <2>2, <2>3, <2>12 DEF Logs!Current
  <2>15. Header \in Nat /\ 0 + Header = Header /\ Header <= MaxSegment /\ 0 <= MaxSegment
    BY DEF LogLimits
  <2>13. LogSound(New(room))
    BY <2>4, <2>7, <2>9, <2>10, <2>11, <2>12, <2>14, <2>15 DEF LogSound
  <2> QED BY <1>6, <2>12, <2>13, <2>14, <2>15, WrittenSound
<1> QED BY <1>1, <1>5, <1>6

-----------------------------------------------------------------------------
(* The inductive invariant of the logger.                                  *)
LogKept == LogSound(log) /\ foreign \in Nat /\ cut = FALSE

(* What JobLogs says of the sizes.                                         *)
LEMMA Limits == LogLimits /\ Lines \subseteq Nat
BY JobLogs DEF LogLimits

(* What earlier runs left is sound.                                        *)
LEMMA InitLog == ASSUME Logs!LogInit PROVE LogKept
<1>1. PICK dir \in OldFiles :
        log = [dir |-> dir, on |-> FALSE, run |-> [name |-> "none", collision |-> 0], index |-> 0]
  BY DEF Logs!LogInit
<1>2. dir \in Seq(Logs!Files) /\ Apart(dir)
  BY JobLogs DEF Apart
<1>3. log \in LogRecords /\ log.on = FALSE /\ log.dir = dir
  BY <1>1, <1>2 DEF LogRecords, LogRuns
<1>4. LogSound(log)
  BY <1>2, <1>3 DEF LogSound
<1>5. foreign \in Nat /\ cut = FALSE
  BY Limits DEF Logs!LogInit, LogLimits
<1> QED BY <1>4, <1>5 DEF LogKept

(* A step that leaves the other files alone leaves a sound log sound.      *)
LEMMA SoundStays ==
  ASSUME NEW r, LogSound(r), log' = r, UNCHANGED foreign
  PROVE  LogSound(log)'
<1>1. Apart(log.dir)' <=> Apart(r.dir)
  BY DEF Apart
<1>2. BeforeLast(log.dir)' = BeforeLast(r.dir)
  BY DEF BeforeLast, Sums
<1>3. Logs!Current(log)' = Logs!Current(r)
  BY DEF Logs!Current
<1>4. (log \in LogRecords)' <=> r \in LogRecords
  BY DEF LogRecords, LogRuns, Logs!Files
<1> QED BY <1>1, <1>2, <1>3, <1>4 DEF LogSound

(* A run that starts opens its first segment; a line is cut only in a      *)
(* segment that is new, where it would be cut in every other.              *)
LEMMA NextLog ==
  ASSUME LogKept, Logs!LogNext
  PROVE  LogKept'
<1>1. LogSound(log) /\ foreign \in Nat /\ cut = FALSE /\ LogLimits
  BY Limits DEF LogKept
<1>2. ASSUME Logs!InitLogger PROVE LogKept'
  <2>1. PICK name \in Names :
          log' \in Logs!Opened([log EXCEPT !.run = [name |-> name, collision |-> 0],
                                           !.index = 0])
    BY <1>2 DEF Logs!InitLogger
  <2> DEFINE now == [log EXCEPT !.run = [name |-> name, collision |-> 0], !.index = 0]
  <2>2. UNCHANGED <<foreign, cut>>
    BY <1>2 DEF Logs!InitLogger
  <2>3. LogSound(now)
    <3>1. now \in LogRecords /\ now.dir = log.dir /\ now.on = log.on
      BY <1>1 DEF LogSound, LogRecords, LogRuns
    <3> QED BY <1>1, <3>1 DEF LogSound, Logs!Current
  <2>4. log' \in Logs!Opened(now)
    BY <2>1
  <2> HIDE DEF now
  <2>5. PICK r : r = log'
    OBVIOUS
  <2>6. LogSound(r)
    BY <1>1, <2>3, <2>4, <2>5, OpenedSound
  <2>7. LogSound(log)'
    BY <2>2, <2>5, <2>6, SoundStays
  <2> QED BY <1>1, <2>2, <2>7 DEF LogKept
<1>3. ASSUME Logs!Log PROVE LogKept'
  <2>1. PICK line \in Lines :
          LET size == Logs!Min({line, MaxSegment})
          IN \E now \in IF Logs!Rotates(size) THEN Logs!Opened(log) ELSE {log} :
               IF now.on
               THEN LET fitting == Logs!Min({size, MaxSegment - Logs!Current(now)})
                    IN /\ log' \in Logs!Written(now, fitting)
                       /\ cut' = (cut \/ fitting < Logs!Min({size, MaxSegment - Header}))
               ELSE log' = now /\ UNCHANGED cut
    BY <1>3, Zenon DEF Logs!Log
  <2>2. UNCHANGED foreign /\ log.on
    BY <1>3 DEF Logs!Log
  <2> DEFINE size == Logs!Min({line, MaxSegment})
  <2>3. size \in Nat /\ size <= MaxSegment
    <3>1. {line, MaxSegment} \in SUBSET Nat
      BY Limits DEF LogLimits
    <3> QED BY <3>1, LogMin
  <2>4. PICK now \in IF Logs!Rotates(size) THEN Logs!Opened(log) ELSE {log} :
          IF now.on
          THEN LET fitting == Logs!Min({size, MaxSegment - Logs!Current(now)})
               IN /\ log' \in Logs!Written(now, fitting)
                  /\ cut' = (cut \/ fitting < Logs!Min({size, MaxSegment - Header}))
          ELSE log' = now /\ UNCHANGED cut
    BY <2>1, Zenon
  <2> HIDE DEF size
  <2>5. LogSound(now)
    <3>1. CASE Logs!Rotates(size)
      <4>1. now \in Logs!Opened(log)
        BY <2>4, <3>1
      <4> QED BY <1>1, <4>1, OpenedSound
    <3>2. CASE ~Logs!Rotates(size)
      BY <1>1, <2>4, <3>2
    <3> QED BY <3>1, <3>2
  <2>6. CASE ~now.on
    <3>1. log' = now /\ cut' = cut
      BY <2>4, <2>6
    <3>2. LogSound(log)'
      BY <2>2, <2>5, <3>1, SoundStays
    <3> QED BY <1>1, <2>2, <3>1, <3>2 DEF LogKept
  <2>7. CASE now.on
    <3> DEFINE had == Logs!Current(now)
               fitting == Logs!Min({size, MaxSegment - had})
    <3>1. log' \in Logs!Written(now, fitting)
          /\ cut' = (cut \/ fitting < Logs!Min({size, MaxSegment - Header}))
      BY <2>4, <2>7
    <3>2. had \in 0 .. MaxSegment
      <4>1. now.dir \in Seq(Logs!Files) /\ now.dir # <<>>
        BY <2>5, <2>7 DEF LogSound, LogRecords
      <4>2. now.dir[Len(now.dir)] \in Logs!Files
        BY <4>1
      <4>3. had \in Nat
        BY <4>2 DEF Logs!Files, Logs!Current
      <4>4. had <= MaxSegment
        BY <2>5, <2>7 DEF LogSound
      <4> HIDE DEF had
      <4> QED BY <1>1, <4>3, <4>4 DEF LogLimits
    <3>3. had = Header \/ had + size <= MaxSegment
      <4>1. CASE Logs!Rotates(size)
        <5>1. now \in Logs!Opened(log)
          BY <2>4, <4>1
        <5> QED BY <1>1, <2>7, <5>1, OpenedSound
      <4>2. CASE ~Logs!Rotates(size)
        <5>1. now = log
          BY <2>4, <4>2
        <5>2. had \in Int /\ size \in Int /\ MaxSegment \in Int
          BY <1>1, <2>3, <3>2 DEF LogLimits
        <5> QED BY <4>2, <5>1, <5>2 DEF Logs!Rotates
      <4> QED BY <4>1, <4>2
    <3> HIDE DEF had
    <3>4. fitting \in Nat /\ had + fitting <= MaxSegment /\ fitting <= size
          /\ (fitting = size \/ fitting = MaxSegment - had)
      <4>1. {size, MaxSegment - had} \in SUBSET Nat
        BY <1>1, <2>3, <3>2 DEF LogLimits
      <4>2. fitting \in {size, MaxSegment - had}
            /\ \A x \in {size, MaxSegment - had} : fitting <= x
        BY <4>1, LogMin
      <4> HIDE DEF fitting
      <4> QED BY <1>1, <2>3, <3>2, <4>1, <4>2 DEF LogLimits
    <3>5. ~(fitting < Logs!Min({size, MaxSegment - Header}))
      <4> DEFINE own == Logs!Min({size, MaxSegment - Header})
      <4>1. {size, MaxSegment - Header} \in SUBSET Nat
        BY <1>1, <2>3 DEF LogLimits
      <4>2. own \in Nat /\ own <= size /\ own <= MaxSegment - Header
        BY <4>1, LogMin
      <4> HIDE DEF own, fitting
      <4>3. CASE had = Header
        <5>1. Header \in Nat /\ MaxSegment \in Nat
          BY <1>1 DEF LogLimits
        <5> QED BY <2>3, <3>4, <4>2, <4>3, <5>1 DEF own
      <4>4. CASE had + size <= MaxSegment
        <5>1. MaxSegment \in Nat /\ had \in Nat
          BY <1>1, <3>2 DEF LogLimits
        <5> QED BY <2>3, <3>4, <4>2, <4>4, <5>1 DEF own
      <4> QED BY <3>3, <4>3, <4>4
    <3> HIDE DEF fitting
    <3>6. PICK r : r = log'
      OBVIOUS
    <3>7. LogSound(r)
      BY <1>1, <2>5, <2>7, <3>1, <3>4, <3>6, WrittenSound DEF had
    <3>8. LogSound(log)'
      BY <2>2, <3>6, <3>7, SoundStays
    <3>9. cut' = FALSE
      BY <1>1, <3>1, <3>5
    <3> QED BY <1>1, <2>2, <3>8, <3>9 DEF LogKept
  <2> QED BY <2>6, <2>7
<1>4. ASSUME Logs!Shutdown PROVE LogKept'
  <2>1. log' = [log EXCEPT !.dir = log.dir, !.on = FALSE] /\ UNCHANGED <<foreign, cut>>
    BY <1>4 DEF Logs!Shutdown, Logs!Off
  <2> DEFINE r == [log EXCEPT !.dir = log.dir, !.on = FALSE]
  <2>2. r \in LogRecords /\ r.dir = log.dir /\ r.on = FALSE
    BY <1>1 DEF LogSound, LogRecords
  <2>3. LogSound(r)
    BY <1>1, <2>2 DEF LogSound
  <2>4. log' = r
    BY <2>1
  <2>5. LogSound(log)'
    BY <2>1, <2>3, <2>4, SoundStays
  <2> QED BY <1>1, <2>1, <2>5 DEF LogKept
<1> QED BY <1>2, <1>3, <1>4 DEF Logs!LogNext

(* What it says of the files is what the run checks.                       *)
LEMMA LogKeptBounds == ASSUME LogKept PROVE Logs!LogsBounded
<1> DEFINE d == log.dir
           n == Len(d)
<1>1. d \in Seq(Logs!Files) /\ Apart(d) /\ LogLimits /\ n \in Nat /\ foreign \in Nat
  BY Limits DEF LogKept, LogSound, LogRecords
<1>2. Logs!ToSet(d) = {d[i] : i \in 1 .. n}
  BY DEF Logs!ToSet
<1>3. \A i \in 1 .. n : d[i] \in Logs!Files
  BY <1>1
<1>4. log.on => Logs!Current(log) <= MaxSegment
  BY DEF LogKept, LogSound
<1>5. log.on => Logs!Total(d) <= MaxDirectory
  <2> SUFFICES ASSUME log.on PROVE Logs!Total(d) <= MaxDirectory
    OBVIOUS
  <2>1. d # <<>> /\ BeforeLast(d) + MaxSegment <= MaxDirectory
    BY DEF LogKept, LogSound
  <2>2. Logs!Total(d) = BeforeLast(d) + d[n].size /\ BeforeLast(d) \in Nat
    BY <1>1, <2>1, TotalOfLast DEF LogLimits
  <2>3. n \in 1 .. n
    BY <1>1, <2>1
  <2>4. d[n].size \in Nat /\ d[n].size <= MaxSegment
    BY <1>3, <1>4, <2>3 DEF Logs!Files, Logs!Current
  <2> HIDE DEF d, n
  <2> QED BY <1>1, <2>1, <2>2, <2>4 DEF LogLimits
<1>6. Cardinality(Logs!Present(d)) = n
  <2> DEFINE P == Logs!Present(d)
             g == [i \in 1 .. n |-> [run |-> d[i].run, part |-> d[i].part]]
  <2>1. P = {g[i] : i \in 1 .. n}
    BY <1>2 DEF Logs!Present
  <2>2. \A i, j \in 1 .. n : g[i] = g[j] => i = j
    <3>1. \A i, j \in 1 .. n : d[i].run = d[j].run /\ d[i].part = d[j].part => i = j
      BY <1>1 DEF Apart
    <3> QED BY <3>1
  <2> HIDE DEF g, P
  <2>3. g \in Bijection(1 .. n, P)
    <3>1. g \in [1 .. n -> P]
      BY <2>1 DEF g
    <3>2. g \in Injection(1 .. n, P) /\ g \in Surjection(1 .. n, P)
      BY <2>1, <2>2, <3>1 DEF Injection, Surjection, IsInjective
    <3> QED BY <3>2 DEF Bijection
  <2>4. ExistsBijection(1 .. n, P)
    BY <2>3 DEF ExistsBijection
  <2> HIDE DEF n
  <2>5. Cardinality(P) = n
    BY <1>1, <2>4, FS_CountingElements
  <2> QED BY <2>5, Zenon DEF P
<1>7. ~cut
  BY DEF LogKept
<1> HIDE DEF d, n
<1>8. Logs!Cardinality(Logs!Present(d)) = Len(d)
  <2>1. \A S : Logs!Cardinality(S) = Cardinality(S)
    BY DEF Logs!Cardinality, Cardinality, Logs!IsFiniteSet, IsFiniteSet
  <2> QED BY <1>6, <2>1 DEF n
<1> QED BY <1>4, <1>5, <1>7, <1>8, Zenon DEF Logs!LogsBounded, d

(* Every step keeps it.                                                    *)
LEMMA NextLogKept == LogKept /\ [JobNext]_jobVars => LogKept'
<1> SUFFICES ASSUME LogKept, [JobNext]_jobVars PROVE LogKept'
  OBVIOUS
<1>1. CASE Logs!LogNext
  BY <1>1, NextLog
<1>2. CASE UNCHANGED logs
  <2>1. UNCHANGED <<log, foreign, cut>>
    BY <1>2 DEF logs
  <2>2. PICK r : r = log'
    OBVIOUS
  <2>3. LogSound(r)
    BY <2>1, <2>2 DEF LogKept
  <2>4. LogSound(log)'
    BY <2>1, <2>2, <2>3, SoundStays
  <2> QED BY <2>1, <2>4 DEF LogKept
<1> QED
  BY <1>1, <1>2 DEF JobNext, jobVars, RunCommand, TestPerformance, TestAudio, MakeSounds,
     ReadJack, TestCamera, BakePi, TestDisplay, WriteLogs, KeepConfig

(* Logger and AppConfigStore, for every limit, every length of a line and  *)
(* every set of files of earlier runs, of any size: while a run logs, the  *)
(* directory and its segment are within their limits, no run writes a file *)
(* of another, and no line is cut that a segment could have held; and the  *)
(* configuration is sound.                                                 *)
THEOREM FilesThm == JobSpec => []FilesInv
<1>1. JobInit => LogKept
  BY InitLog DEF JobInit
<1>2. LogKept => Logs!LogsBounded
  BY LogKeptBounds
<1>3. JobSpec => []LogKept
  BY <1>1, NextLogKept, PTL DEF JobSpec
<1>4. Logs!LogsBounded /\ Config!ConfigSound => FilesInv
  BY DEF FilesInv
<1> QED
  BY <1>2, <1>3, <1>4, ConfigThm, PTL

-----------------------------------------------------------------------------
(* PerfTest: the benchmarks.                                               *)

Kinds   == {"CPU", "MEM", "SD"}
Stages  == {"find", "run", "parse", "store", "flag", "end"}
Results == [status : {"none", "default", "WARNING", "PASS", "FAIL"}, metrics_of : Nat]
ToolEnds == UNION {JobEnds[k] : k \in Kinds}
Endings == ToolEnds \cup Results
JobRecords ==
  [kind : Kinds, at : Stages, percent : 0..4, real : BOOLEAN, ended : Endings,
   result : Endings, done : BOOLEAN, mixed : BOOLEAN]

(* A job by itself: what it has left behind at each stage, when the YAML   *)
(* file is that of job `of'.  Its result is stored before it is done.      *)
JobSound(j, job, of) ==
  /\ job \in JobRecords
  /\ job.done <=> job.at = "end"
  /\ job.at \in {"flag", "end"} => job.result = job.ended
  /\ job.at \in {"find", "run"} => job.percent < Perf!Full
  /\ job.at \in {"store", "flag", "end"} /\ ~job.mixed => job.ended.metrics_of \in {0, j}
  /\ job.kind = "MEM" /\ job.at \in {"run", "parse"} /\ ~job.mixed => of \in {0, j}

(* The jobs together: two of a kind that run at a time are both marked.    *)
JobsTogether ==
  /\ jobs \in Seq(JobRecords) /\ yaml.of \in Nat
  /\ \A j \in 1 .. Len(jobs) : JobSound(j, jobs[j], yaml.of)
  /\ \A i, j \in 1 .. Len(jobs) :
       i # j /\ jobs[i].kind = jobs[j].kind /\ ~jobs[i].done /\ ~jobs[j].done
         => jobs[i].mixed

(* fio's file is that of a job that has started the tool and has not yet   *)
(* parsed what it wrote.                                                   *)
DataFileUsed ==
  /\ data_file \in BOOLEAN
  /\ data_file => \E j \in 1 .. Len(jobs) : jobs[j].kind = "SD" /\ jobs[j].at \in {"run", "parse"}

(* The view shows what its own job is at.                                  *)
ViewSound ==
  /\ watched \in 0 .. Len(jobs) /\ bar \in 0..4 /\ fake \in 0 .. Perf!MaxFake
  /\ watched # 0 =>
       /\ report # Perf!NoResult => jobs[watched].done /\ report = jobs[watched].ended
       /\ bar = Perf!Full => jobs[watched].at \notin {"find", "run"}
       /\ fake > 0 => jobs[watched].kind = "MEM"

(* The inductive invariant of PerfTest.                                    *)
BInv == JobsTogether /\ DataFileUsed /\ ViewSound

(* It tells all that JobsInv does.                                         *)
LEMMA BInvGivesJobsInv == ASSUME BInv PROVE JobsInv
<1>1. DOMAIN jobs = 1 .. Len(jobs)
  BY DEF BInv, JobsTogether
<1>2. Perf!OwnReport
  BY DEF BInv, ViewSound, Perf!OwnReport
<1>3. data_file => Perf!Running("SD") # {}
  <2> SUFFICES ASSUME data_file PROVE Perf!Running("SD") # {}
    OBVIOUS
  <2>1. PICK j \in 1 .. Len(jobs) : jobs[j].kind = "SD" /\ jobs[j].at \in {"run", "parse"}
    BY DEF BInv, DataFileUsed
  <2>2. ~jobs[j].done
    BY <2>1 DEF BInv, JobsTogether, JobSound
  <2>3. j \in Perf!Running("SD")
    BY <1>1, <2>1, <2>2 DEF Perf!Running
  <2> QED
    BY <2>3
<1>4. \A j \in DOMAIN jobs :
        jobs[j].at \in {"store", "flag", "end"} /\ ~jobs[j].mixed
          => jobs[j].ended.metrics_of \in {0, j}
  BY <1>1 DEF BInv, JobsTogether, JobSound
<1> QED
  BY <1>2, <1>3, <1>4 DEF JobsInv, Perf!OwnFiles

(* No job at first.                                                        *)
LEMMA InitBInv == ASSUME Perf!PerfInit PROVE BInv
<1>1. JobsTogether
  BY DEF Perf!PerfInit, Perf!EmptyFile, JobsTogether
<1>2. DataFileUsed
  BY DEF Perf!PerfInit, DataFileUsed
<1>3. ViewSound
  <2>1. Len(jobs) = 0 /\ watched = 0 /\ bar = 0 /\ fake = 0
    BY DEF Perf!PerfInit
  <2> QED
    BY <2>1 DEF ViewSound, Perf!Full, Perf!MaxFake
<1> QED
  BY <1>1, <1>2, <1>3 DEF BInv

(* One job advances by itself, and only one that is not done: those of its *)
(* kind that are not done either are marked, so that it may have its file. *)
LEMMA JobMoves ==
  ASSUME BInv, NEW j \in 1 .. Len(jobs), NEW new,
         jobs' = [jobs EXCEPT ![j] = new],
         JobSound(j, new, yaml'.of), yaml'.of \in Nat,
         new.kind = jobs[j].kind, new.mixed = jobs[j].mixed, ~jobs[j].done,
         new.at \in {"find", "run"} => jobs[j].at \in {"find", "run"},
         yaml' = yaml \/ jobs[j].kind = "MEM",
         data_file' \in BOOLEAN,
         data_file' => \/ jobs[j].kind = "SD" /\ new.at \in {"run", "parse"}
                       \/ data_file /\ ~(jobs[j].kind = "SD" /\ jobs[j].at \in {"run", "parse"}),
         UNCHANGED Perf!viewVars
  PROVE  BInv'
<1>1. /\ Len(jobs') = Len(jobs) /\ jobs'[j] = new
      /\ \A i \in 1 .. Len(jobs) : i # j => jobs'[i] = jobs[i]
      /\ jobs' \in Seq(JobRecords)
  BY DEF BInv, JobsTogether, JobSound
<1>2. JobsTogether'
  <2>1. ASSUME NEW i \in 1 .. Len(jobs) PROVE JobSound(i, jobs'[i], yaml'.of)
    <3>1. CASE i = j
      BY <1>1, <3>1
    <3>2. CASE i # j /\ yaml' = yaml
      BY <1>1, <3>2 DEF BInv, JobsTogether
    <3>3. CASE i # j /\ jobs[j].kind = "MEM"
      <4>1. jobs'[i] = jobs[i] /\ JobSound(i, jobs[i], yaml.of)
        BY <1>1, <3>3 DEF BInv, JobsTogether
      <4>2. jobs[i].kind = "MEM" /\ jobs[i].at \in {"run", "parse"} => jobs[i].mixed
        BY <3>3, <4>1 DEF BInv, JobsTogether, JobSound
      <4> QED
        BY <4>1, <4>2 DEF JobSound
    <3> QED
      BY <3>1, <3>2, <3>3
  <2>2. ASSUME NEW i \in 1 .. Len(jobs), NEW k \in 1 .. Len(jobs),
               i # k, jobs'[i].kind = jobs'[k].kind, ~jobs'[i].done, ~jobs'[k].done
        PROVE  jobs'[i].mixed
    <3>1. /\ jobs'[i].kind = jobs[i].kind /\ jobs'[k].kind = jobs[k].kind
          /\ jobs'[i].mixed = jobs[i].mixed /\ ~jobs[i].done /\ ~jobs[k].done
      BY <1>1, <2>2
    <3> QED
      BY <2>2, <3>1 DEF BInv, JobsTogether
  <2> QED
    BY <1>1, <2>1, <2>2 DEF JobsTogether
<1>3. DataFileUsed'
  <2> SUFFICES ASSUME data_file'
               PROVE  \E i \in 1 .. Len(jobs') : jobs'[i].kind = "SD" /\ jobs'[i].at \in {"run", "parse"}
    BY DEF DataFileUsed
  <2>1. CASE jobs[j].kind = "SD" /\ new.at \in {"run", "parse"}
    <3>1. jobs'[j].kind = "SD" /\ jobs'[j].at \in {"run", "parse"}
      BY <1>1, <2>1
    <3> QED
      BY <1>1, <3>1
  <2>2. CASE data_file /\ ~(jobs[j].kind = "SD" /\ jobs[j].at \in {"run", "parse"})
    <3>1. PICK i \in 1 .. Len(jobs) : jobs[i].kind = "SD" /\ jobs[i].at \in {"run", "parse"}
      BY <2>2 DEF BInv, DataFileUsed
    <3>2. jobs'[i].kind = "SD" /\ jobs'[i].at \in {"run", "parse"}
      BY <1>1, <2>2, <3>1
    <3> QED
      BY <1>1, <3>2
  <2> QED
    BY <2>1, <2>2
<1>4. ViewSound'
  <2>1. UNCHANGED <<watched, bar, fake, report>>
    BY DEF Perf!viewVars
  <2>2. watched \in 0 .. Len(jobs') /\ bar \in 0..4 /\ fake \in 0 .. Perf!MaxFake
    BY <1>1 DEF BInv, ViewSound
  <2>3. ASSUME watched # 0
        PROVE  /\ report # Perf!NoResult => jobs'[watched].done /\ report = jobs'[watched].ended
               /\ bar = Perf!Full => jobs'[watched].at \notin {"find", "run"}
               /\ fake > 0 => jobs'[watched].kind = "MEM"
    <3>1. CASE watched = j
      BY <1>1, <2>3, <3>1 DEF BInv, ViewSound
    <3>2. CASE watched # j
      <4>1. jobs'[watched] = jobs[watched]
        BY <1>1, <2>2, <2>3, <3>2
      <4> QED
        BY <2>3, <4>1 DEF BInv, ViewSound
    <3> QED
      BY <3>1, <3>2
  <2> QED
    BY <2>1, <2>2, <2>3 DEF ViewSound
<1> QED
  BY <1>2, <1>3, <1>4 DEF BInv

(* A job's record after a change is one.                                   *)
LEMMA Changed ==
  ASSUME NEW old \in JobRecords, NEW p \in 0..4, NEW b \in BOOLEAN,
         NEW at \in Stages, NEW e \in Endings
  PROVE  /\ [old EXCEPT !.percent = p, !.real = b] \in JobRecords
         /\ [old EXCEPT !.at = at, !.ended = e] \in JobRecords
         /\ [old EXCEPT !.done = b, !.percent = p, !.at = at] \in JobRecords
<1>1. [old EXCEPT !.percent = p, !.real = b] \in JobRecords
  BY DEF JobRecords
<1>2. [old EXCEPT !.at = at, !.ended = e] \in JobRecords
  BY DEF JobRecords
<1>3. [old EXCEPT !.done = b, !.percent = p, !.at = at] \in JobRecords
  BY DEF JobRecords
<1> QED
  BY <1>1, <1>2, <1>3

(* The thread of a job, from start to end.                                 *)
LEMMA ThreadBInv ==
  ASSUME BInv, NEW j \in 1 .. Len(jobs), Perf!JobAdvances(j), UNCHANGED Perf!viewVars
  PROVE  BInv'
<1> DEFINE old == jobs[j]
<1>1. JobSound(j, old, yaml.of) /\ old \in JobRecords /\ yaml.of \in Nat /\ data_file \in BOOLEAN
  BY DEF BInv, JobsTogether, DataFileUsed, JobSound
<1>2. old.kind \in Kinds /\ old.percent \in 0..4 /\ old.real \in BOOLEAN
      /\ old.ended \in Endings /\ old.result \in Endings /\ old.done \in BOOLEAN
      /\ old.mixed \in BOOLEAN
  BY <1>1 DEF JobRecords
<1>3. jobs \in Seq(JobRecords)
  BY DEF BInv, JobsTogether
<1>4. old.at # "end" => ~old.done
  BY <1>1 DEF JobSound
<1> HIDE DEF old
<1>5. CASE Perf!NotFound(j)
  <2> DEFINE given == [status |-> "WARNING", metrics_of |-> 0]
             new == [[old EXCEPT !.percent = 4, !.real = TRUE]
                       EXCEPT !.at = "store", !.ended = given]
  <2>1. old.at = "find" /\ UNCHANGED <<yaml, data_file>> /\ jobs' = [jobs EXCEPT ![j] = new]
    BY <1>5, <1>3 DEF Perf!NotFound, Perf!Progress, Perf!Full, old
  <2>2. given \in Endings
    <3>1. given \in Results
      BY DEF Results
    <3> QED
      BY <3>1 DEF Endings
  <2>3. /\ new \in JobRecords
        /\ new.at = "store" /\ new.ended = given /\ new.kind = old.kind
        /\ new.mixed = old.mixed /\ new.done = old.done
    <3> HIDE DEF given
    <3>1. new \in JobRecords
      <4>1. 4 \in 0..4 /\ TRUE \in BOOLEAN /\ "store" \in Stages
        BY DEF Stages
      <4> QED
        BY <1>1, <2>2, <4>1, Changed
    <3>2. /\ new.at = "store" /\ new.ended = given /\ new.kind = old.kind
          /\ new.mixed = old.mixed /\ new.done = old.done
      BY <1>1 DEF JobRecords
    <3> QED
      BY <3>1, <3>2, Zenon
  <2> HIDE DEF new
  <2>4. JobSound(j, new, yaml'.of)
    BY <1>4, <2>1, <2>3 DEF JobSound
  <2> QED
    BY <1>1, <1>4, <2>1, <2>3, <2>4, JobMoves DEF old
<1>6. CASE Perf!Launch(j)
  <2> DEFINE new == [old EXCEPT !.at = "run"]
  <2>1. /\ old.at = "find" /\ jobs' = [jobs EXCEPT ![j] = new]
        /\ yaml' = IF old.kind = "MEM" THEN [of |-> 0, has |-> "none"] ELSE yaml
        /\ data_file' = (data_file \/ old.kind = "SD")
    BY <1>6, <1>3 DEF Perf!Launch, Perf!EmptyFile, old
  <2>2. /\ new \in JobRecords
        /\ new.at = "run" /\ new.kind = old.kind /\ new.percent = old.percent
        /\ new.mixed = old.mixed /\ new.done = old.done
    BY <1>1, <1>2 DEF JobRecords, Stages
  <2> HIDE DEF new
  <2>3. yaml'.of \in Nat /\ (old.kind = "MEM" => yaml'.of = 0)
    BY <1>1, <2>1
  <2>4. JobSound(j, new, yaml'.of)
    BY <1>1, <1>4, <2>1, <2>2, <2>3 DEF JobSound
  <2> QED
    BY <1>1, <1>4, <2>1, <2>2, <2>3, <2>4, JobMoves DEF old
<1>7. CASE Perf!CommandEnds(j)
  <2> PICK w \in JobEnds[old.kind] :
        /\ old.at = "run"
        /\ jobs' = [jobs EXCEPT ![j] = [Perf!Progress(@, Perf!Full) EXCEPT !.at = "parse", !.ended = w]]
        /\ yaml' = IF old.kind = "MEM" /\ w.yaml # "none" THEN [of |-> j, has |-> w.yaml] ELSE yaml
        /\ UNCHANGED data_file
    BY <1>7 DEF Perf!CommandEnds, old
  <2> DEFINE new == [[old EXCEPT !.percent = 4, !.real = TRUE]
                       EXCEPT !.at = "parse", !.ended = w]
  <2>1. old.at = "run" /\ jobs' = [jobs EXCEPT ![j] = new]
    BY <1>3 DEF Perf!Progress, Perf!Full, old
  <2>2. w \in Endings
    BY <1>2 DEF Endings, ToolEnds
  <2>3. /\ new \in JobRecords
        /\ new.at = "parse" /\ new.kind = old.kind
        /\ new.mixed = old.mixed /\ new.done = old.done
    <3>1. new \in JobRecords
      <4>1. 4 \in 0..4 /\ TRUE \in BOOLEAN /\ "parse" \in Stages
        BY DEF Stages
      <4> QED
        BY <1>1, <2>2, <4>1, Changed
    <3>2. /\ new.at = "parse" /\ new.kind = old.kind
          /\ new.mixed = old.mixed /\ new.done = old.done
      BY <1>1 DEF JobRecords
    <3> QED
      BY <3>1, <3>2, Zenon
  <2> HIDE DEF new
  <2>4. yaml'.of \in Nat /\ (yaml'.of = yaml.of \/ yaml'.of = j) /\ (yaml' = yaml \/ old.kind = "MEM")
    BY <1>1
  <2>5. JobSound(j, new, yaml'.of)
    BY <1>1, <1>4, <2>1, <2>3, <2>4 DEF JobSound
  <2> QED
    BY <1>1, <1>4, <2>1, <2>3, <2>4, <2>5, JobMoves DEF old
<1>8. CASE Perf!Parse(j)
  <2> DEFINE given == [status |-> Perf!Verdict(j), metrics_of |-> Perf!MetricsOf(j)]
             new == [old EXCEPT !.at = "store", !.ended = given]
  <2>1. /\ old.at = "parse" /\ jobs' = [jobs EXCEPT ![j] = new] /\ yaml' = yaml
        /\ data_file' = (data_file /\ old.kind # "SD")
    BY <1>8, <1>3 DEF Perf!Parse, old
  <2>2. Perf!Verdict(j) \in {"PASS", "FAIL"}
    BY <1>2 DEF Perf!Verdict, Perf!Status, Kinds, old
  <2>3. Perf!MetricsOf(j) \in Nat /\ (~old.mixed => Perf!MetricsOf(j) \in {0, j})
    BY <1>1, <2>1 DEF Perf!MetricsOf, JobSound, old
  <2>4. given \in Endings /\ given.metrics_of = Perf!MetricsOf(j)
    <3>1. given \in Results
      BY <2>2, <2>3 DEF Results
    <3> QED
      BY <3>1 DEF Endings
  <2> HIDE DEF given
  <2>5. /\ new \in JobRecords
        /\ new.at = "store" /\ new.ended = given /\ new.kind = old.kind
        /\ new.mixed = old.mixed /\ new.done = old.done
    BY <1>1, <1>2, <2>4 DEF JobRecords, Stages
  <2> HIDE DEF new
  <2>6. JobSound(j, new, yaml'.of)
    BY <1>4, <2>1, <2>3, <2>4, <2>5 DEF JobSound
  <2> QED
    BY <1>1, <1>4, <2>1, <2>5, <2>6, JobMoves DEF old
<1>9. CASE Perf!Store(j) /\ old.at = "store"
  <2> DEFINE new == [old EXCEPT !.result = old.ended, !.at = "flag"]
  <2>1. jobs' = [jobs EXCEPT ![j] = new] /\ UNCHANGED <<yaml, data_file>>
    BY <1>9, <1>3 DEF Perf!Store, old
  <2>2. /\ new \in JobRecords
        /\ new.at = "flag" /\ new.ended = old.ended /\ new.result = old.ended
        /\ new.kind = old.kind /\ new.mixed = old.mixed /\ new.done = old.done
    BY <1>1, <1>2 DEF JobRecords, Stages
  <2> HIDE DEF new
  <2>3. JobSound(j, new, yaml'.of)
    BY <1>1, <1>4, <1>9, <2>1, <2>2 DEF JobSound
  <2> QED
    BY <1>1, <1>4, <1>9, <2>1, <2>2, <2>3, JobMoves DEF old
<1>10. CASE Perf!Store(j) /\ old.at = "flag"
  <2> DEFINE new == [old EXCEPT !.done = TRUE, !.percent = 4, !.at = "end"]
  <2>1. jobs' = [jobs EXCEPT ![j] = new] /\ UNCHANGED <<yaml, data_file>>
    BY <1>10, <1>3 DEF Perf!Store, Perf!Full, old
  <2>2. /\ new \in JobRecords
        /\ new.at = "end" /\ new.done /\ new.ended = old.ended /\ new.result = old.result
        /\ new.kind = old.kind /\ new.mixed = old.mixed
    <3>1. new \in JobRecords
      <4>1. 4 \in 0..4 /\ TRUE \in BOOLEAN /\ "end" \in Stages
        BY DEF Stages
      <4> QED
        BY <1>1, <1>2, <4>1, Changed
    <3>2. /\ new.at = "end" /\ new.done /\ new.ended = old.ended
          /\ new.result = old.result /\ new.kind = old.kind /\ new.mixed = old.mixed
      BY <1>1 DEF JobRecords
    <3> QED
      BY <3>1, <3>2
  <2> HIDE DEF new
  <2>3. JobSound(j, new, yaml'.of)
    BY <1>1, <1>10, <2>1, <2>2 DEF JobSound
  <2> QED
    BY <1>1, <1>4, <1>10, <2>1, <2>2, <2>3, JobMoves DEF old
<1> QED
  BY <1>5, <1>6, <1>7, <1>8, <1>9, <1>10 DEF Perf!JobAdvances, Perf!Store, old

(* A line of output moves the bar of the job, to 99 % at most.             *)
LEMMA EmitBInv ==
  ASSUME BInv, NEW j \in 1 .. Len(jobs), Perf!EmitProgress(j), UNCHANGED Perf!viewVars
  PROVE  BInv'
<1> PICK p \in 0 .. Perf!MaxEmitted : jobs' = [jobs EXCEPT ![j] = Perf!Progress(@, p)]
  BY DEF Perf!EmitProgress
<1> DEFINE old == jobs[j]
           new == [old EXCEPT !.percent = p, !.real = TRUE]
<1>1. JobSound(j, old, yaml.of) /\ old \in JobRecords /\ yaml.of \in Nat /\ data_file \in BOOLEAN
      /\ jobs \in Seq(JobRecords)
  BY DEF BInv, JobsTogether, DataFileUsed, JobSound
<1>2. old.at = "run" /\ UNCHANGED <<yaml, data_file>> /\ jobs' = [jobs EXCEPT ![j] = new]
  BY <1>1 DEF Perf!EmitProgress, Perf!Progress
<1> HIDE DEF old
<1>3. p \in 0..4 /\ p < Perf!Full
  BY DEF Perf!MaxEmitted, Perf!Full
<1>4. /\ new \in JobRecords /\ new.percent = p /\ new.at = old.at /\ new.kind = old.kind
      /\ new.mixed = old.mixed /\ new.done = old.done /\ new.ended = old.ended
      /\ new.result = old.result
  BY <1>1, <1>3 DEF JobRecords
<1> HIDE DEF new
<1>5. JobSound(j, new, yaml'.of) /\ ~old.done
  BY <1>1, <1>2, <1>3, <1>4 DEF JobSound
<1> QED
  BY <1>1, <1>2, <1>4, <1>5, JobMoves DEF old

(* A function on 1 .. n is a sequence.                                     *)
LEMMA FunctionIsSeq == ASSUME NEW S, NEW n \in Nat, NEW f \in [1 .. n -> S] PROVE f \in Seq(S)
  OBVIOUS

(* The view is opened: a new job, and the marks of those that run with it. *)
LEMMA OpenBInv == ASSUME BInv, Perf!OpenView PROVE BInv'
<1>1. DOMAIN jobs = 1 .. Len(jobs) /\ jobs \in Seq(JobRecords) /\ Len(jobs) \in Nat
      /\ yaml.of \in Nat /\ data_file \in BOOLEAN
  BY DEF BInv, JobsTogether, DataFileUsed
<1> DEFINE new == Len(jobs) + 1
<1> PICK k \in Kinds :
      jobs' = [j \in 1 .. new |->
                 IF j = new THEN Perf!Job(k, Perf!Running(k) # {})
                 ELSE [jobs[j] EXCEPT !.mixed = @ \/ j \in Perf!Running(k)]]
  BY DEF Perf!OpenView, Kinds
<1>2. /\ watched' = new /\ bar' = 0 /\ fake' = 0 /\ report' = Perf!NoResult
      /\ UNCHANGED <<yaml, data_file>>
  BY DEF Perf!OpenView
<1> DEFINE first == Perf!Job(k, Perf!Running(k) # {})
<1>3. /\ first \in JobRecords /\ first.kind = k /\ first.at = "find" /\ first.percent = 0
      /\ ~first.done /\ first.mixed = (Perf!Running(k) # {})
  <2>1. Perf!NoResult \in Endings /\ Perf!Default \in Endings
    <3>1. Perf!NoResult \in Results /\ Perf!Default \in Results
      BY DEF Perf!NoResult, Perf!Default, Results
    <3> QED
      BY <3>1 DEF Endings
  <2> QED
    BY <2>1 DEF Perf!Job, JobRecords, Stages
<1>4. JobSound(new, first, yaml.of)
  BY <1>3 DEF JobSound, Perf!Full
<1> HIDE DEF first
<1>5. ASSUME NEW j \in 1 .. Len(jobs)
      PROVE  /\ jobs'[j] = [jobs[j] EXCEPT !.mixed = @ \/ j \in Perf!Running(k)]
             /\ jobs'[j] \in JobRecords
             /\ jobs'[j].kind = jobs[j].kind /\ jobs'[j].at = jobs[j].at
             /\ jobs'[j].done = jobs[j].done /\ jobs'[j].percent = jobs[j].percent
             /\ jobs'[j].ended = jobs[j].ended /\ jobs'[j].result = jobs[j].result
             /\ jobs'[j].mixed = (jobs[j].mixed \/ j \in Perf!Running(k))
  <2>1. jobs[j] \in JobRecords
    BY <1>1
  <2>2. jobs'[j] = [jobs[j] EXCEPT !.mixed = @ \/ j \in Perf!Running(k)]
    BY <1>1
  <2> DEFINE now == j \in Perf!Running(k)
  <2>3. jobs'[j] = [jobs[j] EXCEPT !.mixed = jobs[j].mixed \/ now] /\ now \in BOOLEAN
    BY <2>1, <2>2 DEF JobRecords
  <2> HIDE DEF now
  <2>4. jobs'[j] \in JobRecords
    <3>1. (jobs[j].mixed \/ now) \in BOOLEAN
      BY <2>1, <2>3 DEF JobRecords
    <3> QED
      <4> DEFINE b == jobs[j].mixed \/ now
      <4>1. jobs'[j] = [jobs[j] EXCEPT !.mixed = b] /\ b \in BOOLEAN
        BY <2>3, <3>1
      <4> HIDE DEF b
      <4> QED
        BY <2>1, <4>1 DEF JobRecords
  <2>5. jobs'[j].mixed = (jobs[j].mixed \/ now)
    BY <2>1, <2>3 DEF JobRecords
  <2> QED
    BY <2>1, <2>2, <2>3, <2>4, <2>5 DEF JobRecords, now
<1>6. jobs'[new] = first /\ jobs' \in Seq(JobRecords) /\ Len(jobs') = new
  <2>1. jobs'[new] = first
    BY <1>1 DEF first
  <2>2. \A j \in 1 .. new : jobs'[j] \in JobRecords
    <3> SUFFICES ASSUME NEW j \in 1 .. new PROVE jobs'[j] \in JobRecords
      OBVIOUS
    <3>1. CASE j = new
      BY <1>3, <2>1, <3>1
    <3>2. CASE j # new
      <4>1. j \in 1 .. Len(jobs)
        BY <1>1, <3>2
      <4> QED
        BY <1>5, <4>1
    <3> QED
      BY <3>1, <3>2
  <2>3. new \in Nat /\ DOMAIN jobs' = 1 .. new /\ jobs' = [j \in 1 .. new |-> jobs'[j]]
    BY <1>1
  <2>4. jobs' \in [1 .. new -> JobRecords]
    BY <2>2, <2>3
  <2> HIDE DEF new
  <2>5. jobs' \in Seq(JobRecords) /\ Len(jobs') = new
    <3>1. Len(jobs') = new
      BY <2>3, <2>4
    <3>2. jobs' \in Seq(JobRecords)
      BY <2>3, <2>4, FunctionIsSeq
    <3> QED
      BY <3>1, <3>2
  <2> QED
    BY <2>1, <2>5
<1>7. \A j \in 1 .. Len(jobs) : JobSound(j, jobs'[j], yaml'.of)
  <2> SUFFICES ASSUME NEW j \in 1 .. Len(jobs) PROVE JobSound(j, jobs'[j], yaml.of)
    BY <1>2
  <2>1. JobSound(j, jobs[j], yaml.of)
    BY DEF BInv, JobsTogether
  <2>2. /\ jobs'[j] \in JobRecords
        /\ jobs'[j].kind = jobs[j].kind /\ jobs'[j].at = jobs[j].at
        /\ jobs'[j].done = jobs[j].done /\ jobs'[j].percent = jobs[j].percent
        /\ jobs'[j].ended = jobs[j].ended /\ jobs'[j].result = jobs[j].result
        /\ (jobs[j].mixed => jobs'[j].mixed)
    BY <1>5, ZenonT(60)
  <2> QED
    BY <2>1, <2>2 DEF JobSound
<1>8. \A j \in 1 .. Len(jobs) : j \in Perf!Running(k) <=> jobs[j].kind = k /\ ~jobs[j].done
  BY <1>1 DEF Perf!Running
<1>0. new = Len(jobs) + 1
  OBVIOUS
<1> HIDE DEF new
<1>9. ASSUME NEW i \in 1 .. new, NEW j \in 1 .. new,
             i # j, jobs'[i].kind = jobs'[j].kind, ~jobs'[i].done, ~jobs'[j].done
      PROVE  jobs'[i].mixed
  <2>1. CASE i = new
    <3>1. j \in 1 .. Len(jobs) /\ jobs[j].kind = k /\ ~jobs[j].done
      BY <1>0, <1>1, <1>3, <1>5, <1>6, <1>9, <2>1
    <3> QED
      BY <1>3, <1>6, <1>8, <2>1, <3>1
  <2>2. CASE i # new /\ j = new
    <3>1. i \in 1 .. Len(jobs)
      BY <1>0, <1>1, <2>2
    <3>2. jobs[i].kind = k /\ ~jobs[i].done
      <4>1. jobs'[i].kind = jobs[i].kind /\ jobs'[i].done = jobs[i].done
        BY <1>5, <3>1
      <4>2. jobs'[j].kind = k
        BY <1>3, <1>6, <2>2
      <4> QED
        BY <1>9, <4>1, <4>2
    <3>3. i \in Perf!Running(k)
      BY <1>8, <3>1, <3>2
    <3> QED
      BY <1>5, <3>1, <3>3
  <2>3. CASE i # new /\ j # new
    <3>1. i \in 1 .. Len(jobs) /\ j \in 1 .. Len(jobs)
      BY <1>0, <1>1, <2>3
    <3>2. jobs[i].kind = jobs[j].kind /\ ~jobs[i].done /\ ~jobs[j].done
      <4>1. jobs'[i].kind = jobs[i].kind /\ jobs'[i].done = jobs[i].done
        BY <1>5, <3>1
      <4>2. jobs'[j].kind = jobs[j].kind /\ jobs'[j].done = jobs[j].done
        BY <1>5, <3>1
      <4> QED
        BY <1>9, <4>1, <4>2
    <3>3. jobs[i].mixed
      BY <1>9, <3>1, <3>2 DEF BInv, JobsTogether
    <3>4. jobs'[i].mixed = (jobs[i].mixed \/ i \in Perf!Running(k))
      BY <1>5, <3>1
    <3> QED
      BY <3>3, <3>4
  <2> QED
    BY <2>1, <2>2, <2>3
<1>10. JobsTogether'
  <2>1. \A j \in 1 .. Len(jobs') : JobSound(j, jobs'[j], yaml'.of)
    <3> SUFFICES ASSUME NEW j \in 1 .. new PROVE JobSound(j, jobs'[j], yaml'.of)
      BY <1>6
    <3>1. CASE j = new
      BY <1>2, <1>4, <1>6, <3>1
    <3>2. CASE j # new
      <4>1. j \in 1 .. Len(jobs)
        BY <1>0, <1>1, <3>2
      <4> QED
        BY <1>7, <4>1
    <3> QED
      BY <3>1, <3>2
  <2> QED
    BY <1>0, <1>1, <1>2, <1>6, <1>9, <2>1 DEF JobsTogether
<1>11. DataFileUsed'
  <2> SUFFICES ASSUME data_file
               PROVE  \E j \in 1 .. Len(jobs') : jobs'[j].kind = "SD" /\ jobs'[j].at \in {"run", "parse"}
    BY <1>0, <1>1, <1>2 DEF DataFileUsed
  <2>1. PICK j \in 1 .. Len(jobs) : jobs[j].kind = "SD" /\ jobs[j].at \in {"run", "parse"}
    BY DEF BInv, DataFileUsed
  <2>2. j \in 1 .. Len(jobs') /\ jobs'[j].kind = "SD" /\ jobs'[j].at \in {"run", "parse"}
    BY <1>0, <1>1, <1>5, <1>6, <2>1
  <2> QED
    BY <2>2
<1>12. ViewSound'
  BY <1>0, <1>1, <1>2, <1>6 DEF ViewSound, Perf!Full, Perf!MaxFake
<1> QED
  BY <1>10, <1>11, <1>12 DEF BInv

(* The timer of the view.                                                  *)
LEMMA UpdateBInv == ASSUME BInv, Perf!Update PROVE BInv'
<1>1. /\ watched \in 1 .. Len(jobs) /\ UNCHANGED <<jobs, yaml, data_file, watched>>
      /\ report' = IF jobs[watched].done THEN jobs[watched].result ELSE report
      /\ report = Perf!NoResult
  BY DEF Perf!Update, BInv, JobsTogether, ViewSound
<1>2. JobSound(watched, jobs[watched], yaml.of) /\ jobs[watched] \in JobRecords
  BY <1>1 DEF BInv, JobsTogether, JobSound
<1> PICK made \in {fake, IF fake < Perf!MaxFake THEN fake + 1 ELSE fake} :
      /\ bar' = IF jobs[watched].done THEN Perf!Full ELSE Perf!Displayed(watched, made)
      /\ fake' = IF jobs[watched].kind = "MEM" /\ ~jobs[watched].done /\ ~jobs[watched].real
                 THEN made ELSE fake
  BY DEF Perf!Update
<1>3. fake \in 0..2 /\ made \in 0..2 /\ Perf!Full = 4 /\ Perf!MaxFake = 2
  BY DEF BInv, ViewSound, Perf!MaxFake, Perf!Full
<1>4. jobs[watched].percent \in 0..4
  BY <1>2 DEF JobRecords
<1>5. Perf!Displayed(watched, made) \in 0..4
      /\ (Perf!Displayed(watched, made) = 4 => jobs[watched].percent = 4)
  BY <1>3, <1>4 DEF Perf!Displayed
<1>6. bar' \in 0..4 /\ fake' \in 0..2
  BY <1>3, <1>5
<1>7. bar' = 4 => jobs[watched].at \notin {"find", "run"}
  <2>1. jobs[watched].done => jobs[watched].at = "end"
    BY <1>2 DEF JobSound
  <2>2. jobs[watched].at \in {"find", "run"} => jobs[watched].percent < 4
    BY <1>2, <1>3 DEF JobSound
  <2> QED
    BY <1>3, <1>4, <1>5, <2>1, <2>2
<1>8. fake' > 0 => jobs[watched].kind = "MEM"
  BY <1>1, <1>3 DEF BInv, ViewSound
<1>9. report' # Perf!NoResult => jobs[watched].done /\ report' = jobs[watched].ended
  BY <1>1, <1>2 DEF JobSound
<1>10. ViewSound'
  BY <1>1, <1>3, <1>6, <1>7, <1>8, <1>9 DEF ViewSound, Perf!Full, Perf!MaxFake
<1>11. JobsTogether' /\ DataFileUsed'
  BY <1>1 DEF BInv, JobsTogether, DataFileUsed
<1> QED
  BY <1>10, <1>11 DEF BInv

(* The view is closed; its job goes on.                                    *)
LEMMA CloseBInv == ASSUME BInv, Perf!CloseView PROVE BInv'
<1> DEFINE old == jobs[watched]
           new == [old EXCEPT !.percent = 0, !.real = FALSE]
<1>1. /\ watched \in 1 .. Len(jobs) /\ jobs \in Seq(JobRecords)
      /\ watched' = 0 /\ bar' = 0 /\ fake' = 0 /\ UNCHANGED <<yaml, data_file>>
  BY DEF Perf!CloseView, BInv, JobsTogether, ViewSound
<1>2. JobSound(watched, old, yaml.of) /\ old \in JobRecords
  BY <1>1 DEF BInv, JobsTogether, JobSound
<1>3. jobs' = [jobs EXCEPT ![watched] = new]
  BY <1>1 DEF Perf!CloseView
<1> HIDE DEF old
<1>4. /\ new \in JobRecords /\ new.percent = 0 /\ new.at = old.at /\ new.kind = old.kind
      /\ new.mixed = old.mixed /\ new.done = old.done /\ new.ended = old.ended
      /\ new.result = old.result
  <2>1. new \in JobRecords
    <3>1. 0 \in 0..4 /\ FALSE \in BOOLEAN /\ "end" \in Stages /\ old.ended \in Endings
      BY <1>2 DEF Stages, JobRecords
    <3> QED
      BY <1>2, <3>1, Changed
  <2>2. /\ new.percent = 0 /\ new.at = old.at /\ new.kind = old.kind
        /\ new.mixed = old.mixed /\ new.done = old.done /\ new.ended = old.ended
        /\ new.result = old.result
    BY <1>2 DEF JobRecords
  <2> QED
    BY <2>1, <2>2
<1> HIDE DEF new
<1>5. JobSound(watched, new, yaml.of)
  BY <1>2, <1>4 DEF JobSound, Perf!Full
<1>6. /\ jobs' \in Seq(JobRecords) /\ Len(jobs') = Len(jobs) /\ jobs'[watched] = new
      /\ \A i \in 1 .. Len(jobs) : i # watched => jobs'[i] = jobs[i]
  BY <1>1, <1>3, <1>4
<1>7. \A i \in 1 .. Len(jobs) :
        /\ jobs'[i].kind = jobs[i].kind /\ jobs'[i].at = jobs[i].at
        /\ jobs'[i].done = jobs[i].done /\ jobs'[i].mixed = jobs[i].mixed
  BY <1>4, <1>6 DEF old
<1>8. \A i \in 1 .. Len(jobs) : JobSound(i, jobs'[i], yaml.of)
  BY <1>5, <1>6 DEF BInv, JobsTogether
<1>9. JobsTogether'
  BY <1>1, <1>6, <1>7, <1>8 DEF BInv, JobsTogether
<1>10. DataFileUsed'
  BY <1>1, <1>6, <1>7 DEF BInv, DataFileUsed
<1>11. ViewSound'
  <2>1. 0 \in 0 .. Len(jobs')
    BY <1>1, <1>6
  <2> QED
    BY <1>1, <2>1 DEF ViewSound, Perf!MaxFake, Perf!Full
<1> QED
  BY <1>9, <1>10, <1>11 DEF BInv

(* Every step keeps it.                                                    *)
LEMMA NextBInv == BInv /\ [JobNext]_jobVars => BInv'
<1> SUFFICES ASSUME BInv, [JobNext]_jobVars PROVE BInv'
  OBVIOUS
<1>1. DOMAIN jobs = 1 .. Len(jobs)
  BY DEF BInv, JobsTogether
<1>2. CASE Perf!PerfNext
  <2>1. CASE \E j \in DOMAIN jobs : Perf!JobAdvances(j) /\ UNCHANGED Perf!viewVars
    BY <1>1, <2>1, ThreadBInv
  <2>2. CASE \E j \in DOMAIN jobs : Perf!EmitProgress(j) /\ UNCHANGED Perf!viewVars
    BY <1>1, <2>2, EmitBInv
  <2> QED
    BY <1>2, <2>1, <2>2, OpenBInv, UpdateBInv, CloseBInv DEF Perf!PerfNext, Perf!PerfJob
<1>3. CASE UNCHANGED perf
  <2>1. UNCHANGED <<jobs, yaml, data_file, watched, bar, fake, report>>
    BY <1>3 DEF perf
  <2> QED
    BY <2>1 DEF BInv, JobsTogether, DataFileUsed, ViewSound
<1> QED
  BY <1>2, <1>3 DEF JobNext, jobVars, RunCommand, TestPerformance, TestAudio, MakeSounds,
     ReadJack, TestCamera, BakePi, TestDisplay, WriteLogs, KeepConfig

(* PerfCommandView and the threads of its jobs, for every order in which   *)
(* views are opened and closed and every end of a tool: what a view shows  *)
(* and records is the result of the job it started; metrics are the job's  *)
(* own unless another ran at the same time; fio's file is gone when the    *)
(* last of its jobs is.                                                    *)
THEOREM JobsThm == JobSpec => []JobsInv
<1>1. JobInit => BInv
  BY InitBInv DEF JobInit
<1>2. BInv => JobsInv
  BY BInvGivesJobsInv
<1> QED
  BY <1>1, <1>2, NextBInv, PTL DEF JobSpec

-----------------------------------------------------------------------------
(* HeadphoneSwitch.                                                        *)

(* A node that has gone is not the driver's again: nodes are numbered as   *)
(* they come, and none that is open or the driver's is yet to come.        *)
JackInv ==
  /\ jack_nodes \in Nat /\ jack_node \in 0 .. jack_nodes /\ jack_fd \in 0 .. jack_nodes
  /\ Jack!JackReleased

(* The page is closed and the device as well.                              *)
LEMMA InitJack == ASSUME Jack!JackInit PROVE JackInv
  BY DEF Jack!JackInit, Jack!JackReleased, JackInv

(* Every step keeps it.                                                    *)
LEMMA NextJack == JackInv /\ [JobNext]_jobVars => JackInv'
<1> SUFFICES ASSUME JackInv, [JobNext]_jobVars PROVE JackInv'
  OBVIOUS
<1> USE DEF JackInv, Jack!JackReleased
<1>1. ASSUME Jack!OpenJackPage \/ Jack!PollJack \/ Jack!PollLosingJack PROVE JackInv'
  <2>1. jack_page' /\ (Jack!Poll \/ Jack!PollLosing)
    BY <1>1 DEF Jack!OpenJackPage, Jack!PollJack, Jack!PollLosingJack
  <2>2. CASE Jack!Poll
    BY <2>1, <2>2 DEF Jack!Poll, Jack!ReadFd, Jack!Shown
  <2>3. CASE Jack!PollLosing
    BY <2>1, <2>3 DEF Jack!PollLosing, Jack!Rediscovered
  <2> QED
    BY <2>1, <2>2, <2>3
<1>2. ASSUME Jack!CloseJackPage \/ Jack!DriverMoves \/ Jack!PlugMoves PROVE JackInv'
  BY <1>2 DEF Jack!CloseJackPage, Jack!DriverMoves, Jack!PlugMoves
<1>3. CASE Jack!JackNext
  BY <1>1, <1>2, <1>3 DEF Jack!JackNext
<1>4. CASE UNCHANGED jack
  BY <1>4 DEF jack
<1> QED
  BY <1>3, <1>4 DEF JobNext, jobVars, RunCommand, TestPerformance, TestAudio, MakeSounds,
     ReadJack, TestCamera, BakePi, TestDisplay, WriteLogs, KeepConfig

-----------------------------------------------------------------------------
(* UiSounds.                                                               *)

Quiet   == Sounds!NoClip
Heard   == {Clips[i] : i \in DOMAIN Clips} \ {Quiet}
Values  == BOOLEAN \cup Nat \cup [frames : Nat, rate : Nat]
Device  == [active : BOOLEAN, audio : [frames : Nat, rate : Nat], offset : Nat, rate : Nat]
Entries == {"active", "audio", "offset", "rate"} \X Values
Set(field, value) == Sounds!Write(field, value)

(* What a caller has still to do: to stop the sound, from some point on,   *)
(* or the device with it; then to take another device; then to begin a     *)
(* sound.                                                                  *)
StopRest  == {<<Set("active", FALSE), Set("offset", 0), Set("audio", Quiet)>>,
              <<Set("offset", 0), Set("audio", Quiet)>>,
              <<Set("audio", Quiet)>>}
Begin(c)  == <<Set("active", FALSE), Set("audio", c), Set("offset", 0), Set("active", TRUE)>>
Following == {<<>>} \cup {<<Set("rate", c.rate)>> : c \in Heard}
             \cup IF sfx_enabled THEN {<<Set("rate", c.rate)>> \o Begin(c) : c \in Heard} ELSE {}

(* The state in which it meets each of them.                               *)
NothingToDo == sfx_writes = <<>> /\ (sfx.active => sfx_enabled /\ sfx.audio # Quiet)
Stopping ==
  \E t \in StopRest :
    /\ \/ sfx_writes = t
       \/ \E r \in Following : sfx_writes = t \o (<<Set("rate", 0)>> \o r)
    /\ Head(t) # Set("active", FALSE) => ~sfx.active
Going ==
  /\ \E r \in Following : sfx_writes = <<Set("rate", 0)>> \o r
  /\ ~sfx.active /\ sfx.audio = Quiet
Coming == sfx_writes \in Following /\ ~sfx.active /\ sfx.audio = Quiet /\ sfx.rate = 0
Beginning ==
  /\ sfx_enabled
  /\ \E c \in Heard :
       /\ sfx.rate = c.rate
       /\ \/ sfx_writes = Begin(c)
          \/ /\ sfx_writes = <<Set("audio", c), Set("offset", 0), Set("active", TRUE)>>
             /\ ~sfx.active
          \/ sfx_writes = <<Set("offset", 0), Set("active", TRUE)>> /\ sfx.audio = c
          \/ sfx_writes = <<Set("active", TRUE)>> /\ sfx.audio = c

(* A sound that is loaded has the rate of the device, for the callers and  *)
(* for the callback, which runs only while there is a device.              *)
DeviceSound ==
  /\ sfx \in Device
  /\ sfx.audio # Quiet => sfx.audio.rate = sfx.rate
CallbackSound ==
  /\ sfx_callback \in [at : {"idle", "audio", "offset", "store", "end"},
                       sound : [frames : Nat, rate : Nat], from : Nat, to : Nat]
  /\ sfx_callback.at # "idle" => sfx.rate # 0
  /\ sfx_callback.at \in {"offset", "store"} => sfx_callback.sound.rate = sfx.rate
  /\ sfx_callback.at = "store" =>
       sfx_callback.from < sfx_callback.to /\ sfx_callback.to <= sfx_callback.sound.frames

(* The inductive invariant of UiSounds.                                    *)
SoundsInv ==
  /\ DeviceSound /\ CallbackSound /\ sfx_enabled \in BOOLEAN
  /\ NothingToDo \/ Stopping \/ Going \/ Coming \/ Beginning

(* The writes are entries, and so are the lists of them.                   *)
LEMMA WritesTyped ==
  /\ Quiet \in [frames : Nat, rate : Nat] /\ Heard \subseteq [frames : Nat, rate : Nat]
  /\ Quiet \notin Heard
  /\ \A b \in BOOLEAN : Set("active", b) \in Entries
  /\ \A n \in Nat : Set("offset", n) \in Entries /\ Set("rate", n) \in Entries
  /\ \A c \in [frames : Nat, rate : Nat] : Set("audio", c) \in Entries
  /\ \A c \in Heard : Begin(c) \in Seq(Entries) /\ c.rate \in Nat
  /\ Following \subseteq Seq(Entries)
<1>1. Quiet \in [frames : Nat, rate : Nat]
  BY DEF Quiet, Sounds!NoClip
<1>2. Heard \subseteq [frames : Nat, rate : Nat] /\ Quiet \notin Heard
  <2>1. \A i \in DOMAIN Clips : Clips[i] \in [frames : Nat, rate : Nat]
    <3>1. \A S : \A q \in Seq(S) : \A i \in DOMAIN q : q[i] \in S
      OBVIOUS
    <3> QED
      BY <3>1, JobSounds
  <2> HIDE DEF Quiet
  <2> QED
    BY <2>1 DEF Heard
<1>3. /\ \A b \in BOOLEAN : Set("active", b) \in Entries
      /\ \A n \in Nat : Set("offset", n) \in Entries /\ Set("rate", n) \in Entries
      /\ \A c \in [frames : Nat, rate : Nat] : Set("audio", c) \in Entries
  BY DEF Set, Sounds!Write, Entries, Values
<1>4. ASSUME NEW c \in Heard PROVE Begin(c) \in Seq(Entries) /\ c.rate \in Nat
  <2>1. c \in [frames : Nat, rate : Nat]
    BY <1>2
  <2>2. /\ Set("active", FALSE) \in Entries /\ Set("audio", c) \in Entries
        /\ Set("offset", 0) \in Entries /\ Set("active", TRUE) \in Entries
    BY <1>3, <2>1
  <2>3. \A S : \A u, v, w, x \in S : <<u, v, w, x>> \in Seq(S)
    OBVIOUS
  <2> QED
    BY <2>1, <2>2, <2>3 DEF Begin
<1>5. ASSUME NEW r \in Following PROVE r \in Seq(Entries)
  <2>1. CASE r = <<>>
    BY <2>1
  <2>2. CASE \E c \in Heard : r = <<Set("rate", c.rate)>>
    BY <1>3, <1>4, <2>2
  <2>3. CASE \E c \in Heard : r = <<Set("rate", c.rate)>> \o Begin(c)
    <3> PICK c \in Heard : r = <<Set("rate", c.rate)>> \o Begin(c)
      BY <2>3
    <3>1. <<Set("rate", c.rate)>> \in Seq(Entries) /\ Begin(c) \in Seq(Entries)
      BY <1>3, <1>4
    <3> QED
      BY <3>1
  <2> QED
    BY <2>1, <2>2, <2>3 DEF Following
<1> QED
  BY <1>1, <1>2, <1>3, <1>4, <1>5

(* A write is told by its field and its value.                             *)
LEMMA WritesDiffer ==
  ASSUME NEW f, NEW g, NEW v, NEW w
  PROVE  /\ Set(f, v) = Set(g, w) <=> f = g /\ v = w
         /\ Set(f, v)[1] = f /\ Set(f, v)[2] = v
  BY DEF Set, Sounds!Write

(* The head and the tail of a short list.                                  *)
LEMMA Unstitched ==
  /\ \A a \in Entries : Head(<<a>>) = a /\ Tail(<<a>>) = <<>> /\ <<a>> # <<>>
  /\ \A a, b \in Entries : Head(<<a, b>>) = a /\ Tail(<<a, b>>) = <<b>> /\ <<a, b>> # <<>>
  /\ \A a, b, c \in Entries :
       Head(<<a, b, c>>) = a /\ Tail(<<a, b, c>>) = <<b, c>> /\ <<a, b, c>> # <<>>
  /\ \A a, b, c, d \in Entries :
       Head(<<a, b, c, d>>) = a /\ Tail(<<a, b, c, d>>) = <<b, c, d>> /\ <<a, b, c, d>> # <<>>
<1>1. \A a \in Entries : Head(<<a>>) = a /\ Tail(<<a>>) = <<>> /\ <<a>> # <<>>
  OBVIOUS
<1>2. \A a, b \in Entries : Head(<<a, b>>) = a /\ Tail(<<a, b>>) = <<b>> /\ <<a, b>> # <<>>
  OBVIOUS
<1>3. \A a, b, c \in Entries :
        Head(<<a, b, c>>) = a /\ Tail(<<a, b, c>>) = <<b, c>> /\ <<a, b, c>> # <<>>
  OBVIOUS
<1>4. \A a, b, c, d \in Entries :
        Head(<<a, b, c, d>>) = a /\ Tail(<<a, b, c, d>>) = <<b, c, d>> /\ <<a, b, c, d>> # <<>>
  OBVIOUS
<1> QED
  BY <1>1, <1>2, <1>3, <1>4

(* The head and the tail of a list that is stitched from others.           *)
LEMMA Stitched ==
  ASSUME NEW r \in Seq(Entries)
  PROVE  /\ \A a \in Entries :
              Head(<<a>> \o r) = a /\ Tail(<<a>> \o r) = r /\ <<a>> \o r # <<>>
         /\ \A a, b \in Entries :
              /\ Head(<<a, b>> \o r) = a /\ Tail(<<a, b>> \o r) = <<b>> \o r
              /\ <<a, b>> \o r # <<>>
         /\ \A a, b, c \in Entries :
              /\ Head(<<a, b, c>> \o r) = a /\ Tail(<<a, b, c>> \o r) = <<b, c>> \o r
              /\ <<a, b, c>> \o r # <<>>
<1>1. ASSUME NEW a \in Entries
      PROVE  Head(<<a>> \o r) = a /\ Tail(<<a>> \o r) = r /\ <<a>> \o r # <<>>
  OBVIOUS
<1>2. ASSUME NEW a \in Entries, NEW b \in Entries
      PROVE  /\ Head(<<a, b>> \o r) = a /\ Tail(<<a, b>> \o r) = <<b>> \o r
             /\ <<a, b>> \o r # <<>>
  OBVIOUS
<1>3. ASSUME NEW a \in Entries, NEW b \in Entries, NEW c \in Entries
      PROVE  /\ Head(<<a, b, c>> \o r) = a /\ Tail(<<a, b, c>> \o r) = <<b, c>> \o r
             /\ <<a, b, c>> \o r # <<>>
  OBVIOUS
<1> QED
  BY <1>1, <1>2, <1>3

(* The writes that are told apart below.                                   *)
LEMMA WritesApart ==
  /\ Set("offset", 0) # Set("active", FALSE)
  /\ Set("audio", Quiet) # Set("active", FALSE)
  /\ Set("audio", Quiet) # Set("offset", 0)
  BY DEF Set, Sounds!Write

(* What is done first when a sound is stopped, and what is left then.      *)
LEMMA StopRestFirst ==
  ASSUME NEW t \in StopRest, NEW w,
         \/ w = t
         \/ \E r \in Following : w = t \o (<<Set("rate", 0)>> \o r)
  PROVE  /\ w # <<>> /\ Head(w) = Head(t)
         /\ \/ /\ Head(t) = Set("active", FALSE)
               /\ \E u \in StopRest \ {t} :
                    /\ Head(u) # Set("active", FALSE)
                    /\ \/ Tail(w) = u
                       \/ \E r \in Following : Tail(w) = u \o (<<Set("rate", 0)>> \o r)
            \/ /\ Head(t) = Set("offset", 0)
               /\ \E u \in StopRest \ {t} :
                    /\ Head(u) # Set("active", FALSE)
                    /\ \/ Tail(w) = u
                       \/ \E r \in Following : Tail(w) = u \o (<<Set("rate", 0)>> \o r)
            \/ /\ Head(t) = Set("audio", Quiet)
               /\ \/ Tail(w) = <<>>
                  \/ \E r \in Following : Tail(w) = <<Set("rate", 0)>> \o r
<1> DEFINE a == Set("active", FALSE)  o == Set("offset", 0)  n == Set("audio", Quiet)
           g == Set("rate", 0)
<1>1. a \in Entries /\ o \in Entries /\ n \in Entries /\ g \in Entries
  BY WritesTyped
<1>2. a # o /\ a # n
  BY DEF Set, Sounds!Write
<1>3. StopRest = {<<a, o, n>>, <<o, n>>, <<n>>}
  BY DEF StopRest
<1>4. \A r \in Following : <<g>> \o r \in Seq(Entries)
  BY <1>1, WritesTyped
<1> HIDE DEF a, o, n, g
<1>5. CASE t = <<a, o, n>>
  <2>1. Head(t) = a /\ <<o, n>> \in StopRest \ {t} /\ Head(<<o, n>>) # a
    BY <1>2, <1>3, <1>5
  <2>2. CASE w = t
    <3>1. w # <<>> /\ Head(w) = a /\ Tail(w) = <<o, n>>
      BY <1>5, <2>2
    <3> QED
      BY <2>1, <3>1 DEF a
  <2>3. CASE \E r \in Following : w = t \o (<<g>> \o r)
    <3> PICK r \in Following : w = t \o (<<g>> \o r)
      BY <2>3
    <3>1. w # <<>> /\ Head(w) = a /\ Tail(w) = <<o, n>> \o (<<g>> \o r)
      <4> DEFINE q == <<g>> \o r
      <4>1. q \in Seq(Entries) /\ w = <<a, o, n>> \o q
        BY <1>4, <1>5
      <4> HIDE DEF q
      <4>2. /\ <<a, o, n>> \o q # <<>> /\ Head(<<a, o, n>> \o q) = a
            /\ Tail(<<a, o, n>> \o q) = <<o, n>> \o q
        BY <1>1, <4>1
      <4> QED
        BY <4>1, <4>2 DEF q
    <3> QED
      BY <2>1, <3>1 DEF a, g
  <2> QED
    BY <2>2, <2>3 DEF g
<1>6. CASE t = <<o, n>>
  <2>1. Head(t) = o /\ <<n>> \in StopRest \ {t} /\ Head(<<n>>) # a
    BY <1>2, <1>3, <1>6
  <2>2. CASE w = t
    <3>1. w # <<>> /\ Head(w) = o /\ Tail(w) = <<n>>
      BY <1>6, <2>2
    <3> QED
      BY <2>1, <3>1 DEF a, o
  <2>3. CASE \E r \in Following : w = t \o (<<g>> \o r)
    <3> PICK r \in Following : w = t \o (<<g>> \o r)
      BY <2>3
    <3>1. w # <<>> /\ Head(w) = o /\ Tail(w) = <<n>> \o (<<g>> \o r)
      <4> DEFINE q == <<g>> \o r
      <4>1. q \in Seq(Entries) /\ w = <<o, n>> \o q
        BY <1>4, <1>6
      <4> HIDE DEF q
      <4>2. /\ <<o, n>> \o q # <<>> /\ Head(<<o, n>> \o q) = o
            /\ Tail(<<o, n>> \o q) = <<n>> \o q
        <5>1. ASSUME NEW z \in Seq(Entries), NEW x \in Entries, NEW y \in Entries
              PROVE  /\ <<x, y>> \o z # <<>> /\ Head(<<x, y>> \o z) = x
                     /\ Tail(<<x, y>> \o z) = <<y>> \o z
          OBVIOUS
        <5> QED
          BY <1>1, <4>1, <5>1
      <4> QED
        BY <4>1, <4>2 DEF q
    <3> QED
      BY <2>1, <3>1 DEF a, o, g
  <2> QED
    BY <2>2, <2>3 DEF g
<1>7. CASE t = <<n>>
  <2>1. Head(t) = n
    BY <1>7
  <2>2. CASE w = t
    <3>1. w # <<>> /\ Head(w) = n /\ Tail(w) = <<>>
      BY <1>7, <2>2
    <3> QED
      BY <2>1, <3>1 DEF n
  <2>3. CASE \E r \in Following : w = t \o (<<g>> \o r)
    <3> PICK r \in Following : w = t \o (<<g>> \o r)
      BY <2>3
    <3>1. w # <<>> /\ Head(w) = n /\ Tail(w) = <<g>> \o r
      BY <1>1, <1>4, <1>7, Stitched
    <3> QED
      BY <2>1, <3>1 DEF n, g
  <2> QED
    BY <2>2, <2>3 DEF g
<1> QED
  BY <1>3, <1>5, <1>6, <1>7

(* Its promises are among what it keeps.                                   *)
LEMMA SoundsInvGivesBounds == ASSUME SoundsInv PROVE Sounds!SoundsInBounds
<1>1. sfx_callback.at = "store" =>
       /\ sfx_callback.from < sfx_callback.to
       /\ sfx_callback.to <= sfx_callback.sound.frames
       /\ sfx.rate = sfx_callback.sound.rate
  BY DEF SoundsInv, CallbackSound
<1>2. ASSUME sfx_writes = <<>>, sfx.active
      PROVE  sfx_enabled /\ sfx.audio # Quiet /\ sfx.audio.rate = sfx.rate
  <2>1. ~Stopping
    BY <1>2, StopRestFirst DEF Stopping
  <2>2. ~Going
    <3>1. \A r \in Following : <<Set("rate", 0)>> \o r # <<>>
      BY WritesTyped, Stitched
    <3> QED
      BY <1>2, <3>1 DEF Going
  <2>3. ~Beginning
    BY <1>2 DEF Beginning, Begin
  <2> QED
    BY <1>2, <2>1, <2>2, <2>3 DEF SoundsInv, NothingToDo, Coming, DeviceSound
<1> QED
  BY <1>1, <1>2 DEF Sounds!SoundsInBounds, Quiet

(* No sound at first.                                                      *)
LEMMA InitSounds == ASSUME Sounds!SfxInit PROVE SoundsInv
  BY WritesTyped DEF Sounds!SfxInit, SoundsInv, DeviceSound, CallbackSound, NothingToDo, Device,
     Sounds!CallbackIdle, Quiet

(* One write of a caller to the device.                                    *)
LEMMA WriteDone ==
  ASSUME SoundsInv, Sounds!CallerWrites, NEW field, NEW value,
         Head(sfx_writes) = Set(field, value)
  PROVE  /\ sfx_writes # <<>> /\ sfx' = [sfx EXCEPT ![field] = value]
         /\ sfx_writes' = Tail(sfx_writes)
         /\ UNCHANGED <<sfx_enabled, sfx_callback>>
         /\ field = "active" /\ value \in BOOLEAN =>
              sfx' \in Device /\ sfx'.active = value /\ sfx'.audio = sfx.audio /\ sfx'.rate = sfx.rate
         /\ field = "offset" /\ value \in Nat =>
              sfx' \in Device /\ sfx'.active = sfx.active /\ sfx'.audio = sfx.audio /\ sfx'.rate = sfx.rate
         /\ field = "audio" /\ value \in [frames : Nat, rate : Nat] =>
              sfx' \in Device /\ sfx'.active = sfx.active /\ sfx'.audio = value /\ sfx'.rate = sfx.rate
         /\ field = "rate" /\ value \in Nat =>
              sfx' \in Device /\ sfx'.active = sfx.active /\ sfx'.audio = sfx.audio /\ sfx'.rate = value
<1>1. /\ sfx_writes # <<>> /\ sfx' = [sfx EXCEPT ![field] = value]
      /\ sfx_writes' = Tail(sfx_writes)
      /\ UNCHANGED <<sfx_enabled, sfx_callback>>
  <2>1. Head(sfx_writes)[1] = field /\ Head(sfx_writes)[2] = value
    BY WritesDiffer
  <2> QED
    BY <2>1 DEF Sounds!CallerWrites
<1>2. sfx \in Device
  BY DEF SoundsInv, DeviceSound
<1>3. CASE field = "active" /\ value \in BOOLEAN
  BY <1>1, <1>2, <1>3 DEF Device
<1>4. CASE field = "offset" /\ value \in Nat
  BY <1>1, <1>2, <1>4 DEF Device
<1>5. CASE field = "audio" /\ value \in [frames : Nat, rate : Nat]
  BY <1>1, <1>2, <1>5 DEF Device
<1>6. CASE field = "rate" /\ value \in Nat
  BY <1>1, <1>2, <1>6 DEF Device
<1> QED
  BY <1>1, <1>3, <1>4, <1>5, <1>6

(* The caller's next write, whatever it is at.                             *)
LEMMA WritesSounds == ASSUME SoundsInv, Sounds!CallerWrites PROVE SoundsInv'
<1> USE DEF SoundsInv
<1>0. sfx_writes # <<>>
  BY DEF Sounds!CallerWrites
<1>1. CASE Stopping
  <2> PICK t \in StopRest :
        /\ \/ sfx_writes = t
           \/ \E r \in Following : sfx_writes = t \o (<<Set("rate", 0)>> \o r)
        /\ Head(t) # Set("active", FALSE) => ~sfx.active
    BY <1>1 DEF Stopping
  <2>1. Head(sfx_writes) = Head(t)
    BY StopRestFirst
  <2>2. UNCHANGED <<sfx_enabled, sfx_callback>> /\ sfx_writes' = Tail(sfx_writes)
    BY DEF Sounds!CallerWrites
  <2>3. Following' = Following
    BY <2>2 DEF Following
  <2>4. CASE Head(t) \in {Set("active", FALSE), Set("offset", 0)}
    <3>1. sfx' \in Device /\ sfx'.audio = sfx.audio /\ sfx'.rate = sfx.rate /\ ~sfx'.active
      <4>1. CASE Head(t) = Set("active", FALSE)
        BY <2>1, <4>1, WriteDone
      <4>2. CASE Head(t) = Set("offset", 0)
        <5>1. ~sfx.active
          BY <4>2, WritesApart
        <5> QED
          BY <2>1, <4>2, <5>1, WriteDone
      <4> QED
        BY <2>4, <4>1, <4>2
    <3>2. PICK u \in StopRest :
            /\ Head(u) # Set("active", FALSE)
            /\ \/ Tail(sfx_writes) = u
               \/ \E r \in Following : Tail(sfx_writes) = u \o (<<Set("rate", 0)>> \o r)
      <4>1. Head(t) # Set("audio", Quiet)
        BY <2>4, WritesApart
      <4> QED
        BY <4>1, StopRestFirst, ZenonT(60)
    <3>3. Stopping'
      BY <2>2, <2>3, <3>1, <3>2 DEF Stopping
    <3>4. DeviceSound' /\ CallbackSound'
      BY <2>2, <3>1 DEF DeviceSound, CallbackSound
    <3> QED
      BY <2>2, <3>3, <3>4
  <2>5. CASE Head(t) = Set("audio", Quiet)
    <3>1. ~sfx.active
      BY <2>5, WritesApart
    <3>2. sfx' \in Device /\ sfx'.audio = Quiet /\ sfx'.rate = sfx.rate /\ ~sfx'.active
      BY <2>1, <2>5, <3>1, WriteDone, WritesTyped
    <3>3. \/ Tail(sfx_writes) = <<>>
          \/ \E r \in Following : Tail(sfx_writes) = <<Set("rate", 0)>> \o r
      <4>1. Head(t) # Set("active", FALSE) /\ Head(t) # Set("offset", 0)
        BY <2>5, WritesApart
      <4> QED
        BY <4>1, StopRestFirst
    <3>4. NothingToDo' \/ Going'
      BY <2>2, <2>3, <3>2, <3>3 DEF NothingToDo, Going
    <3>5. DeviceSound' /\ CallbackSound'
      BY <2>2, <3>2 DEF DeviceSound, CallbackSound
    <3> QED
      BY <2>2, <3>4, <3>5
  <2> QED
    BY <2>4, <2>5, StopRestFirst
<1>2. CASE Going
  <2> PICK r \in Following : sfx_writes = <<Set("rate", 0)>> \o r
    BY <1>2 DEF Going
  <2>1. Head(sfx_writes) = Set("rate", 0) /\ Tail(sfx_writes) = r
    BY WritesTyped, Stitched
  <2>2. /\ sfx' \in Device /\ sfx'.audio = Quiet /\ sfx'.rate = 0 /\ ~sfx'.active
        /\ UNCHANGED <<sfx_enabled, sfx_callback>> /\ sfx_writes' = r
    BY <1>2, <2>1, WriteDone DEF Going
  <2>3. sfx_callback.at = "idle"
    BY <2>1 DEF Sounds!CallerWrites, Set
  <2>4. Following' = Following
    BY <2>2 DEF Following
  <2>5. DeviceSound' /\ CallbackSound'
    BY <2>2, <2>3 DEF DeviceSound, CallbackSound
  <2>6. Coming'
    BY <2>2, <2>4 DEF Coming
  <2> QED
    BY <2>2, <2>5, <2>6
<1>3. CASE Coming
  <2>1. PICK c \in Heard :
          \/ sfx_writes = <<Set("rate", c.rate)>>
          \/ sfx_enabled /\ sfx_writes = <<Set("rate", c.rate)>> \o Begin(c)
    BY <1>0, <1>3 DEF Coming, Following
  <2>2. Begin(c) \in Seq(Entries) /\ Set("rate", c.rate) \in Entries /\ c.rate \in Nat
    BY WritesTyped
  <2>3. /\ Head(sfx_writes) = Set("rate", c.rate)
        /\ \/ Tail(sfx_writes) = <<>>
           \/ sfx_enabled /\ Tail(sfx_writes) = Begin(c)
    <3>1. CASE sfx_writes = <<Set("rate", c.rate)>>
      BY <2>2, <3>1, Unstitched
    <3>2. CASE sfx_enabled /\ sfx_writes = <<Set("rate", c.rate)>> \o Begin(c)
      BY <2>2, <3>2, Stitched
    <3> QED
      BY <2>1, <3>1, <3>2
  <2>4. /\ sfx' \in Device /\ sfx'.audio = Quiet /\ sfx'.rate = c.rate /\ ~sfx'.active
        /\ UNCHANGED <<sfx_enabled, sfx_callback>> /\ sfx_writes' = Tail(sfx_writes)
    BY <1>3, <2>2, <2>3, WriteDone DEF Coming
  <2>5. sfx_callback.at = "idle"
    BY <1>3 DEF Coming, CallbackSound
  <2>6. DeviceSound' /\ CallbackSound'
    BY <2>4, <2>5 DEF DeviceSound, CallbackSound
  <2>7. NothingToDo' \/ Beginning'
    BY <2>3, <2>4 DEF NothingToDo, Beginning
  <2> QED
    BY <2>4, <2>6, <2>7
<1>4. CASE Beginning
  <2> PICK c \in Heard :
        /\ sfx.rate = c.rate
        /\ \/ sfx_writes = Begin(c)
           \/ /\ sfx_writes = <<Set("audio", c), Set("offset", 0), Set("active", TRUE)>>
              /\ ~sfx.active
           \/ sfx_writes = <<Set("offset", 0), Set("active", TRUE)>> /\ sfx.audio = c
           \/ sfx_writes = <<Set("active", TRUE)>> /\ sfx.audio = c
    BY <1>4 DEF Beginning
  <2>1. c \in [frames : Nat, rate : Nat] /\ c # Quiet
        /\ Set("active", TRUE) \in Entries /\ Set("active", FALSE) \in Entries
        /\ Set("offset", 0) \in Entries /\ Set("audio", c) \in Entries
    BY WritesTyped
  <2>2. sfx_enabled /\ UNCHANGED <<sfx_enabled, sfx_callback>> /\ sfx_writes' = Tail(sfx_writes)
    BY <1>4 DEF Beginning, Sounds!CallerWrites
  <2>3. CASE sfx_writes = Begin(c)
    <3>1. Head(sfx_writes) = Set("active", FALSE)
          /\ Tail(sfx_writes) = <<Set("audio", c), Set("offset", 0), Set("active", TRUE)>>
      <4> DEFINE u == Set("active", FALSE)  v == Set("audio", c)
                 w == Set("offset", 0)      x == Set("active", TRUE)
      <4>1. sfx_writes = <<u, v, w, x>> /\ {u, v, w, x} \subseteq Entries
        BY <2>1, <2>3 DEF Begin
      <4> HIDE DEF u, v, w, x
      <4>2. Head(<<u, v, w, x>>) = u /\ Tail(<<u, v, w, x>>) = <<v, w, x>>
        BY <4>1
      <4>3. Head(sfx_writes) = u /\ Tail(sfx_writes) = <<v, w, x>>
        BY <4>1, <4>2
      <4> QED
        BY <4>3 DEF u, v, w, x
    <3>2. sfx' \in Device /\ sfx'.audio = sfx.audio /\ sfx'.rate = sfx.rate /\ ~sfx'.active
      BY <3>1, WriteDone
    <3>3. Beginning'
      BY <2>2, <3>1, <3>2 DEF Beginning
    <3>4. DeviceSound' /\ CallbackSound'
      BY <2>2, <3>2 DEF DeviceSound, CallbackSound
    <3> QED
      BY <2>2, <3>3, <3>4
  <2>4. CASE sfx_writes = <<Set("audio", c), Set("offset", 0), Set("active", TRUE)>> /\ ~sfx.active
    <3>1. Head(sfx_writes) = Set("audio", c)
          /\ Tail(sfx_writes) = <<Set("offset", 0), Set("active", TRUE)>>
      <4> DEFINE v == Set("audio", c)  w == Set("offset", 0)  x == Set("active", TRUE)
      <4>1. sfx_writes = <<v, w, x>> /\ {v, w, x} \subseteq Entries
        BY <2>1, <2>4
      <4> HIDE DEF v, w, x
      <4>2. Head(<<v, w, x>>) = v /\ Tail(<<v, w, x>>) = <<w, x>>
        BY <4>1
      <4>3. Head(sfx_writes) = v /\ Tail(sfx_writes) = <<w, x>>
        BY <4>1, <4>2
      <4> QED
        BY <4>3 DEF v, w, x
    <3>2. sfx' \in Device /\ sfx'.audio = c /\ sfx'.rate = sfx.rate
      BY <2>1, <3>1, WriteDone
    <3>3. Beginning'
      BY <2>2, <3>1, <3>2 DEF Beginning
    <3>4. DeviceSound' /\ CallbackSound'
      BY <2>2, <3>2 DEF DeviceSound, CallbackSound
    <3> QED
      BY <2>2, <3>3, <3>4
  <2>5. CASE sfx_writes = <<Set("offset", 0), Set("active", TRUE)>> /\ sfx.audio = c
    <3>1. Head(sfx_writes) = Set("offset", 0) /\ Tail(sfx_writes) = <<Set("active", TRUE)>>
      BY <2>1, <2>5, Unstitched
    <3>2. sfx' \in Device /\ sfx'.audio = c /\ sfx'.rate = sfx.rate
      BY <2>5, <3>1, WriteDone
    <3>3. Beginning'
      BY <2>2, <3>1, <3>2 DEF Beginning
    <3>4. DeviceSound' /\ CallbackSound'
      BY <2>2, <3>2 DEF DeviceSound, CallbackSound
    <3> QED
      BY <2>2, <3>3, <3>4
  <2>6. CASE sfx_writes = <<Set("active", TRUE)>> /\ sfx.audio = c
    <3>1. Head(sfx_writes) = Set("active", TRUE) /\ Tail(sfx_writes) = <<>>
      BY <2>1, <2>6, Unstitched
    <3>2. sfx' \in Device /\ sfx'.audio = c /\ sfx'.rate = sfx.rate
      BY <2>6, <3>1, WriteDone
    <3>3. NothingToDo'
      BY <2>1, <2>2, <3>1, <3>2 DEF NothingToDo
    <3>4. DeviceSound' /\ CallbackSound'
      BY <2>2, <3>2 DEF DeviceSound, CallbackSound
    <3> QED
      BY <2>2, <3>3, <3>4
  <2> QED
    BY <2>3, <2>4, <2>5, <2>6
<1> QED
  BY <1>0, <1>1, <1>2, <1>3, <1>4 DEF NothingToDo

(* A call begins when the last one has done all it had to.                 *)
LEMMA CallsSounds ==
  ASSUME SoundsInv,
         \/ Sounds!PlayUiSound \/ Sounds!InitializeSounds
         \/ Sounds!StopUiSounds \/ Sounds!SetEnabled
  PROVE  SoundsInv'
<1> USE DEF SoundsInv
<1>1. sfx_writes = <<>> /\ UNCHANGED <<sfx, sfx_callback>> /\ sfx_enabled' \in BOOLEAN
  BY DEF Sounds!PlayUiSound, Sounds!InitializeSounds, Sounds!StopUiSounds, Sounds!SetEnabled,
         Sounds!Calls
<1>2. DeviceSound' /\ CallbackSound'
  BY <1>1 DEF DeviceSound, CallbackSound
<1>3. sfx.active => sfx_enabled /\ sfx.audio # Quiet
  BY <1>1, SoundsInvGivesBounds DEF Sounds!SoundsInBounds, Quiet
<1> DEFINE stop == Sounds!StopSounds
           off  == <<Set("rate", 0)>>
<1>4. stop \in StopRest /\ stop \in Seq(Entries) /\ off \in Seq(Entries)
      /\ Sounds!StopDevice = stop \o off
  <2>1. /\ Set("active", FALSE) \in Entries /\ Set("offset", 0) \in Entries
        /\ Set("audio", Quiet) \in Entries /\ Set("rate", 0) \in Entries
    BY WritesTyped
  <2>2. stop = <<Set("active", FALSE), Set("offset", 0), Set("audio", Quiet)>>
    BY DEF Sounds!StopSounds, Set, Quiet
  <2>3. Sounds!StopDevice = stop \o off
    BY DEF Sounds!StopDevice, Set
  <2> HIDE DEF stop
  <2>4. stop \in Seq(Entries)
    <3>1. \A S : \A u, v, w \in S : <<u, v, w>> \in Seq(S)
      OBVIOUS
    <3> QED
      BY <2>1, <2>2, <3>1
  <2>5. off \in Seq(Entries)
    BY <2>1
  <2> QED
    BY <2>2, <2>3, <2>4, <2>5 DEF StopRest
<1>5. Head(stop) = Set("active", FALSE)
  <2>1. stop = <<Set("active", FALSE), Set("offset", 0), Set("audio", Quiet)>>
    BY DEF Sounds!StopSounds, Set, Quiet
  <2> HIDE DEF stop
  <2> QED
    BY <2>1, Unstitched, WritesTyped
<1> HIDE DEF stop
<1>6. ASSUME \E r \in Following' : sfx_writes' = stop \o (off \o r) PROVE Stopping'
  BY <1>4, <1>5, <1>6 DEF Stopping
<1>7. ASSUME sfx_writes' = stop PROVE Stopping'
  BY <1>4, <1>5, <1>7 DEF Stopping
<1>8. <<>> \in Following'
  BY DEF Following
<1>9. CASE sfx_writes' = stop \o off
  <2>1. off \o <<>> = off
    BY <1>4, ConcatEmptySeq
  <2> QED
    BY <1>1, <1>2, <1>6, <1>8, <1>9, <2>1
<1>10. ASSUME NEW c \in Heard, NEW starts \in BOOLEAN, sfx_enabled' = sfx_enabled, sfx_enabled,
             \/ sfx_writes' = Sounds!EnsureDevice(c, starts)
             \/ sfx_writes' = Sounds!PlaySound(c, starts)
      PROVE  SoundsInv'
  <2> DEFINE on == <<Set("rate", c.rate)>>
             begin == Begin(c)
             ensure == Sounds!EnsureDevice(c, starts)
  <2>1. /\ on \in Seq(Entries) /\ begin \in Seq(Entries)
        /\ on \in Following' /\ on \o begin \in Following'
    BY <1>10, WritesTyped DEF Following
  <2>2. ensure = IF sfx.rate = c.rate THEN <<>>
                 ELSE (stop \o off) \o IF starts THEN on ELSE <<>>
    BY <1>4 DEF Sounds!EnsureDevice, Set
  <2>3. Sounds!PlaySound(c, starts) = ensure \o IF sfx.rate = c.rate \/ starts THEN begin ELSE <<>>
    BY DEF Sounds!PlaySound, Begin, Set
  <2> HIDE DEF on, begin, ensure
  <2>4. CASE sfx.rate = c.rate
    <3>1. <<>> \o begin = begin
      BY <2>1, ConcatEmptySeq
    <3>2. sfx_writes' = <<>> \/ sfx_writes' = begin
      <4>1. ensure = <<>> /\ Sounds!PlaySound(c, starts) = <<>> \o begin
        BY <2>2, <2>3, <2>4
      <4> QED
        BY <1>10, <3>1, <4>1 DEF ensure
    <3>3. NothingToDo' \/ Beginning'
      BY <1>1, <1>3, <1>10, <2>4, <3>2 DEF NothingToDo, Beginning, begin
    <3> QED
      BY <1>1, <1>2, <3>3
  <2>5. CASE sfx.rate # c.rate /\ ~starts
    <3>1. stop \o off \in Seq(Entries)
      BY <1>4, ConcatProperties
    <3>2. (stop \o off) \o <<>> = stop \o off
      BY <3>1, ConcatEmptySeq
    <3>3. sfx_writes' = stop \o off
      <4>1. ensure = (stop \o off) \o <<>> /\ Sounds!PlaySound(c, starts) = ensure \o <<>>
        BY <2>2, <2>3, <2>5
      <4> QED
        BY <1>10, <3>2, <4>1 DEF ensure
    <3> QED
      BY <1>9, <3>3
  <2>6. CASE sfx.rate # c.rate /\ starts
    <3>1. off \o on \in Seq(Entries) /\ stop \o off \in Seq(Entries)
      BY <1>4, <2>1, ConcatProperties
    <3>2. (stop \o off) \o on = stop \o (off \o on)
      BY <1>4, <2>1, ConcatAssociative
    <3>3. (stop \o (off \o on)) \o begin = stop \o ((off \o on) \o begin)
      BY <1>4, <2>1, <3>1, ConcatAssociative
    <3>4. (off \o on) \o begin = off \o (on \o begin)
      BY <1>4, <2>1, ConcatAssociative
    <3>5. sfx_writes' = stop \o (off \o on) \/ sfx_writes' = stop \o (off \o (on \o begin))
      <4>1. ensure = (stop \o off) \o on /\ Sounds!PlaySound(c, starts) = ensure \o begin
        BY <2>2, <2>3, <2>6
      <4> QED
        BY <1>10, <3>2, <3>3, <3>4, <4>1 DEF ensure
    <3> QED
      BY <1>1, <1>2, <1>6, <2>1, <3>5
  <2> QED
    BY <2>4, <2>5, <2>6
<1>11. CASE Sounds!PlayUiSound \/ Sounds!InitializeSounds
  <2>1. PICK i \in DOMAIN Clips, starts \in BOOLEAN :
          /\ sfx_enabled /\ Clips[i] # Quiet /\ UNCHANGED sfx_enabled
          /\ \/ sfx_writes' = Sounds!EnsureDevice(Clips[i], starts)
             \/ sfx_writes' = Sounds!PlaySound(Clips[i], starts)
    BY <1>11 DEF Sounds!PlayUiSound, Sounds!InitializeSounds, Sounds!Calls, Quiet
  <2>2. Clips[i] \in Heard
    BY <2>1 DEF Heard
  <2> QED
    BY <1>10, <2>1, <2>2
<1>12. CASE Sounds!StopUiSounds
  <2>1. sfx_writes' = stop \o off \/ sfx_writes' = stop
    BY <1>4, <1>12 DEF Sounds!StopUiSounds, Sounds!Calls, stop
  <2> QED
    BY <1>1, <1>2, <1>7, <1>9, <2>1
<1>13. CASE Sounds!SetEnabled
  <2>1. sfx_writes' = stop \/ (sfx_writes' = <<>> /\ sfx_enabled')
    BY <1>13 DEF Sounds!SetEnabled, Sounds!Calls, stop
  <2>2. Stopping' \/ NothingToDo'
    BY <1>1, <1>3, <1>7, <2>1 DEF NothingToDo
  <2> QED
    BY <1>1, <1>2, <2>2
<1> QED
  BY <1>11, <1>12, <1>13

(* The callback, which meets a caller at any of its writes.                *)
LEMMA CallbackSounds == ASSUME SoundsInv, Sounds!SfxCallback PROVE SoundsInv'
<1> USE DEF SoundsInv
<1>1. UNCHANGED <<sfx_writes, sfx_enabled>>
  BY DEF Sounds!SfxCallback, Sounds!SeesActive, Sounds!LoadsAudio, Sounds!CopiesFrames,
         Sounds!StoresOffset, Sounds!EndsSound, Sounds!Callback
<1>2. sfx \in Device /\ sfx_callback \in [at : {"idle", "audio", "offset", "store", "end"},
                         sound : [frames : Nat, rate : Nat], from : Nat, to : Nat]
  BY DEF DeviceSound, CallbackSound
<1>3. /\ sfx' \in Device /\ sfx'.audio = sfx.audio /\ sfx'.rate = sfx.rate
      /\ sfx'.active => sfx.active
  <2>1. CASE UNCHANGED sfx
    BY <1>2, <2>1
  <2>2. CASE sfx' = [sfx EXCEPT !.offset = sfx_callback.to]
    BY <1>2, <2>2 DEF Device
  <2>3. CASE sfx' = [sfx EXCEPT !.active = FALSE]
    BY <1>2, <2>3 DEF Device
  <2> QED
    BY <2>1, <2>2, <2>3 DEF Sounds!SfxCallback, Sounds!SeesActive, Sounds!LoadsAudio,
       Sounds!CopiesFrames, Sounds!StoresOffset, Sounds!EndsSound
<1>4. DeviceSound'
  BY <1>3 DEF DeviceSound
<1>5. NothingToDo' \/ Stopping' \/ Going' \/ Coming' \/ Beginning'
  <2>1. Following' = Following
    BY <1>1 DEF Following
  <2> QED
    BY <1>1, <1>3, <2>1 DEF NothingToDo, Stopping, Going, Coming, Beginning
<1>6. CallbackSound'
  <2>1. CASE Sounds!SeesActive
    BY <1>2, <2>1 DEF Sounds!SeesActive, Sounds!Callback, CallbackSound
  <2>2. CASE Sounds!LoadsAudio
    <3>1. sfx.audio \in [frames : Nat, rate : Nat] /\ (sfx.audio # Quiet => sfx.audio.rate = sfx.rate)
      BY <1>2 DEF Device, DeviceSound
    <3>2. /\ sfx_callback.at = "audio" /\ UNCHANGED sfx
          /\ sfx_callback' = [sfx_callback EXCEPT !.sound = sfx.audio,
               !.at = IF sfx.audio = Quiet THEN "end" ELSE "offset"]
      BY <2>2 DEF Sounds!LoadsAudio, Sounds!Callback, Quiet
    <3>3. sfx.rate # 0
      BY <3>2 DEF CallbackSound
    <3> QED
      BY <1>2, <3>1, <3>2, <3>3 DEF CallbackSound
  <2>3. CASE Sounds!CopiesFrames
    <3>1. sfx.offset \in Nat /\ sfx_callback.sound.frames \in Nat /\ Chunk \in Nat \ {0}
      BY <1>2, JobConstants DEF Device
    <3> DEFINE end == Sounds!Least(sfx.offset + Chunk, sfx_callback.sound.frames)
    <3>2. CASE sfx.offset >= sfx_callback.sound.frames
      BY <1>2, <2>3, <3>2 DEF Sounds!CopiesFrames, Sounds!Callback, CallbackSound
    <3>3. CASE ~(sfx.offset >= sfx_callback.sound.frames)
      <4>1. end \in Nat /\ sfx.offset < end /\ end <= sfx_callback.sound.frames
        BY <3>1, <3>3 DEF Sounds!Least
      <4>2. /\ sfx_callback.at = "offset" /\ UNCHANGED sfx
            /\ sfx_callback' = [sfx_callback EXCEPT !.at = "store", !.from = sfx.offset, !.to = end]
        BY <2>3, <3>3 DEF Sounds!CopiesFrames, Sounds!Callback
      <4> HIDE DEF end
      <4> QED
        BY <1>2, <3>1, <4>1, <4>2 DEF CallbackSound
    <3> QED
      BY <3>2, <3>3
  <2>4. CASE Sounds!StoresOffset \/ Sounds!EndsSound
    BY <1>2, <1>3, <2>4 DEF Sounds!StoresOffset, Sounds!EndsSound, Sounds!Callback, CallbackSound,
       Sounds!CallbackIdle, Sounds!NoClip
  <2> QED
    BY <2>1, <2>2, <2>3, <2>4 DEF Sounds!SfxCallback
<1> QED
  BY <1>1, <1>4, <1>5, <1>6

(* Every step keeps it.                                                    *)
LEMMA NextSounds == SoundsInv /\ [JobNext]_jobVars => SoundsInv'
<1> SUFFICES ASSUME SoundsInv, [JobNext]_jobVars PROVE SoundsInv'
  OBVIOUS
<1>1. CASE Sounds!SfxNext
  BY <1>1, WritesSounds, CallsSounds, CallbackSounds DEF Sounds!SfxNext
<1>2. CASE UNCHANGED sounds
  BY <1>2 DEF sounds, SoundsInv, DeviceSound, CallbackSound, NothingToDo, Stopping, Going,
     Coming, Beginning, Following
<1> QED
  BY <1>1, <1>2 DEF JobNext, jobVars, RunCommand, TestPerformance, TestAudio, MakeSounds,
     ReadJack, TestCamera, BakePi, TestDisplay, WriteLogs, KeepConfig

-----------------------------------------------------------------------------
(* AudioTest.                                                              *)

Places == {"none", "capture", "write", "wait", "load", "stop_sfx", "lock", "play", "init",
           "ensure", "volume"}
Shown == {"gone", "IDLE", "RECORDING", "WAITING_TO_PLAY", "PLAYING", "COMPLETE", "ERROR"}
Loud   == {"default", "full", "half"}

AudioTyped ==
  /\ audio_page \in 0 .. AudioPages
  /\ stage \in [Audio!Pages -> Shown] /\ thread \in [Audio!Pages -> Places]
  /\ takes \in Nat /\ take \in [Audio!Pages -> Nat] /\ sound_of \in [Audio!Pages -> Nat]
  /\ recording \in [of : Nat, whole : BOOLEAN]
  /\ volume \in Loud /\ played_at \in [Audio!Pages -> Loud \cup {"none"}]

(* A page has a thread while its stage says so, and none when the key that *)
(* starts one is on its way.                                               *)
OneThread ==
  /\ \A p \in Audio!Pages : stage[p] \in Audio!Busy <=> thread[p] # "none"
  /\ interface = "stop_ui_sounds" => audio_page # 0 /\ thread[audio_page] = "none"

(* Who holds a lock, and who will lower the volume.                        *)
LocksHeld ==
  /\ play_lock # "free" => \E p \in Audio!Pages : thread[p] = "play"
  /\ sfx_lock = "thread" => \E p \in Audio!Pages : thread[p] = "ensure"
  /\ volume = "full" => \E p \in Audio!Pages :
       thread[p] \in {"load", "stop_sfx", "lock", "play", "init", "ensure", "volume"}

(* A thread that has met no other is alone, and what it has come to, in    *)
(* the file, the volume and the sound that is loaded, is its own.          *)
Alone(p) ==
  /\ \A q \in Audio!Pages : thread[q] # "none" => q = p
  /\ take[p] # 0
  /\ thread[p] \in {"wait", "load"} => recording.of = take[p] /\ recording.whole
  /\ thread[p] \in {"load", "stop_sfx", "lock"} => volume = "full"
  /\ thread[p] \in {"stop_sfx", "lock", "play", "init", "ensure"} => sound_of[p] = take[p]
  /\ thread[p] \in {"play", "init", "ensure"} => played_at[p] = "full"
OwnTake == \A p \in Audio!Pages : thread[p] # "none" /\ p \notin met => Alone(p)

(* The inductive invariant of AudioTest.                                   *)
AudioInv == AudioTyped /\ OneThread /\ LocksHeld /\ OwnTake

(* A page that plays, plays what it recorded.                              *)
LEMMA AudioInvGivesOwn == ASSUME AudioInv PROVE Audio!PlaysOwnRecording
<1>1. ASSUME NEW p \in Audio!Pages
      PROVE  /\ stage[p] \in Audio!Busy <=> thread[p] # "none"
             /\ thread[p] \in {"play", "init", "ensure"} /\ p \notin met =>
                  sound_of[p] = take[p] /\ played_at[p] = "full"
  BY DEF AudioInv, OneThread, OwnTake, Alone
<1>2. ASSUME Audio!Alive = {}
      PROVE  volume # "full" /\ sfx_lock # "thread" /\ play_lock = "free"
  <2>1. \A p \in Audio!Pages : thread[p] = "none"
    BY <1>2 DEF Audio!Alive
  <2> QED
    BY <2>1 DEF AudioInv, LocksHeld
<1> QED
  BY <1>1, <1>2 DEF Audio!PlaysOwnRecording

(* It holds before the first page is opened.                               *)
LEMMA InitAudio == ASSUME Audio!AudioInit PROVE AudioInv
<1>1. AudioTyped
  BY JobConstants DEF Audio!AudioInit, AudioTyped, Shown, Places, Loud
<1>2. OneThread
  BY DEF Audio!AudioInit, OneThread, Audio!Busy
<1>3. LocksHeld /\ OwnTake
  BY DEF Audio!AudioInit, LocksHeld, OwnTake
<1> QED
  BY <1>1, <1>2, <1>3 DEF AudioInv

(* A step of a thread: the others stay where they are, and what it does is *)
(* its own business when it is alone.                                      *)
LEMMA ThreadMoves ==
  ASSUME AudioInv, NEW p \in Audio!Pages, NEW to \in Places, thread[p] # "none",
         thread' = [thread EXCEPT ![p] = to],
         UNCHANGED <<audio_page, take, takes, met, interface>>,
         sound_of' \in [Audio!Pages -> Nat], recording' \in [of : Nat, whole : BOOLEAN],
         volume' \in Loud, played_at' \in [Audio!Pages -> Loud \cup {"none"}],
         stage' \in [Audio!Pages -> Shown], stage'[p] \in Audio!Busy <=> to # "none",
         \A q \in Audio!Pages \ {p} : stage'[q] = stage[q],
         play_lock' # "free" => to = "play" \/ (play_lock # "free" /\ thread[p] # "play"),
         sfx_lock' = "thread" => to = "ensure" \/ (sfx_lock = "thread" /\ thread[p] # "ensure"),
         volume' = "full" =>
           \/ to \in {"load", "stop_sfx", "lock", "play", "init", "ensure", "volume"}
           \/ volume = "full" /\ thread[p] \in {"capture", "write", "wait"},
         p \notin met /\ to # "none" /\ Alone(p) =>
           /\ to \in {"wait", "load"} => recording'.of = take[p] /\ recording'.whole
           /\ to \in {"load", "stop_sfx", "lock"} => volume' = "full"
           /\ to \in {"stop_sfx", "lock", "play", "init", "ensure"} => sound_of'[p] = take[p]
           /\ to \in {"play", "init", "ensure"} => played_at'[p] = "full"
  PROVE  AudioInv'
<1> USE DEF AudioInv
<1>1. /\ thread' \in [Audio!Pages -> Places] /\ thread'[p] = to
      /\ \A q \in Audio!Pages \ {p} : thread'[q] = thread[q]
  BY DEF AudioTyped
<1>2. AudioTyped'
  BY <1>1 DEF AudioTyped, Audio!Pages
<1>3. OneThread'
  <2>1. interface' = "stop_ui_sounds" => audio_page' # 0 /\ thread'[audio_page'] = "none"
    <3> SUFFICES ASSUME interface = "stop_ui_sounds"
                 PROVE  audio_page # 0 /\ thread'[audio_page] = "none"
      OBVIOUS
    <3>1. audio_page # 0 /\ thread[audio_page] = "none" /\ audio_page \in Audio!Pages
      BY JobConstants DEF OneThread, AudioTyped, Audio!Pages
    <3> QED
      BY <1>1, <3>1
  <2> QED
    BY <1>1, <2>1 DEF OneThread
<1>4. LocksHeld'
  <2>1. play_lock' # "free" => \E q \in Audio!Pages : thread'[q] = "play"
    BY <1>1 DEF LocksHeld
  <2>2. sfx_lock' = "thread" => \E q \in Audio!Pages : thread'[q] = "ensure"
    BY <1>1 DEF LocksHeld
  <2>3. volume' = "full" => \E q \in Audio!Pages :
          thread'[q] \in {"load", "stop_sfx", "lock", "play", "init", "ensure", "volume"}
    BY <1>1 DEF LocksHeld
  <2> QED
    BY <2>1, <2>2, <2>3 DEF LocksHeld
<1>5. OwnTake'
  <2> SUFFICES ASSUME NEW q \in Audio!Pages, thread'[q] # "none", q \notin met PROVE Alone(q)'
    BY DEF OwnTake
  <2>1. q = p
    <3> SUFFICES ASSUME q # p PROVE FALSE
      OBVIOUS
    <3>1. Alone(q)
      BY <1>1 DEF OwnTake
    <3> QED
      BY <3>1 DEF Alone
  <2>2. Alone(p)
    BY <2>1 DEF OwnTake
  <2>3. (\A x \in Audio!Pages : thread[x] # "none" => x = p)' /\ take'[p] # 0
    BY <1>1, <2>2 DEF Alone
  <2> QED
    BY <1>1, <2>1, <2>2, <2>3 DEF Alone
<1> QED
  BY <1>2, <1>3, <1>4, <1>5

(* Every step of a thread is one of these.                                 *)
LEMMA ThreadAudio ==
  ASSUME AudioInv, NEW p \in Audio!Pages, Audio!Thread(p)
  PROVE  AudioInv'
<1> USE DEF Audio!Page, Audio!audio_file, Audio!locks, Audio!Moves, Audio!Stage
<1>1. /\ stage \in [Audio!Pages -> Shown] /\ thread \in [Audio!Pages -> Places]
      /\ takes \in Nat /\ take \in [Audio!Pages -> Nat] /\ sound_of \in [Audio!Pages -> Nat]
      /\ recording \in [of : Nat, whole : BOOLEAN]
      /\ volume \in Loud /\ played_at \in [Audio!Pages -> Loud \cup {"none"}]
      /\ stage[p] \in Audio!Busy <=> thread[p] # "none"
  BY DEF AudioInv, AudioTyped, OneThread
<1>2. take[p] \in Nat /\ recording.of \in Nat
  BY <1>1
<1>3. CASE Audio!RecordFails(p)
  <2>1. /\ thread[p] \in {"capture", "write"} /\ thread' = [thread EXCEPT ![p] = "none"]
        /\ stage' = [stage EXCEPT ![p] = "ERROR"]
        /\ UNCHANGED <<audio_page, take, takes, met, interface, sound_of, recording, volume,
                       played_at, play_lock, sfx_lock>>
    BY <1>3 DEF Audio!RecordFails
  <2>2. "none" \in Places /\ "ERROR" \in Shown /\ "ERROR" \notin Audio!Busy
    BY DEF Places, Shown, Audio!Busy
  <2> QED
    BY <1>1, <2>1, <2>2, ThreadMoves
<1>4. CASE Audio!Captured(p)
  <2>1. /\ thread[p] = "capture" /\ thread' = [thread EXCEPT ![p] = "write"]
        /\ recording' \in [of : Nat, whole : BOOLEAN]
        /\ UNCHANGED <<audio_page, take, takes, met, interface, stage, sound_of, volume,
                       played_at, play_lock, sfx_lock>>
    BY <1>2, <1>4 DEF Audio!Captured
  <2>2. "write" \in Places
    BY DEF Places
  <2> QED
    BY <1>1, <2>1, <2>2, ThreadMoves
<1>5. CASE Audio!Written(p)
  <2>1. /\ thread[p] = "write" /\ thread' = [thread EXCEPT ![p] = "wait"]
        /\ stage' = [stage EXCEPT ![p] = "WAITING_TO_PLAY"]
        /\ recording' \in [of : Nat, whole : BOOLEAN]
        /\ recording'.of = take[p] /\ recording'.whole
        /\ UNCHANGED <<audio_page, take, takes, met, interface, sound_of, volume,
                       played_at, play_lock, sfx_lock>>
    BY <1>2, <1>5 DEF Audio!Written
  <2>2. "wait" \in Places /\ "WAITING_TO_PLAY" \in Shown /\ "WAITING_TO_PLAY" \in Audio!Busy
    BY DEF Places, Shown, Audio!Busy
  <2> QED
    BY <1>1, <2>1, <2>2, ThreadMoves
<1>6. CASE Audio!SetVolume(p)
  <2>1. /\ thread[p] = "wait" /\ thread' = [thread EXCEPT ![p] = "load"]
        /\ stage' = [stage EXCEPT ![p] = "PLAYING"] /\ volume' = "full"
        /\ UNCHANGED <<audio_page, take, takes, met, interface, sound_of, recording,
                       played_at, play_lock, sfx_lock>>
    BY <1>6 DEF Audio!SetVolume
  <2>2. /\ "load" \in Places /\ "PLAYING" \in Shown /\ "PLAYING" \in Audio!Busy
        /\ "full" \in Loud
    BY DEF Places, Shown, Audio!Busy, Loud
  <2>3. Alone(p) => recording.of = take[p] /\ recording.whole
    BY <2>1 DEF Alone
  <2> QED
    BY <1>1, <2>1, <2>2, <2>3, ThreadMoves
<1>7. CASE Audio!Load(p)
  <2> PICK clip \in {recording.of} \cup IF recording.whole THEN {} ELSE {0} :
        /\ thread[p] = "load"
        /\ thread' = [thread EXCEPT ![p] = IF clip # 0 THEN "stop_sfx" ELSE "volume"]
        /\ sound_of' = [sound_of EXCEPT ![p] = clip]
        /\ UNCHANGED <<audio_page, take, takes, met, interface, stage, recording, volume,
                       played_at, play_lock, sfx_lock>>
    BY <1>7 DEF Audio!Load
  <2> DEFINE to == IF clip # 0 THEN "stop_sfx" ELSE "volume"
  <2>1. to \in Places \ {"none"} /\ to \in {"stop_sfx", "volume"}
    BY DEF Places
  <2>2. sound_of' \in [Audio!Pages -> Nat] /\ sound_of'[p] = clip
    BY <1>1, <1>2
  <2>3. Alone(p) => volume = "full" /\ sound_of'[p] = take[p]
    BY <2>2 DEF Alone
  <2>4. thread' = [thread EXCEPT ![p] = to]
    OBVIOUS
  <2> HIDE DEF to
  <2> QED
    BY <1>1, <2>1, <2>2, <2>3, <2>4, ThreadMoves
<1>8. CASE Audio!PlayAudio(p)
  <2>1. CASE thread[p] = "stop_sfx"
    <3>1. /\ thread' = [thread EXCEPT ![p] = "lock"]
          /\ UNCHANGED <<audio_page, take, takes, met, interface, stage, sound_of, recording,
                         volume, played_at, play_lock, sfx_lock>>
      BY <1>8, <2>1 DEF Audio!PlayAudio
    <3>2. "lock" \in Places
      BY DEF Places
    <3>3. Alone(p) => volume = "full" /\ sound_of[p] = take[p]
      BY <2>1 DEF Alone
    <3> QED
      BY <1>1, <2>1, <3>1, <3>2, <3>3, ThreadMoves
  <2>2. CASE thread[p] = "lock"
    <3>1. /\ thread' = [thread EXCEPT ![p] = "play"]
          /\ played_at' = [played_at EXCEPT ![p] = volume]
          /\ UNCHANGED <<audio_page, take, takes, met, interface, stage, sound_of, recording,
                         volume, sfx_lock>>
      BY <1>8, <2>2 DEF Audio!PlayAudio
    <3>2. "play" \in Places
      BY DEF Places
    <3>3. Alone(p) => volume = "full" /\ sound_of[p] = take[p]
      BY <2>2 DEF Alone
    <3>4. played_at' \in [Audio!Pages -> Loud \cup {"none"}] /\ played_at'[p] = volume
      BY <1>1, <3>1
    <3> QED
      BY <1>1, <2>2, <3>1, <3>2, <3>3, <3>4, ThreadMoves
  <2>3. CASE thread[p] \notin {"stop_sfx", "lock"}
    <3>1. /\ thread[p] = "play" /\ thread' = [thread EXCEPT ![p] = "init"] /\ play_lock' = "free"
          /\ UNCHANGED <<audio_page, take, takes, met, interface, stage, sound_of, recording,
                         volume, played_at, sfx_lock>>
      BY <1>8, <2>3 DEF Audio!PlayAudio
    <3>2. "init" \in Places
      BY DEF Places
    <3>3. Alone(p) => sound_of[p] = take[p] /\ played_at[p] = "full"
      BY <3>1 DEF Alone
    <3> QED
      BY <1>1, <3>1, <3>2, <3>3, ThreadMoves
  <2> QED
    BY <2>1, <2>2, <2>3
<1>9. CASE Audio!InitializeSounds(p)
  <2>1. \E to \in {"volume", "ensure"} :
          /\ thread[p] \in {"init", "ensure"} /\ thread' = [thread EXCEPT ![p] = to]
          /\ to = "ensure" => thread[p] = "init"
          /\ sfx_lock' = "thread" => to = "ensure" \/ (sfx_lock = "thread" /\ thread[p] # "ensure")
          /\ UNCHANGED <<audio_page, take, takes, met, interface, stage, sound_of, recording,
                         volume, played_at, play_lock>>
    BY <1>9 DEF Audio!InitializeSounds
  <2>2. {"volume", "ensure"} \subseteq Places
    BY DEF Places
  <2>3. Alone(p) => sound_of[p] = take[p] /\ played_at[p] = "full"
    BY <2>1 DEF Alone
  <2> PICK to \in {"volume", "ensure"} :
          /\ thread[p] \in {"init", "ensure"} /\ thread' = [thread EXCEPT ![p] = to]
          /\ sfx_lock' = "thread" => to = "ensure" \/ (sfx_lock = "thread" /\ thread[p] # "ensure")
          /\ UNCHANGED <<audio_page, take, takes, met, interface, stage, sound_of, recording,
                         volume, played_at, play_lock>>
    BY <2>1
  <2> QED
    BY <1>1, <2>2, <2>3, ThreadMoves
<1>10. CASE Audio!Finish(p)
  <2> PICK s \in {"COMPLETE", "ERROR"} :
        /\ thread[p] = "volume" /\ thread' = [thread EXCEPT ![p] = "none"]
        /\ stage' = [stage EXCEPT ![p] = s] /\ volume' = "half"
        /\ UNCHANGED <<audio_page, take, takes, met, interface, sound_of, recording, played_at,
                       play_lock, sfx_lock>>
    BY <1>10 DEF Audio!Finish
  <2>1. "none" \in Places /\ s \in Shown /\ s \notin Audio!Busy /\ "half" \in Loud
    BY DEF Places, Shown, Audio!Busy, Loud
  <2> QED
    BY <1>1, <2>1, ThreadMoves
<1> QED
  BY <1>3, <1>4, <1>5, <1>6, <1>7, <1>8, <1>9, <1>10 DEF Audio!Thread

(* A page is opened and closed; its thread is not.                         *)
LEMMA PageAudio ==
  ASSUME AudioInv, Audio!OpenAudio \/ Audio!CloseAudio
  PROVE  AudioInv'
<1> USE DEF AudioInv
<1>1. /\ UNCHANGED <<thread, take, takes, met, sound_of, recording, volume, played_at, play_lock,
                     sfx_lock>>
      /\ interface = "idle" /\ interface' = "idle"
  BY DEF Audio!OpenAudio, Audio!CloseAudio, Audio!audio_file, Audio!locks
<1>2. LocksHeld' /\ OwnTake'
  BY <1>1 DEF LocksHeld, OwnTake, Alone
<1>3. CASE Audio!CloseAudio
  <2>1. audio_page' = 0 /\ UNCHANGED stage
    BY <1>3 DEF Audio!CloseAudio
  <2> QED
    BY <1>1, <1>2, <2>1, JobConstants DEF AudioTyped, OneThread
<1>4. CASE Audio!OpenAudio
  <2> PICK p \in Audio!Pages :
        stage[p] = "gone" /\ audio_page' = p /\ stage' = [stage EXCEPT ![p] = "IDLE"]
    BY <1>4 DEF Audio!OpenAudio, Audio!Stage
  <2>1. stage \in [Audio!Pages -> Shown] /\ "IDLE" \in Shown
    BY DEF AudioTyped, Shown
  <2>2. audio_page' \in 0 .. AudioPages
    BY JobConstants DEF Audio!Pages
  <2>3. AudioTyped'
    BY <1>1, <2>1, <2>2 DEF AudioTyped
  <2>4. \A q \in Audio!Pages : stage'[q] \in Audio!Busy <=> stage[q] \in Audio!Busy
    BY <2>1 DEF Audio!Busy
  <2> QED
    BY <1>1, <1>2, <2>3, <2>4 DEF OneThread
<1> QED
  BY <1>3, <1>4

(* A key, and the locks it takes.                                          *)
LEMMA KeyAudio ==
  ASSUME AudioInv,
         Audio!PressEnter \/ Audio!PressKey \/ Audio!SoundOfKey \/ Audio!EnsureDevice
  PROVE  AudioInv'
<1> USE DEF AudioInv
<1>1. /\ UNCHANGED <<audio_page, stage, thread, take, takes, met, sound_of, recording, volume,
                     played_at, play_lock>>
      /\ sfx_lock' = "thread" => sfx_lock = "thread"
  BY DEF Audio!PressEnter, Audio!PressKey, Audio!SoundOfKey, Audio!EnsureDevice, Audio!audio_file,
         Audio!locks
<1>2. AudioTyped' /\ LocksHeld' /\ OwnTake'
  BY <1>1 DEF AudioTyped, LocksHeld, OwnTake, Alone
<1>3. interface' = "stop_ui_sounds" => audio_page # 0 /\ thread[audio_page] = "none"
  <2>1. CASE Audio!PressEnter
    <3>1. audio_page # 0 /\ stage[audio_page] \notin Audio!Busy
      BY <2>1 DEF Audio!PressEnter
    <3>2. audio_page \in Audio!Pages
      BY <3>1, JobConstants DEF AudioTyped, Audio!Pages
    <3> QED
      BY <3>1, <3>2 DEF OneThread
  <2>2. CASE Audio!PressKey \/ Audio!SoundOfKey \/ Audio!EnsureDevice
    BY <2>2 DEF Audio!PressKey, Audio!SoundOfKey, Audio!EnsureDevice
  <2> QED
    BY <2>1, <2>2
<1> QED
  BY <1>1, <1>2, <1>3 DEF OneThread

(* A thread is started, and meets those that run.                          *)
LEMMA StartAudio == ASSUME AudioInv, Audio!StartRecording PROVE AudioInv'
<1> USE DEF AudioInv
<1> DEFINE a == audio_page
<1>1. a \in Audio!Pages /\ thread[a] = "none"
  BY JobConstants DEF Audio!StartRecording, OneThread, AudioTyped, Audio!Pages
<1>2. /\ stage' = [stage EXCEPT ![a] = "RECORDING"] /\ thread' = [thread EXCEPT ![a] = "capture"]
      /\ takes' = takes + 1 /\ take' = [take EXCEPT ![a] = takes + 1]
      /\ UNCHANGED <<audio_page, sound_of, recording, volume, played_at, play_lock, sfx_lock>>
      /\ interface' = "idle"
  BY DEF Audio!StartRecording, Audio!Stage, Audio!audio_file, Audio!locks
<1>3. /\ "RECORDING" \in Shown /\ "RECORDING" \in Audio!Busy /\ "capture" \in Places
      /\ takes + 1 \in Nat /\ takes + 1 # 0
  BY DEF Shown, Places, Audio!Busy, AudioTyped
<1>4. AudioTyped'
  BY <1>1, <1>2, <1>3 DEF AudioTyped
<1>5. /\ thread'[a] = "capture" /\ stage'[a] = "RECORDING" /\ take'[a] = takes + 1
      /\ \A q \in Audio!Pages \ {a} :
           thread'[q] = thread[q] /\ stage'[q] = stage[q] /\ take'[q] = take[q]
  BY <1>1, <1>2 DEF AudioTyped
<1>6. OneThread'
  BY <1>2, <1>3, <1>5 DEF OneThread
<1>7. LocksHeld'
  <2>1. \A q \in Audio!Pages : thread[q] # "none" => thread'[q] = thread[q]
    BY <1>1, <1>5
  <2> QED
    BY <1>2, <2>1 DEF LocksHeld
<1>8. OwnTake'
  <2> SUFFICES ASSUME NEW q \in Audio!Pages, thread'[q] # "none", q \notin met' PROVE Alone(q)'
    BY DEF OwnTake
  <2>1. /\ Audio!Alive \ {a} = {}
        /\ met' = met \ {a}
    <3>1. met' = IF Audio!Alive \ {a} = {} THEN met \ {a} ELSE met \cup Audio!Alive \cup {a}
      BY DEF Audio!StartRecording
    <3>2. q \in Audio!Alive \cup {a}
      BY <1>5 DEF Audio!Alive
    <3> QED
      BY <3>1, <3>2
  <2>2. \A x \in Audio!Pages \ {a} : thread[x] = "none"
    BY <2>1 DEF Audio!Alive
  <2>3. q = a
    BY <1>5, <2>2
  <2> QED
    BY <1>3, <1>5, <2>2, <2>3 DEF Alone
<1> QED
  BY <1>4, <1>6, <1>7, <1>8

(* Every step keeps it.                                                    *)
LEMMA NextAudio == AudioInv /\ [JobNext]_jobVars => AudioInv'
<1> SUFFICES ASSUME AudioInv, [JobNext]_jobVars PROVE AudioInv'
  OBVIOUS
<1>1. CASE Audio!AudioNext
  BY <1>1, PageAudio, KeyAudio, StartAudio, ThreadAudio DEF Audio!AudioNext, Audio!Handler
<1>2. CASE UNCHANGED audio
  BY <1>2 DEF audio, AudioInv, AudioTyped, OneThread, LocksHeld, OwnTake, Alone
<1> QED
  BY <1>1, <1>2 DEF JobNext, jobVars, RunCommand, TestPerformance, TestAudio, MakeSounds,
     ReadJack, TestCamera, BakePi, TestDisplay, WriteLogs, KeepConfig

-----------------------------------------------------------------------------
(* CameraTest.                                                             *)

CamPlaces == {"closed", "manager", "acquire", "configure", "heap", "allocator", "requests", "start",
              "queue", "open", "off", "disconnect", "halt", "clear", "release", "error"}
CamParts  == {"manager", "camera", "buffers", "allocator", "stream", "callback"}

CamTyped ==
  /\ cam_at \in CamPlaces /\ cam_held \subseteq CamParts
  /\ requests \in [Camera!Requests -> {"none", "idle", "queued", "completed", "dropped", "lost"}]
  /\ cam_callback \in [at : {"idle", "completed", "copy", "requeue"}, of : 0 .. Buffers]

(* What is held from where on, while the page starts and is open.          *)
Taken ==
  /\ cam_at \in {"acquire", "configure", "heap", "allocator", "requests", "start", "queue", "open"} =>
       "manager" \in cam_held
  /\ cam_at \in {"configure", "heap", "allocator", "requests", "start", "queue", "open"} =>
       "camera" \in cam_held
  /\ cam_at \in {"requests", "start", "queue", "open"} => "buffers" \in cam_held
  /\ cam_at \in {"queue", "open"} => {"stream", "callback"} \subseteq cam_held /\ cam_running

(* What is not held yet, or not any more.                                  *)
NotTaken ==
  /\ cam_at \notin {"queue", "open", "off", "disconnect", "halt"} => "stream" \notin cam_held
  /\ cam_at \notin {"start", "queue", "open", "off", "disconnect", "halt", "clear"} =>
       requests = Camera!Gone
  /\ cam_at \in {"halt", "clear", "release"} => "callback" \notin cam_held
  /\ cam_at = "release" => "buffers" \notin cam_held /\ "allocator" \notin cam_held
  /\ cam_at \in {"closed", "error", "manager"} => cam_held = {}
  /\ cam_running => cam_at \in {"queue", "open", "off"}
  /\ cam_at \in {"closed", "error"} => ~frame_ready

(* Nothing outlives what it stands on; the callback has one request.       *)
StandsOn ==
  /\ "stream" \in cam_held => {"manager", "camera", "buffers"} \subseteq cam_held
  /\ \A i \in Camera!Requests : requests[i] # "none" => "buffers" \in cam_held
  /\ cam_callback.at = "idle" <=> cam_callback.of = 0
  /\ cam_callback.at # "idle" => "stream" \in cam_held /\ requests[cam_callback.of] = "completed"

(* Where the requests are, and the evidence, while the page is not left.   *)
OnTheirWay ==
  /\ cam_at \in {"start", "queue", "open"} =>
       \A i \in Camera!Requests :
         requests[i] \in {"idle", "queued", "lost"} \/ cam_callback.of = i
  /\ cam_at = "open" => \A i \in Camera!Requests : requests[i] # "idle"
  /\ cam_at \in {"manager", "acquire", "configure", "heap", "allocator", "requests", "start", "queue"} =>
       ~cam_evidence
  /\ cam_at = "open" /\ cam_evidence => frame_ready /\ in_sequence

(* The inductive invariant of CameraTest.                                  *)
CamInv == CamTyped /\ Taken /\ NotTaken /\ StandsOn /\ OnTheirWay

(* A closed page holds nothing of libcamera.                               *)
LEMMA CamInvGivesBack == ASSUME CamInv PROVE Camera!CameraHandsBack
<1> USE DEF CamInv, Camera!CallbackAt
<1>1. ASSUME cam_at \in {"closed", "error"}
      PROVE  /\ cam_held = {} /\ requests = Camera!Gone /\ cam_callback.at = "idle"
             /\ ~cam_running /\ ~frame_ready
  <2>1. cam_held = {} /\ requests = Camera!Gone /\ ~cam_running /\ ~frame_ready
    BY <1>1 DEF NotTaken
  <2> QED
    BY <2>1 DEF StandsOn
<1>2. cam_callback.at = "copy" => "buffers" \in cam_held
  BY DEF StandsOn
<1>3. cam_callback.at # "idle" => {"manager", "camera", "stream"} \subseteq cam_held
  BY DEF StandsOn
<1>4. \A i \in Camera!Requests : requests[i] # "none" => "buffers" \in cam_held
  BY DEF StandsOn
<1>5. cam_at = "open" =>
        \A i \in Camera!Requests : requests[i] \in {"queued", "lost"} \/ cam_callback.of = i
  BY DEF OnTheirWay
<1>6. cam_at = "open" /\ cam_evidence => frame_ready /\ in_sequence
  BY DEF OnTheirWay
<1> QED
  BY <1>1, <1>2, <1>3, <1>4, <1>5, <1>6 DEF Camera!CameraHandsBack

(* It holds while the page is closed.                                      *)
LEMMA InitCamera == ASSUME Camera!CamInit PROVE CamInv
<1> USE DEF Camera!CamInit
<1>1. CamTyped
  <2>1. requests \in [Camera!Requests -> {"none", "idle", "queued", "completed", "dropped", "lost"}]
    BY DEF Camera!Gone
  <2>2. cam_callback \in [at : {"idle", "completed", "copy", "requeue"}, of : 0 .. Buffers]
    BY JobConstants DEF Camera!AtRest
  <2> QED
    BY <2>1, <2>2 DEF CamTyped, CamPlaces
<1>2. Taken /\ NotTaken /\ OnTheirWay
  BY DEF Taken, NotTaken, OnTheirWay
<1>3. StandsOn
  <2>1. cam_callback.at = "idle" /\ cam_callback.of = 0
    BY DEF Camera!AtRest
  <2>2. \A i \in Camera!Requests : requests[i] = "none"
    BY DEF Camera!Gone
  <2> QED
    BY <2>1, <2>2 DEF StandsOn
<1> QED
  BY <1>1, <1>2, <1>3 DEF CamInv

(* The order in which the page is taken down.                              *)
LEMMA StopsInOrder ==
  /\ cam_at = "off" => Camera!NextStop = "disconnect"
  /\ cam_at = "disconnect" => Camera!NextStop = "halt"
  /\ cam_at = "halt" => Camera!NextStop = "clear"
  /\ cam_at = "clear" => Camera!NextStop = "release"
  /\ cam_at = "release" => Camera!NextStop \in {"closed", "error"}
<1>1. ASSUME NEW k \in 1 .. 5, Camera!StopOrder[k] = cam_at
      PROVE  Camera!NextStop = IF Camera!StopOrder[k + 1] = "closed" /\ ~cam_leaving THEN "error"
                               ELSE Camera!StopOrder[k + 1]
  <2>1. \A i, j \in 1 .. 5 : Camera!StopOrder[i] = Camera!StopOrder[j] => i = j
    BY DEF Camera!StopOrder
  <2> HIDE DEF Camera!StopOrder
  <2>2. {j \in 1 .. 5 : Camera!StopOrder[j] = cam_at} = {k}
    BY <1>1, <2>1
  <2>3. {Camera!StopOrder[j + 1] : j \in {j \in 1 .. 5 : Camera!StopOrder[j] = cam_at}}
          = {Camera!StopOrder[k + 1]}
    BY <2>2
  <2>4. (CHOOSE s \in {Camera!StopOrder[k + 1]} : TRUE) = Camera!StopOrder[k + 1]
    OBVIOUS
  <2> QED
    BY <2>3, <2>4 DEF Camera!NextStop
<1>2. /\ Camera!StopOrder[1] = "off" /\ Camera!StopOrder[2] = "disconnect"
      /\ Camera!StopOrder[3] = "halt" /\ Camera!StopOrder[4] = "clear"
      /\ Camera!StopOrder[5] = "release" /\ Camera!StopOrder[6] = "closed"
  BY DEF Camera!StopOrder
<1>3. cam_at = "off" => Camera!NextStop = "disconnect"
  BY <1>1, <1>2
<1>4. cam_at = "disconnect" => Camera!NextStop = "halt"
  BY <1>1, <1>2
<1>5. cam_at = "halt" => Camera!NextStop = "clear"
  BY <1>1, <1>2
<1>6. cam_at = "clear" => Camera!NextStop = "release"
  BY <1>1, <1>2
<1>7. cam_at = "release" => Camera!NextStop \in {"closed", "error"}
  BY <1>1, <1>2
<1> QED
  BY <1>3, <1>4, <1>5, <1>6, <1>7

(* Start, which takes one thing after another or fails.                    *)
LEMMA StartCamera ==
  ASSUME CamInv,
         Camera!CamStart
  PROVE  CamInv'
<1> USE DEF CamInv, Camera!pageVars, Camera!Stays, Camera!Fail, Camera!Takes
<1>1. CASE Camera!StartManager
  <2>1. /\ cam_at = "manager" /\ cam_held' = cam_held \cup {"manager"}
        /\ UNCHANGED <<cam_running, requests, cam_callback, frame_ready, in_sequence, cam_evidence>>
        /\ cam_at' \in {"acquire", "off"}
    BY <1>1 DEF Camera!StartManager
  <2>2. CamTyped'
    BY <2>1 DEF CamTyped, CamPlaces, CamParts
  <2>3. Taken'
    BY <2>1 DEF CamTyped, Taken
  <2>4. NotTaken'
    BY <2>1 DEF CamTyped, NotTaken
  <2>5. StandsOn'
    BY <2>1 DEF CamTyped, StandsOn
  <2>6. OnTheirWay'
    BY <2>1 DEF CamTyped, OnTheirWay
  <2> QED
    BY <2>2, <2>3, <2>4, <2>5, <2>6
<1>2. CASE Camera!Acquire
  <2>1. /\ cam_at = "acquire" /\ UNCHANGED <<cam_running, requests, cam_callback, frame_ready, in_sequence, cam_evidence>>
        /\ \/ cam_at' = "configure" /\ cam_held' = cam_held \cup {"camera"}
           \/ cam_at' = "off" /\ cam_held' = cam_held
    BY <1>2 DEF Camera!Acquire
  <2>2. CamTyped'
    BY <2>1 DEF CamTyped, CamPlaces, CamParts
  <2>3. Taken'
    BY <2>1 DEF CamTyped, Taken
  <2>4. NotTaken'
    BY <2>1 DEF CamTyped, NotTaken
  <2>5. StandsOn'
    BY <2>1 DEF CamTyped, StandsOn
  <2>6. OnTheirWay'
    BY <2>1 DEF CamTyped, OnTheirWay
  <2> QED
    BY <2>2, <2>3, <2>4, <2>5, <2>6
<1>3. CASE Camera!Configure
  <2>1. /\ cam_at = "configure" /\ UNCHANGED <<cam_held, cam_running, requests, cam_callback, frame_ready, in_sequence, cam_evidence>>
        /\ cam_at' \in {"heap", "off"}
    BY <1>3 DEF Camera!Configure
  <2>2. CamTyped'
    BY <2>1 DEF CamTyped, CamPlaces, CamParts
  <2>3. Taken'
    BY <2>1 DEF CamTyped, Taken
  <2>4. NotTaken'
    BY <2>1 DEF CamTyped, NotTaken
  <2>5. StandsOn'
    BY <2>1 DEF CamTyped, StandsOn
  <2>6. OnTheirWay'
    BY <2>1 DEF CamTyped, OnTheirWay
  <2> QED
    BY <2>2, <2>3, <2>4, <2>5, <2>6
<1>4. CASE Camera!AllocateFromHeap
  <2>1. /\ cam_at = "heap" /\ UNCHANGED <<cam_running, requests, cam_callback, frame_ready, in_sequence, cam_evidence>>
        /\ \/ cam_at' = "requests" /\ cam_held' = cam_held \cup {"buffers"}
           \/ cam_at' = "allocator" /\ cam_held' = cam_held
    BY <1>4 DEF Camera!AllocateFromHeap
  <2>2. CamTyped'
    BY <2>1 DEF CamTyped, CamPlaces, CamParts
  <2>3. Taken'
    BY <2>1 DEF CamTyped, Taken
  <2>4. NotTaken'
    BY <2>1 DEF CamTyped, NotTaken
  <2>5. StandsOn'
    BY <2>1 DEF CamTyped, StandsOn
  <2>6. OnTheirWay'
    BY <2>1 DEF CamTyped, OnTheirWay
  <2> QED
    BY <2>2, <2>3, <2>4, <2>5, <2>6
<1>5. CASE Camera!AllocateWithLibcamera
  <2>1. /\ cam_at = "allocator" /\ UNCHANGED <<cam_running, requests, cam_callback, frame_ready, in_sequence, cam_evidence>>
        /\ \/ cam_at' = "requests" /\ cam_held' = cam_held \cup {"buffers", "allocator"}
           \/ cam_at' = "off" /\ cam_held' = cam_held
    BY <1>5 DEF Camera!AllocateWithLibcamera
  <2>2. CamTyped'
    BY <2>1 DEF CamTyped, CamPlaces, CamParts
  <2>3. Taken'
    BY <2>1 DEF CamTyped, Taken
  <2>4. NotTaken'
    BY <2>1 DEF CamTyped, NotTaken
  <2>5. StandsOn'
    BY <2>1 DEF CamTyped, StandsOn
  <2>6. OnTheirWay'
    BY <2>1 DEF CamTyped, OnTheirWay
  <2> QED
    BY <2>2, <2>3, <2>4, <2>5, <2>6
<1>6. CASE Camera!CreateRequests
  <2>1. /\ cam_at = "requests" /\ UNCHANGED <<cam_running, cam_callback, frame_ready, in_sequence, cam_evidence>>
        /\ \/ /\ cam_at' = "start" /\ cam_held' = cam_held
              /\ requests' = [i \in Camera!Requests |-> "idle"]
           \/ /\ cam_at' = "off" /\ requests' = requests
              /\ cam_held' = cam_held \ {"buffers", "allocator"}
    BY <1>6 DEF Camera!CreateRequests
  <2>2. CamTyped'
    BY <2>1 DEF CamTyped, CamPlaces, CamParts
  <2>3. Taken'
    BY <2>1 DEF CamTyped, Taken
  <2>4. NotTaken'
    BY <2>1 DEF CamTyped, NotTaken
  <2>5. StandsOn'
    <3>1. requests = Camera!Gone /\ "stream" \notin cam_held
      BY <2>1 DEF NotTaken
    <3>2. \A i \in Camera!Requests : requests[i] = "none"
      BY <3>1 DEF Camera!Gone
    <3> QED
      BY <2>1, <3>1, <3>2 DEF Taken, StandsOn
  <2>6. OnTheirWay'
    BY <2>1 DEF CamTyped, OnTheirWay
  <2> QED
    BY <2>2, <2>3, <2>4, <2>5, <2>6
<1>7. CASE Camera!StartStream
  <2>1. /\ cam_at = "start" /\ UNCHANGED <<requests, cam_callback, frame_ready, in_sequence, cam_evidence>>
        /\ \/ cam_at' = "queue" /\ cam_running' /\ cam_held' = cam_held \cup {"stream", "callback"}
           \/ cam_at' = "off" /\ cam_held' = cam_held /\ cam_running' = cam_running
    BY <1>7 DEF Camera!StartStream
  <2>2. CamTyped'
    BY <2>1 DEF CamTyped, CamPlaces, CamParts
  <2>3. Taken'
    BY <2>1 DEF CamTyped, Taken
  <2>4. NotTaken'
    BY <2>1 DEF CamTyped, NotTaken
  <2>5. StandsOn'
    BY <2>1 DEF Taken, StandsOn
  <2>6. OnTheirWay'
    BY <2>1 DEF CamTyped, OnTheirWay
  <2> QED
    BY <2>2, <2>3, <2>4, <2>5, <2>6
<1>8. CASE Camera!QueueRequest
  <2>1. /\ cam_at = "queue" /\ UNCHANGED <<cam_held, cam_running, cam_callback, frame_ready, in_sequence, cam_evidence>>
        /\ \E i \in Camera!Requests :
             /\ requests[i] = "idle"
             /\ \/ cam_at' = "queue" /\ requests' = [requests EXCEPT ![i] = "queued"]
                \/ cam_at' = "off" /\ requests' = requests
    BY <1>8 DEF Camera!QueueRequest
  <2>2. CamTyped'
    BY <2>1 DEF CamTyped, CamPlaces, CamParts
  <2>3. Taken'
    BY <2>1 DEF CamTyped, Taken
  <2>4. NotTaken'
    BY <2>1 DEF CamTyped, NotTaken
  <2>5. StandsOn'
    <3>1. CASE requests' = requests
      BY <2>1, <3>1 DEF StandsOn
    <3>2. CASE requests' # requests
      <4> PICK i \in Camera!Requests :
            requests[i] = "idle" /\ requests' = [requests EXCEPT ![i] = "queued"]
        BY <2>1, <3>2
      <4>1. \A j \in Camera!Requests : requests'[j] # "none" => requests[j] # "none"
        BY DEF CamTyped
      <4>2. requests[cam_callback.of] = "completed" => requests'[cam_callback.of] = "completed"
        BY DEF CamTyped
      <4> QED
        BY <2>1, <4>1, <4>2 DEF StandsOn
    <3> QED
      BY <3>1, <3>2
  <2>6. OnTheirWay'
    BY <2>1 DEF CamTyped, OnTheirWay
  <2> QED
    BY <2>2, <2>3, <2>4, <2>5, <2>6
<1>9. CASE Camera!Started
  <2>1. /\ cam_at = "queue" /\ cam_at' = "open" /\ \A i \in Camera!Requests : requests[i] # "idle"
        /\ UNCHANGED <<cam_held, cam_running, requests, cam_callback, frame_ready, in_sequence, cam_evidence>>
    BY <1>9 DEF Camera!Started
  <2>2. CamTyped'
    BY <2>1 DEF CamTyped, CamPlaces, CamParts
  <2>3. Taken'
    BY <2>1 DEF CamTyped, Taken
  <2>4. NotTaken'
    BY <2>1 DEF CamTyped, NotTaken
  <2>5. StandsOn'
    BY <2>1 DEF CamTyped, StandsOn
  <2>6. OnTheirWay'
    BY <2>1 DEF CamTyped, OnTheirWay
  <2> QED
    BY <2>2, <2>3, <2>4, <2>5, <2>6
<1> QED
  BY <1>1, <1>2, <1>3, <1>4, <1>5, <1>6, <1>7, <1>8, <1>9 DEF Camera!CamStart

(* The page.                                                               *)
LEMMA PageCamera ==
  ASSUME CamInv,
         Camera!OpenCamera \/ Camera!ShowFrame \/ Camera!CloseCamera
  PROVE  CamInv'
<1> USE DEF CamInv, Camera!pageVars, Camera!Stays, Camera!Fail, Camera!Takes
<1>1. CASE Camera!OpenCamera
  <2>1. /\ cam_at = "closed" /\ ~cam_evidence' /\ cam_at' \in {"manager", "error"}
        /\ UNCHANGED <<cam_held, cam_running, requests, cam_callback, frame_ready>>
    BY <1>1 DEF Camera!OpenCamera
  <2>2. CamTyped'
    BY <2>1 DEF CamTyped, CamPlaces, CamParts
  <2>3. Taken'
    BY <2>1 DEF CamTyped, Taken
  <2>4. NotTaken'
    BY <2>1 DEF CamTyped, NotTaken
  <2>5. StandsOn'
    BY <2>1 DEF CamTyped, StandsOn
  <2>6. OnTheirWay'
    BY <2>1 DEF CamTyped, OnTheirWay
  <2> QED
    BY <2>2, <2>3, <2>4, <2>5, <2>6
<1>2. CASE Camera!ShowFrame
  <2>1. /\ cam_at = "open" /\ frame_ready /\ (cam_evidence' => cam_evidence \/ in_sequence)
        /\ UNCHANGED <<cam_at, cam_held, cam_running, requests, cam_callback, frame_ready, in_sequence>>
    BY <1>2 DEF Camera!ShowFrame
  <2>2. CamTyped'
    BY <2>1 DEF CamTyped, CamPlaces, CamParts
  <2>3. Taken'
    BY <2>1 DEF CamTyped, Taken
  <2>4. NotTaken'
    BY <2>1 DEF CamTyped, NotTaken
  <2>5. StandsOn'
    BY <2>1 DEF CamTyped, StandsOn
  <2>6. OnTheirWay'
    BY <2>1 DEF CamTyped, OnTheirWay
  <2> QED
    BY <2>2, <2>3, <2>4, <2>5, <2>6
<1>3. CASE Camera!CloseCamera
  <2>1. /\ \/ cam_at = "open" /\ cam_at' = "off"
           \/ cam_at = "error" /\ cam_at' = "closed"
        /\ UNCHANGED <<cam_held, cam_running, requests, cam_callback, frame_ready, in_sequence, cam_evidence>>
    BY <1>3 DEF Camera!CloseCamera
  <2>2. CamTyped'
    BY <2>1 DEF CamTyped, CamPlaces, CamParts
  <2>3. Taken'
    BY <2>1 DEF CamTyped, Taken
  <2>4. NotTaken'
    BY <2>1 DEF CamTyped, NotTaken
  <2>5. StandsOn'
    BY <2>1 DEF CamTyped, StandsOn
  <2>6. OnTheirWay'
    BY <2>1 DEF CamTyped, OnTheirWay
  <2> QED
    BY <2>2, <2>3, <2>4, <2>5, <2>6
<1> QED
  BY <1>1, <1>2, <1>3

(* Stop, in its order.                                                     *)
LEMMA StopCamera ==
  ASSUME CamInv,
         Camera!CamStop
  PROVE  CamInv'
<1> USE DEF CamInv, Camera!pageVars, Camera!Stays, Camera!Fail, Camera!Takes
<1>1. CASE Camera!TurnOff
  <2>1. /\ cam_at = "off" /\ cam_at' = "disconnect" /\ cam_held' = cam_held \ {}
        /\ UNCHANGED <<cam_callback, in_sequence, cam_evidence>>
        /\ ~cam_running' /\ UNCHANGED <<requests, frame_ready>>
    BY <1>1, StopsInOrder DEF Camera!TurnOff, Camera!StopStep
  <2>2. CamTyped'
    BY <2>1 DEF CamTyped, CamPlaces, CamParts
  <2>3. Taken'
    BY <2>1 DEF CamTyped, Taken
  <2>4. NotTaken'
    BY <2>1 DEF CamTyped, NotTaken
  <2>5. StandsOn'
    BY <2>1 DEF CamTyped, StandsOn
  <2>6. OnTheirWay'
    BY <2>1 DEF CamTyped, OnTheirWay
  <2> QED
    BY <2>2, <2>3, <2>4, <2>5, <2>6
<1>2. CASE Camera!Disconnect
  <2>1. /\ cam_at = "disconnect" /\ cam_at' = "halt" /\ cam_held' = cam_held \ {"callback"}
        /\ UNCHANGED <<cam_callback, in_sequence, cam_evidence>>
        /\ UNCHANGED <<cam_running, requests, frame_ready>>
    BY <1>2, StopsInOrder DEF Camera!Disconnect, Camera!StopStep
  <2>2. CamTyped'
    BY <2>1 DEF CamTyped, CamPlaces, CamParts
  <2>3. Taken'
    BY <2>1 DEF CamTyped, Taken
  <2>4. NotTaken'
    BY <2>1 DEF CamTyped, NotTaken
  <2>5. StandsOn'
    BY <2>1 DEF CamTyped, StandsOn
  <2>6. OnTheirWay'
    BY <2>1 DEF CamTyped, OnTheirWay
  <2> QED
    BY <2>2, <2>3, <2>4, <2>5, <2>6
<1>3. CASE Camera!Halt
  <2>1. /\ cam_at = "halt" /\ cam_at' = "clear" /\ cam_held' = cam_held \ {"stream"}
        /\ UNCHANGED <<cam_callback, in_sequence, cam_evidence>>
        /\ ("stream" \in cam_held => cam_callback.at = "idle") /\ UNCHANGED <<cam_running, frame_ready>>
        /\ requests' = [i \in Camera!Requests |-> IF requests[i] = "queued" THEN "dropped" ELSE requests[i]]
    BY <1>3, StopsInOrder DEF Camera!CallbackAt, Camera!Halt, Camera!StopStep
  <2>2. CamTyped'
    BY <2>1 DEF CamTyped, CamPlaces, CamParts
  <2>3. Taken'
    BY <2>1 DEF CamTyped, Taken
  <2>4. NotTaken'
    BY <2>1 DEF CamTyped, NotTaken
  <2>5. StandsOn'
    BY <2>1 DEF CamTyped, StandsOn
  <2>6. OnTheirWay'
    BY <2>1 DEF CamTyped, OnTheirWay
  <2> QED
    BY <2>2, <2>3, <2>4, <2>5, <2>6
<1>4. CASE Camera!Clear
  <2>1. /\ cam_at = "clear" /\ cam_at' = "release" /\ cam_held' = cam_held \ {"buffers", "allocator"}
        /\ UNCHANGED <<cam_callback, in_sequence, cam_evidence>>
        /\ requests' = Camera!Gone /\ UNCHANGED <<cam_running, frame_ready>>
    BY <1>4, StopsInOrder DEF Camera!Clear, Camera!StopStep
  <2>2. CamTyped'
    <3>1. requests' \in [Camera!Requests -> {"none", "idle", "queued", "completed", "dropped", "lost"}]
      BY <2>1 DEF Camera!Gone
    <3> QED
      BY <2>1, <3>1 DEF CamTyped, CamPlaces
  <2>3. Taken'
    BY <2>1 DEF Taken
  <2>4. NotTaken'
    <3>1. Camera!Gone' = Camera!Gone
      BY DEF Camera!Gone
    <3> QED
      BY <2>1, <3>1 DEF NotTaken
  <2>5. StandsOn'
    <3>1. "stream" \notin cam_held
      BY <2>1 DEF NotTaken
    <3>2. \A i \in Camera!Requests : requests'[i] = "none"
      BY <2>1 DEF Camera!Gone
    <3> QED
      BY <2>1, <3>1, <3>2 DEF StandsOn
  <2>6. OnTheirWay'
    BY <2>1 DEF OnTheirWay
  <2> QED
    BY <2>2, <2>3, <2>4, <2>5, <2>6
<1>5. CASE Camera!Release
  <2>1. /\ cam_at = "release" /\ cam_at' \in {"closed", "error"} /\ cam_held' = cam_held \ {"camera", "manager"}
        /\ UNCHANGED <<cam_callback, in_sequence, cam_evidence>>
        /\ ~frame_ready' /\ UNCHANGED <<cam_running, requests>>
    BY <1>5, StopsInOrder DEF Camera!Release, Camera!StopStep
  <2>2. CamTyped'
    BY <2>1 DEF CamTyped, CamPlaces, CamParts
  <2>3. Taken'
    BY <2>1 DEF CamTyped, Taken
  <2>4. NotTaken'
    <3>1. requests' = Camera!Gone
      BY <2>1 DEF NotTaken
    <3>2. cam_held' = {}
      BY <2>1 DEF NotTaken, CamTyped, CamParts
    <3> QED
      BY <2>1, <3>1, <3>2 DEF NotTaken
  <2>5. StandsOn'
    <3>1. "stream" \notin cam_held /\ requests = Camera!Gone
      BY <2>1 DEF NotTaken
    <3>2. \A i \in Camera!Requests : requests'[i] = "none"
      BY <2>1, <3>1 DEF Camera!Gone
    <3> QED
      BY <2>1, <3>1, <3>2 DEF StandsOn
  <2>6. OnTheirWay'
    BY <2>1 DEF CamTyped, OnTheirWay
  <2> QED
    BY <2>2, <2>3, <2>4, <2>5, <2>6
<1> QED
  BY <1>1, <1>2, <1>3, <1>4, <1>5 DEF Camera!CamStop

(* One request goes on, with the callback or past it.                      *)
LEMMA RequestGoesOn ==
  ASSUME CamInv, "stream" \in cam_held, NEW i \in Camera!Requests,
         UNCHANGED <<cam_at, cam_held, cam_running, in_sequence, cam_evidence>>,
         frame_ready => frame_ready',
         requests' \in [Camera!Requests -> {"none", "idle", "queued", "completed", "dropped", "lost"}],
         requests'[i] \in {"queued", "completed", "dropped", "lost"},
         \A j \in Camera!Requests \ {i} : requests'[j] = requests[j],
         cam_callback' \in [at : {"idle", "completed", "copy", "requeue"}, of : 0 .. Buffers],
         cam_callback'.at = "idle" <=> cam_callback'.of = 0,
         cam_callback'.at # "idle" => cam_callback'.of = i /\ requests'[i] = "completed",
         cam_callback.of \in {0, i},
         cam_at \in {"queue", "open"} /\ requests'[i] \in {"completed", "dropped"} =>
           cam_callback'.of = i
  PROVE  CamInv'
<1> USE DEF CamInv
<1>1. cam_at \in {"queue", "open", "off", "disconnect", "halt"}
  BY DEF NotTaken
<1>2. 0 \notin Camera!Requests
  BY JobConstants DEF Camera!Requests
<1>3. CamTyped'
  BY DEF CamTyped
<1>4. Taken'
  BY DEF Taken
<1>5. NotTaken'
  <2>1. frame_ready' \/ cam_at' \notin {"closed", "error"}
    BY <1>1
  <2> QED
    BY <1>1, <2>1 DEF NotTaken
<1>6. StandsOn'
  BY DEF StandsOn
<1>7. OnTheirWay'
  <2>1. ASSUME cam_at \in {"start", "queue", "open"}, NEW j \in Camera!Requests
        PROVE  requests'[j] \in {"idle", "queued", "lost"} \/ cam_callback'.of = j
    <3>1. CASE j = i
      BY <1>1, <2>1, <3>1
    <3>2. CASE j # i
      BY <1>2, <2>1, <3>2 DEF OnTheirWay
    <3> QED
      BY <3>1, <3>2
  <2>2. ASSUME cam_at = "open", NEW j \in Camera!Requests PROVE requests'[j] # "idle"
    BY <2>2 DEF OnTheirWay
  <2> QED
    BY <2>1, <2>2 DEF OnTheirWay
<1> QED
  BY <1>3, <1>4, <1>5, <1>6, <1>7

(* libcamera's thread.                                                     *)
LEMMA CallbackCamera ==
  ASSUME CamInv,
         Camera!CamCallback \/ \E i \in Camera!Requests : Camera!Complete(i)
  PROVE  CamInv'
<1> USE DEF Camera!pageVars, Camera!CameraThread, Camera!CallbackAt, Camera!Becomes, Camera!GoesTo,
            Camera!AtRest
<1>1. /\ requests \in [Camera!Requests -> {"none", "idle", "queued", "completed", "dropped", "lost"}]
      /\ cam_callback \in [at : {"idle", "completed", "copy", "requeue"}, of : 0 .. Buffers]
      /\ Camera!Requests = 1 .. Buffers /\ Buffers \in Nat
      /\ cam_callback.at = "idle" <=> cam_callback.of = 0
      /\ cam_callback.at # "idle" => "stream" \in cam_held /\ requests[cam_callback.of] = "completed"
  BY JobConstants DEF CamInv, CamTyped, StandsOn, Camera!Requests
<1>2. ASSUME cam_callback.at # "idle" PROVE cam_callback.of \in Camera!Requests
  BY <1>1, <1>2
<1>3. [at |-> "idle", of |-> 0] \in [at : {"idle", "completed", "copy", "requeue"}, of : 0 .. Buffers]
  BY <1>1
<1>4. CASE Camera!CheckRequest
  <2>1. cam_callback.at = "completed" /\ UNCHANGED <<cam_at, cam_held, cam_running, in_sequence, cam_evidence, frame_ready>>
    BY <1>4 DEF Camera!CheckRequest
  <2>2. CASE cam_running
    <3> PICK at \in {"copy", "requeue"} :
          cam_callback' = [cam_callback EXCEPT !.at = at] /\ requests' = requests
      BY <1>4, <2>2 DEF Camera!CheckRequest
    <3>1. /\ cam_callback' \in [at : {"idle", "completed", "copy", "requeue"}, of : 0 .. Buffers]
          /\ cam_callback'.at # "idle" /\ cam_callback'.of = cam_callback.of
          /\ cam_callback'.of # 0
      BY <1>1, <2>1
    <3> QED
      BY <1>1, <1>2, <2>1, <3>1, RequestGoesOn
  <2>3. CASE ~cam_running
    <3>1. /\ cam_callback' = [at |-> "idle", of |-> 0]
          /\ requests' = [requests EXCEPT ![cam_callback.of] = "dropped"]
      BY <1>4, <2>3 DEF Camera!CheckRequest
    <3>2. cam_at \notin {"queue", "open"}
      BY <2>3 DEF CamInv, Taken
    <3> QED
      BY <1>1, <1>2, <1>3, <2>1, <3>1, <3>2, RequestGoesOn
  <2> QED
    BY <2>2, <2>3
<1>5. CASE Camera!CopyFrame
  <2>1. /\ cam_callback.at = "copy" /\ UNCHANGED <<cam_at, cam_held, cam_running, in_sequence, cam_evidence, requests>>
        /\ cam_callback' = [cam_callback EXCEPT !.at = "requeue"]
    BY <1>5 DEF Camera!CopyFrame
  <2>2. frame_ready => frame_ready'
    BY <1>5, Zenon DEF Camera!CopyFrame
  <2>3. /\ cam_callback' \in [at : {"idle", "completed", "copy", "requeue"}, of : 0 .. Buffers]
        /\ cam_callback'.at # "idle" /\ cam_callback'.of = cam_callback.of
        /\ cam_callback'.of # 0
    BY <1>1, <2>1
  <2> QED
    BY <1>1, <1>2, <2>1, <2>2, <2>3, RequestGoesOn
<1>6. CASE Camera!Requeue
  <2> PICK where \in {"queued", "lost"} : requests' = [requests EXCEPT ![cam_callback.of] = where]
    BY <1>6 DEF Camera!Requeue
  <2>1. /\ cam_callback.at = "requeue" /\ UNCHANGED <<cam_at, cam_held, cam_running, in_sequence, cam_evidence, frame_ready>>
        /\ cam_callback' = [at |-> "idle", of |-> 0]
    BY <1>6 DEF Camera!Requeue
  <2> QED
    BY <1>1, <1>2, <1>3, <2>1, RequestGoesOn
<1>7. CASE \E i \in Camera!Requests : Camera!Complete(i)
  <2> PICK i \in Camera!Requests : Camera!Complete(i)
    BY <1>7
  <2>1. /\ cam_callback.at = "idle" /\ "stream" \in cam_held /\ requests[i] = "queued"
        /\ UNCHANGED <<cam_at, cam_held, cam_running, in_sequence, cam_evidence, frame_ready>>
    BY DEF Camera!Complete
  <2>2. CASE "callback" \in cam_held
    <3>1. /\ cam_callback' = [at |-> "completed", of |-> i]
          /\ requests' = [requests EXCEPT ![i] = "completed"]
      BY <2>2 DEF Camera!Complete
    <3>2. /\ cam_callback' \in [at : {"idle", "completed", "copy", "requeue"}, of : 0 .. Buffers]
          /\ cam_callback'.at # "idle" /\ cam_callback'.of = i /\ i # 0
      BY <1>1, <3>1
    <3> QED
      BY <1>1, <2>1, <3>1, <3>2, RequestGoesOn
  <2>3. CASE "callback" \notin cam_held
    <3>1. cam_callback' = cam_callback /\ requests' = [requests EXCEPT ![i] = "dropped"]
      BY <2>3 DEF Camera!Complete
    <3>2. cam_at \notin {"queue", "open"}
      BY <2>3 DEF CamInv, Taken
    <3> QED
      BY <1>1, <2>1, <3>1, <3>2, RequestGoesOn
  <2> QED
    BY <2>2, <2>3
<1> QED
  BY <1>4, <1>5, <1>6, <1>7 DEF Camera!CamCallback

(* Every step keeps it.                                                    *)
LEMMA NextCamera == CamInv /\ [JobNext]_jobVars => CamInv'
<1> SUFFICES ASSUME CamInv, [JobNext]_jobVars PROVE CamInv'
  OBVIOUS
<1>1. CASE Camera!CamNext
  BY <1>1, StartCamera, PageCamera, StopCamera, CallbackCamera DEF Camera!CamNext
<1>2. CASE UNCHANGED camera
  BY <1>2 DEF camera, CamInv, CamTyped, Taken, NotTaken, StandsOn, OnTheirWay
<1> QED
  BY <1>1, <1>2 DEF JobNext, jobVars, RunCommand, TestPerformance, TestAudio, MakeSounds,
     ReadJack, TestCamera, BakePi, TestDisplay, WriteLogs, KeepConfig

-----------------------------------------------------------------------------
(* LcdTest.                                                                *)

(* The patterns: a colour that is on display was told, unless Tab went on  *)
(* to the brightness before the first.                                     *)
PatternsInv ==
  /\ color \in Nat
  /\ dimming <=> tile = "brightness"
  /\ overlay => color # 0 /\ ~dimming
  /\ color = 0 => seen = 0
  /\ color # 0 /\ ~dimming => seen = 1

(* The levels: one timer runs at a time, and leads to the last request.    *)
LevelsInv ==
  /\ smooth => ~commit
  /\ ~commit => target = requested
  /\ requested # target => dimming
  /\ ~commit /\ ~smooth => believed = requested /\ (stored = "yes" => backlight = requested)

(* The inductive invariant of LcdTest.                                     *)
LcdInv ==
  /\ lcd_at = "new" => ~commit /\ ~smooth /\ stored = "no"
  /\ lcd_at # "left" => PatternsInv /\ LevelsInv

(* A timer that has stopped has reached the last request.                  *)
LEMMA LcdInvGivesFollows == ASSUME LcdInv PROVE Lcd!DisplayFollows
<1>1. ASSUME lcd_at = "open" PROVE dimming => tile = "brightness" /\ ~overlay
  BY <1>1 DEF LcdInv, PatternsInv
<1>2. ASSUME lcd_at = "open" PROVE overlay => seen = 1
  BY <1>2 DEF LcdInv, PatternsInv
<1>3. ASSUME lcd_at = "open"
      PROVE  /\ smooth => target = requested
             /\ ~commit /\ ~smooth => believed = requested /\ (stored = "yes" => backlight = requested)
             /\ requested # target => dimming /\ commit
  BY <1>3 DEF LcdInv, LevelsInv
<1> QED
  BY <1>1, <1>2, <1>3 DEF Lcd!DisplayFollows

(* It holds when the page opens at the brightness it found.                *)
LEMMA InitLcd == ASSUME Lcd!LcdInit PROVE LcdInv
  BY DEF Lcd!LcdInit, LcdInv, PatternsInv, LevelsInv, Lcd!VisualSteps

(* The patterns go on.                                                     *)
LEMMA PatternsGoOn ==
  ASSUME PatternsInv, Lcd!AdvanceColor \/ Lcd!NextTile
  PROVE  PatternsInv' /\ (dimming => dimming')
<1> USE DEF PatternsInv
<1>1. CASE Lcd!AdvanceColor
  <2>1. /\ color \in Nat /\ ~dimming /\ color' = Lcd!Least(color + 1, 11)
        /\ color = 0 /\ seen = 0 => seen' = 1
        /\ color # 0 => seen' = seen
    BY <1>1 DEF Lcd!AdvanceColor, Lcd!AdvanceColorIndex, Lcd!Show, Lcd!VisualSteps
  <2>2. color' \in Nat /\ color' # 0 /\ seen' = 1
    BY <2>1 DEF Lcd!Least
  <2>3. /\ dimming' = (color = 11) /\ tile' = IF color = 11 THEN "brightness" ELSE "color"
        /\ overlay' => color # 11
    BY <1>1, Zenon DEF Lcd!AdvanceColor, Lcd!AdvanceColorIndex, Lcd!Show, Lcd!VisualSteps
  <2>4. dimming' <=> color = 11
    BY <2>3, Zenon
  <2>5. (dimming' <=> tile' = "brightness") /\ (overlay' => ~dimming')
    BY <2>3, <2>4
  <2> QED
    BY <2>1, <2>2, <2>5
<1>2. CASE Lcd!NextTile
  <2>1. color' = 11 + 1 /\ dimming' /\ tile' = "brightness" /\ ~overlay'
    BY <1>2, Zenon DEF Lcd!NextTile, Lcd!StartBrightness, Lcd!Show, Lcd!VisualSteps
  <2> QED
    BY <2>1
<1> QED
  BY <1>1, <1>2

(* Every step keeps it.                                                    *)
LEMMA NextLcd == LcdInv /\ [JobNext]_jobVars => LcdInv'
<1> SUFFICES ASSUME LcdInv, [JobNext]_jobVars PROVE LcdInv'
  OBVIOUS
<1>1. CASE Lcd!OpenLcd
  <2>1. PatternsInv /\ LevelsInv /\ ~commit /\ ~smooth /\ stored = "no"
    BY <1>1 DEF LcdInv, Lcd!OpenLcd
  <2>2. UNCHANGED <<color, dimming, tile, overlay, seen, commit, smooth, stored>>
    BY <1>1 DEF Lcd!OpenLcd, Lcd!patterns
  <2>3. PatternsInv'
    BY <2>1, <2>2 DEF PatternsInv
  <2>4. target' = requested' /\ believed' = requested'
    BY <1>1 DEF Lcd!OpenLcd
  <2>5. LevelsInv'
    BY <2>1, <2>2, <2>4 DEF LevelsInv
  <2> QED
    BY <1>1, <2>3, <2>5 DEF LcdInv, Lcd!OpenLcd
<1>2. CASE Lcd!AdvanceColor \/ Lcd!NextTile
  <2>1. lcd_at = "open" /\ lcd_at' = "open" /\ PatternsInv /\ LevelsInv
    BY <1>2 DEF LcdInv, Lcd!AdvanceColor, Lcd!NextTile
  <2>2. PatternsInv' /\ (dimming => dimming')
    BY <1>2, <2>1, PatternsGoOn
  <2>3. /\ UNCHANGED <<requested, target, believed, backlight, stored>>
        /\ \/ commit' /\ ~smooth'
           \/ UNCHANGED <<commit, smooth>>
    BY <1>2 DEF Lcd!AdvanceColor, Lcd!NextTile, Lcd!ToldAgain, Lcd!Schedule, Lcd!levels
  <2>4. LevelsInv'
    BY <2>1, <2>2, <2>3 DEF LevelsInv
  <2> QED
    BY <2>1, <2>2, <2>4 DEF LcdInv
<1>3. CASE Lcd!ChangeBrightness
  <2>1. /\ lcd_at = "open" /\ lcd_at' = "open" /\ PatternsInv /\ LevelsInv
        /\ UNCHANGED <<color, dimming, tile, overlay, seen, target, believed, backlight, stored>>
    BY <1>3 DEF LcdInv, Lcd!ChangeBrightness, Lcd!patterns, Lcd!levels
  <2>2. PatternsInv' /\ dimming
    BY <1>3, <2>1 DEF PatternsInv, Lcd!ChangeBrightness
  <2>3. \/ commit' /\ ~smooth'
        \/ requested' = requested /\ UNCHANGED <<commit, smooth>>
    BY <1>3 DEF Lcd!ChangeBrightness, Lcd!ToldAgain, Lcd!Schedule
  <2>4. LevelsInv'
    BY <2>1, <2>2, <2>3 DEF LevelsInv
  <2> QED
    BY <2>1, <2>2, <2>4 DEF LcdInv
<1>4. CASE Lcd!Commit
  <2>1. /\ lcd_at = "open" /\ lcd_at' = "open" /\ PatternsInv /\ LevelsInv
        /\ UNCHANGED <<color, dimming, tile, overlay, seen, requested>>
        /\ commit /\ ~commit' /\ target' = requested
    BY <1>4 DEF LcdInv, Lcd!Commit, Lcd!patterns
  <2>2. PatternsInv'
    BY <2>1 DEF PatternsInv
  <2>3. LevelsInv'
    <3>1. CASE believed' = target'
      <4>1. UNCHANGED smooth /\ (stored' = "yes" => backlight' = target')
        BY <1>4, <3>1 DEF Lcd!Commit, Lcd!Write
      <4> QED
        BY <2>1, <3>1, <4>1, <1>4 DEF LevelsInv, Lcd!Commit
    <3>2. CASE believed' # target'
      BY <1>4, <2>1, <3>2 DEF LevelsInv, Lcd!Commit
    <3> QED
      BY <3>1, <3>2
  <2> QED
    BY <2>1, <2>2, <2>3 DEF LcdInv
<1>5. CASE Lcd!Smooth
  <2>1. /\ lcd_at = "open" /\ lcd_at' = "open" /\ PatternsInv /\ LevelsInv
        /\ UNCHANGED <<color, dimming, tile, overlay, seen, requested, target, commit>>
        /\ smooth /\ smooth' = (believed' # target)
    BY <1>5 DEF LcdInv, Lcd!Smooth, Lcd!patterns
  <2>2. PatternsInv'
    BY <2>1 DEF PatternsInv
  <2>3. stored' = "yes" => backlight' = believed'
    BY <1>5 DEF Lcd!Smooth, Lcd!Write
  <2>4. LevelsInv'
    BY <2>1, <2>3 DEF LevelsInv
  <2> QED
    BY <2>1, <2>2, <2>4 DEF LcdInv
<1>6. CASE Lcd!LeaveLcd
  BY <1>6 DEF LcdInv, Lcd!LeaveLcd
<1>7. CASE UNCHANGED lcd
  BY <1>7 DEF lcd, LcdInv, PatternsInv, LevelsInv
<1> QED
  BY <1>1, <1>2, <1>3, <1>4, <1>5, <1>6, <1>7 DEF Lcd!LcdNext, JobNext, jobVars, RunCommand,
     TestPerformance, TestAudio, MakeSounds, ReadJack, TestCamera, BakePi, TestDisplay,
     WriteLogs, KeepConfig

-----------------------------------------------------------------------------
(* BakingPi.                                                               *)

BakerPlaces == {"none", "cycle", "launch", "list", "flag", "round", "wait_term", "wait_kill", "gap",
                "kill_last", "ended"}
Launching   == {"launch", "list", "flag"}

(* The processes: those that run are listed, or are about to be; of each   *)
(* workload one is listed.  None is while the worker is between cycles, or *)
(* at its end.                                                             *)
OnePerWorkload ==
  /\ Baking!None \notin alive /\ alive \subseteq listed \cup {forked}
  /\ \A p, q \in listed : p.of = q.of => p = q
  /\ baker \notin {"list", "flag"} => forked = Baking!None
  /\ baker = "list" => forked.of \in todo
  /\ baker = "flag" => forked \in listed
  /\ baker \in {"none", "cycle", "gap", "kill_last", "ended"} => listed = {}

(* The flags are those of the processes that are listed, and no process is *)
(* of a workload that is still to be launched.                             *)
FlagsTrue ==
  /\ up \in [Workloads -> BOOLEAN] /\ todo \subseteq Workloads /\ spawned \in Nat
  /\ \A w \in Workloads : up[w] => \E p \in listed : p.of = w
  /\ \A p \in listed :
       /\ p.of \in Workloads
       /\ up[p.of] \/ (baker = "flag" /\ p = forked)
       /\ baker \in Launching => p.of \notin todo \/ (baker = "flag" /\ p = forked)

(* The page, its stop and what it tells.                                   *)
FirePage ==
  /\ baker \in BakerPlaces
  /\ fire_at = "wait" => baker = "ended"
  /\ fire_at = "closed" => baker \in {"none", "ended"}
  /\ baker = "none" => fire_at = "closed" /\ label = "step"
  /\ in_gap => baker \in {"gap", "cycle", "kill_last", "ended"}
  /\ label = "error" => baking_error /\ ~steps

(* The inductive invariant of BakingPi.                                    *)
BakingInv == OnePerWorkload /\ FlagsTrue /\ FirePage

(* A closed page has left no process.                                      *)
LEMMA BakingInvContains == ASSUME BakingInv PROVE Baking!PressureContained
<1> USE DEF BakingInv
<1>1. ASSUME NEW w \in DOMAIN up PROVE Cardinality(Baking!Running(w)) <= 1
  <2>1. \A p, q \in Baking!Running(w) : p = q
    <3>1. \A p, q \in alive : p.of = q.of => p = q
      <4>1. ASSUME NEW p \in listed, forked \in alive, p.of = forked.of PROVE p = forked
        <5>1. forked # Baking!None
          BY <4>1 DEF OnePerWorkload
        <5>2. CASE baker = "list"
          BY <4>1, <5>2 DEF OnePerWorkload, FlagsTrue, Launching
        <5>3. CASE baker = "flag"
          BY <4>1, <5>3 DEF OnePerWorkload
        <5> QED
          BY <5>1, <5>2, <5>3 DEF OnePerWorkload
      <4> QED
        BY <4>1 DEF OnePerWorkload
    <3> QED
      BY <3>1 DEF Baking!Running
  <2>2. CASE Baking!Running(w) = {}
    BY <2>2, FS_EmptySet
  <2>3. CASE Baking!Running(w) # {}
    <3> PICK p \in Baking!Running(w) : TRUE
      BY <2>3
    <3>1. Baking!Running(w) = {p}
      BY <2>1
    <3> QED
      BY <3>1, FS_Singleton
  <2> QED
    BY <2>2, <2>3
<1>2. alive \subseteq listed \cup {forked}
  BY DEF OnePerWorkload
<1>3. \A w \in DOMAIN up : up[w] => \E p \in listed : p.of = w
  BY DEF FlagsTrue
<1>4. baker \in {"none", "cycle", "gap", "kill_last", "ended"} => alive = {} /\ listed = {}
  BY DEF OnePerWorkload
<1>5. in_gap /\ baker \notin {"cycle", "launch"} => alive = {} /\ listed = {}
  BY <1>4 DEF FirePage
<1>6. fire_at = "closed" => alive = {} /\ listed = {}
  BY <1>4 DEF FirePage
<1>7. label = "error" => ~steps
  BY DEF FirePage
<1>8. \A w \in DOMAIN up : Baking!Cardinality(Baking!Running(w)) <= 1
  <2>1. \A S : Baking!Cardinality(S) = Cardinality(S)
    BY Zenon DEF Baking!Cardinality, Cardinality
  <2> QED
    BY <1>1, <2>1
<1> QED
  BY <1>2, <1>3, <1>5, <1>6, <1>7, <1>8 DEF Baking!PressureContained

(* It holds before the first cycle.                                        *)
LEMMA InitBaking == ASSUME Baking!BakingInit PROVE BakingInv
<1>1. OnePerWorkload /\ FirePage
  BY DEF Baking!BakingInit, OnePerWorkload, FirePage, BakerPlaces
<1>2. FlagsTrue
  BY DEF Baking!BakingInit, FlagsTrue
<1> QED
  BY <1>1, <1>2 DEF BakingInv

(* Some processes that have ended are reaped, outside of a launch.         *)
LEMMA Reaped ==
  ASSUME BakingInv, NEW ended, Baking!Reap(ended), ended \subseteq listed, ended \cap alive = {},
         alive' = alive, forked' = forked, spawned' = spawned,
         forked = Baking!None, baker \notin Launching
  PROVE  /\ up' \in [Workloads -> BOOLEAN]
         /\ listed' = listed \ ended /\ alive' \subseteq listed' /\ Baking!None \notin alive'
         /\ \A p, q \in listed' : p.of = q.of => p = q
         /\ \A w \in Workloads : up'[w] => \E p \in listed' : p.of = w
         /\ \A p \in listed' : p.of \in Workloads /\ up'[p.of]
<1> USE DEF BakingInv
<1>1. listed' = listed \ ended /\ up' = [w \in DOMAIN up |-> up[w] /\ \A p \in ended : p.of # w]
  BY DEF Baking!Reap
<1>2. up \in [Workloads -> BOOLEAN]
  BY DEF FlagsTrue
<1>3. up' \in [Workloads -> BOOLEAN]
  BY <1>1, <1>2
<1>4. \A w \in Workloads : up'[w] <=> up[w] /\ \A p \in ended : p.of # w
  BY <1>1, <1>2
<1>5. alive' \subseteq listed' /\ Baking!None \notin alive'
  BY <1>1 DEF OnePerWorkload
<1>6. \A p, q \in listed' : p.of = q.of => p = q
  BY <1>1 DEF OnePerWorkload
<1>7. ASSUME NEW w \in Workloads, up'[w] PROVE \E p \in listed' : p.of = w
  <2>1. PICK p \in listed : p.of = w
    BY <1>4, <1>7 DEF FlagsTrue
  <2> QED
    BY <1>1, <1>4, <1>7, <2>1
<1>8. ASSUME NEW p \in listed' PROVE p.of \in Workloads /\ up'[p.of]
  <2>1. p \in listed /\ p \notin ended /\ p.of \in Workloads /\ up[p.of]
    BY <1>1, <1>8 DEF FlagsTrue, Launching
  <2>2. \A q \in ended : q.of # p.of
    BY <1>8, <2>1 DEF OnePerWorkload
  <2> QED
    BY <1>4, <2>1, <2>2
<1> QED
  BY <1>1, <1>3, <1>5, <1>6, <1>7, <1>8

(* A cycle begins, or the worker is at its end.                            *)
LEMMA CycleBaking ==
  ASSUME BakingInv, Baking!BeginCycle \/ Baking!Launched \/ Baking!GapEnds \/ Baking!List
  PROVE  BakingInv'
<1> USE DEF BakingInv, Baking!Baker, Baking!Page, Baking!processes, Baking!snapshot, Baking!pageUi
<1>1. UNCHANGED <<fire_at, forked, alive, spawned, label, steps>>
  BY DEF Baking!BeginCycle, Baking!Launched, Baking!GapEnds, Baking!List
<1>2. CASE Baking!BeginCycle
  <2>1. baker = "cycle" /\ listed = {} /\ listed' = {}
    BY <1>2 DEF Baking!BeginCycle, OnePerWorkload
  <2>2. baker' \in {"kill_last", "launch"} /\ (in_gap' => baker' = "kill_last")
        /\ (baking_error => baking_error')
    BY <1>2 DEF Baking!BeginCycle
  <2>3. up' \in [Workloads -> BOOLEAN] /\ todo' \subseteq Workloads
        /\ \A w \in Workloads : ~up'[w]
    <3>1. up \in [Workloads -> BOOLEAN] /\ todo \subseteq Workloads /\ \A w \in Workloads : ~up[w]
      BY <2>1 DEF FlagsTrue
    <3> QED
      BY <1>2, <3>1 DEF Baking!BeginCycle
  <2>4. OnePerWorkload'
    BY <1>1, <2>1, <2>2 DEF OnePerWorkload
  <2>5. FlagsTrue'
    BY <1>1, <2>1, <2>3 DEF FlagsTrue
  <2>6. FirePage'
    BY <1>1, <2>1, <2>2 DEF FirePage, BakerPlaces
  <2> QED
    BY <2>4, <2>5, <2>6
<1>3. CASE Baking!Launched
  <2>1. baker = "launch" /\ baker' = "round" /\ UNCHANGED <<todo, listed, up, in_gap, baking_error>>
    BY <1>3 DEF Baking!Launched
  <2>2. OnePerWorkload'
    BY <1>1, <2>1 DEF OnePerWorkload
  <2>3. FlagsTrue'
    BY <1>1, <2>1 DEF FlagsTrue, Launching
  <2>4. FirePage'
    BY <1>1, <2>1 DEF FirePage, BakerPlaces
  <2> QED
    BY <2>2, <2>3, <2>4
<1>4. CASE Baking!GapEnds
  <2>1. baker = "gap" /\ baker' = "cycle" /\ UNCHANGED <<todo, listed, up, in_gap, baking_error>>
    BY <1>4 DEF Baking!GapEnds
  <2>2. OnePerWorkload'
    BY <1>1, <2>1 DEF OnePerWorkload
  <2>3. FlagsTrue'
    BY <1>1, <2>1 DEF FlagsTrue, Launching
  <2>4. FirePage'
    BY <1>1, <2>1 DEF FirePage, BakerPlaces
  <2> QED
    BY <2>2, <2>3, <2>4
<1>5. CASE Baking!List
  <2>1. /\ baker = "list" /\ baker' = "flag" /\ listed' = listed \cup {forked}
        /\ UNCHANGED <<todo, up, in_gap, baking_error>>
    BY <1>5 DEF Baking!List
  <2>2. forked.of \in todo /\ \A p \in listed : p.of # forked.of
    BY <2>1 DEF OnePerWorkload, FlagsTrue, Launching
  <2>3. OnePerWorkload'
    BY <1>1, <2>1, <2>2 DEF OnePerWorkload
  <2>4. FlagsTrue'
    <3>1. \A w \in Workloads : up'[w] => \E p \in listed' : p.of = w
      BY <2>1 DEF FlagsTrue
    <3>2. ASSUME NEW p \in listed'
          PROVE  /\ p.of \in Workloads
                 /\ up'[p.of] \/ p = forked
                 /\ p.of \notin todo' \/ p = forked
      <4>1. CASE p = forked
        BY <2>1, <2>2, <4>1 DEF FlagsTrue
      <4>2. CASE p # forked
        BY <2>1, <3>2, <4>2 DEF FlagsTrue, Launching
      <4> QED
        BY <4>1, <4>2
    <3> QED
      BY <1>1, <2>1, <3>1, <3>2 DEF FlagsTrue
  <2>5. FirePage'
    BY <1>1, <2>1 DEF FirePage, BakerPlaces
  <2> QED
    BY <2>3, <2>4, <2>5
<1> QED
  BY <1>2, <1>3, <1>4, <1>5

(* A workload is launched, or is not.                                      *)
LEMMA ForkBaking == ASSUME BakingInv, Baking!Fork PROVE BakingInv'
<1> USE DEF BakingInv, Baking!Baker, Baking!Page, Baking!pageUi
<1>1. baker = "launch" /\ forked = Baking!None /\ UNCHANGED <<fire_at, listed, in_gap, label, steps>>
  BY DEF Baking!Fork, OnePerWorkload
<1>2. ~in_gap /\ \A p \in listed : p.of \in Workloads \ todo /\ up[p.of]
  BY <1>1 DEF FirePage, FlagsTrue, Launching
<1> PICK w \in todo :
      \/ /\ spawned' = spawned + 1 /\ forked' = [of |-> w, n |-> spawned + 1]
         /\ alive' = alive \cup {forked'} /\ baker' = "list"
         /\ UNCHANGED <<todo, up, baking_error>>
      \/ /\ todo' = todo \ {w} /\ baking_error' /\ (up' = up \/ up' = [up EXCEPT ![w] = FALSE])
         /\ UNCHANGED <<baker, spawned, forked, alive>>
  BY DEF Baking!Fork
<1>3. CASE baker' = "list"
  <2>1. /\ spawned' = spawned + 1 /\ forked' = [of |-> w, n |-> spawned + 1]
        /\ alive' = alive \cup {forked'} /\ UNCHANGED <<todo, up, baking_error>>
    BY <1>1, <1>3
  <2>2. spawned + 1 \in Nat /\ spawned + 1 # 0
    BY DEF FlagsTrue
  <2>3. forked' # Baking!None /\ forked'.of = w
    BY <2>1, <2>2 DEF Baking!None
  <2>4. OnePerWorkload'
    BY <1>1, <1>3, <2>1, <2>3 DEF OnePerWorkload
  <2>5. FlagsTrue'
    BY <1>1, <1>2, <1>3, <2>1, <2>2 DEF FlagsTrue
  <2>6. FirePage'
    BY <1>1, <1>2, <1>3, <2>1 DEF FirePage, BakerPlaces
  <2> QED
    BY <2>4, <2>5, <2>6
<1>4. CASE baker' # "list"
  <2>1. /\ todo' = todo \ {w} /\ baking_error' /\ (up' = up \/ up' = [up EXCEPT ![w] = FALSE])
        /\ UNCHANGED <<baker, spawned, forked, alive>>
    BY <1>4
  <2>2. OnePerWorkload'
    BY <1>1, <2>1 DEF OnePerWorkload
  <2>3. FlagsTrue'
    <3>1. up' \in [Workloads -> BOOLEAN] /\ \A v \in Workloads : up'[v] => up[v]
      BY <2>1 DEF FlagsTrue
    <3>2. \A p \in listed : up'[p.of]
      BY <1>2, <2>1 DEF FlagsTrue
    <3> QED
      BY <1>1, <1>2, <2>1, <3>1, <3>2 DEF FlagsTrue
  <2>4. FirePage'
    BY <1>1, <1>2, <2>1 DEF FirePage, BakerPlaces
  <2> QED
    BY <2>2, <2>3, <2>4
<1> QED
  BY <1>3, <1>4

(* Its flag is set.                                                        *)
LEMMA FlagBaking == ASSUME BakingInv, Baking!Flag PROVE BakingInv'
<1> USE DEF BakingInv, Baking!Baker, Baking!Page, Baking!pageUi
<1>1. /\ baker = "flag" /\ baker' = "launch" /\ forked' = Baking!None
      /\ up' = [up EXCEPT ![forked.of] = TRUE] /\ todo' = todo \ {forked.of}
      /\ (baking_error => baking_error')
      /\ UNCHANGED <<fire_at, alive, listed, spawned, in_gap, label, steps>>
  BY DEF Baking!Flag
<1>2. forked \in listed /\ forked.of \in Workloads
  BY <1>1 DEF OnePerWorkload, FlagsTrue
<1>3. OnePerWorkload'
  BY <1>1, <1>2 DEF OnePerWorkload
<1>4. FlagsTrue'
  <2>1. up' \in [Workloads -> BOOLEAN] /\ up'[forked.of]
        /\ \A w \in Workloads \ {forked.of} : up'[w] = up[w]
    BY <1>1, <1>2 DEF FlagsTrue
  <2>2. \A w \in Workloads : up'[w] => \E p \in listed' : p.of = w
    BY <1>1, <1>2, <2>1 DEF FlagsTrue
  <2>3. ASSUME NEW p \in listed PROVE p.of \in Workloads /\ up'[p.of] /\ p.of \notin todo'
    BY <1>1, <2>1 DEF FlagsTrue, Launching
  <2> QED
    BY <1>1, <2>1, <2>2, <2>3 DEF FlagsTrue
<1>5. FirePage'
  BY <1>1 DEF FirePage, BakerPlaces
<1> QED
  BY <1>3, <1>4, <1>5

(* Rounds, and the waits that end a cycle.                                 *)
LEMMA RoundBaking ==
  ASSUME BakingInv,
         Baking!Round \/ Baking!WaitAfterTerm \/ Baking!WaitAfterKill \/ Baking!BakerEnds
  PROVE  BakingInv'
<1> USE DEF BakingInv, Baking!Baker, Baking!Page, Baking!pageUi
<1>1. /\ baker \in {"round", "wait_term", "wait_kill", "kill_last"}
      /\ UNCHANGED <<fire_at, forked, alive, spawned, label, steps>>
      /\ (baking_error => baking_error')
  <2>1. CASE Baking!Round
    BY <2>1 DEF Baking!Round
  <2>2. CASE Baking!WaitAfterTerm \/ Baking!WaitAfterKill \/ Baking!BakerEnds
    BY <2>2 DEF Baking!WaitAfterTerm, Baking!WaitAfterKill, Baking!BakerEnds
  <2> QED
    BY <2>1, <2>2
<1>2. forked = Baking!None /\ baker \notin Launching /\ alive \subseteq listed
  BY <1>1 DEF OnePerWorkload, Launching
<1>3. CASE Baking!Round
  <2> DEFINE ended == listed \ alive
  <2>1. baker = "round" /\ UNCHANGED in_gap /\ ~in_gap
    BY <1>3 DEF Baking!Round, FirePage
  <2>2. CASE baker' = "wait_term" /\ UNCHANGED <<todo, up, listed>>
    <3>1. OnePerWorkload'
      BY <1>1, <1>2, <2>1, <2>2 DEF OnePerWorkload
    <3>2. FlagsTrue'
      BY <1>1, <1>2, <2>1, <2>2 DEF FlagsTrue, Launching
    <3>3. FirePage'
      BY <1>1, <2>1, <2>2 DEF FirePage, BakerPlaces
    <3> QED
      BY <3>1, <3>2, <3>3
  <2>3. CASE Baking!Reap(ended)
    <3>1. /\ up' \in [Workloads -> BOOLEAN]
          /\ listed' = listed \ ended /\ alive' \subseteq listed' /\ Baking!None \notin alive'
          /\ \A p, q \in listed' : p.of = q.of => p = q
          /\ \A w \in Workloads : up'[w] => \E p \in listed' : p.of = w
          /\ \A p \in listed' : p.of \in Workloads /\ up'[p.of]
      BY <1>1, <1>2, <2>3, Reaped
    <3>2. \/ baker' = "wait_term" /\ todo' = todo
          \/ /\ baker' = "launch"
             /\ todo' = IF ended = {} THEN {w \in DOMAIN up : ~up[w]}
                        ELSE {w \in DOMAIN up : \E p \in ended : p.of = w}
          \/ UNCHANGED <<todo, up, listed>> /\ baker' = "wait_term"
      BY <1>3 DEF Baking!Round
    <3>3. baker' \in {"wait_term", "launch"}
      BY <3>2
    <3>4. todo' \subseteq Workloads
      BY <3>2 DEF FlagsTrue
    <3>5. ASSUME baker' = "launch", NEW p \in listed' PROVE p.of \notin todo'
      <4>1. p \in listed /\ p \notin ended /\ p.of \in Workloads /\ up'[p.of] /\ up[p.of]
        BY <1>2, <3>1, <3>5 DEF FlagsTrue, Launching
      <4>2. \A q \in ended : q.of # p.of
        BY <4>1 DEF OnePerWorkload
      <4>3. todo' = IF ended = {} THEN {w \in DOMAIN up : ~up[w]}
                    ELSE {w \in DOMAIN up : \E q \in ended : q.of = w}
        BY <3>2, <3>5
      <4> QED
        BY <4>1, <4>2, <4>3
    <3>6. OnePerWorkload'
      BY <1>1, <1>2, <3>1, <3>3 DEF OnePerWorkload
    <3>7. FlagsTrue'
      BY <1>1, <3>1, <3>3, <3>4, <3>5 DEF FlagsTrue, Launching
    <3>8. FirePage'
      BY <1>1, <2>1, <3>3 DEF FirePage, BakerPlaces
    <3> QED
      BY <3>6, <3>7, <3>8
  <2> QED
    BY <1>3, <2>2, <2>3 DEF Baking!Round
<1>4. ASSUME NEW ended \in SUBSET listed, Baking!Reap(ended), ended \cap alive = {}, todo' = todo,
             baker' \notin Launching,
             baker' \in {"none", "cycle", "gap", "kill_last", "ended"} => listed' = {}
      PROVE  OnePerWorkload' /\ FlagsTrue'
  <2>1. /\ up' \in [Workloads -> BOOLEAN]
        /\ listed' = listed \ ended /\ alive' \subseteq listed' /\ Baking!None \notin alive'
        /\ \A p, q \in listed' : p.of = q.of => p = q
        /\ \A w \in Workloads : up'[w] => \E p \in listed' : p.of = w
        /\ \A p \in listed' : p.of \in Workloads /\ up'[p.of]
    BY <1>1, <1>2, <1>4, Reaped
  <2>2. OnePerWorkload'
    BY <1>1, <1>2, <1>4, <2>1 DEF OnePerWorkload, Launching
  <2>3. FlagsTrue'
    BY <1>1, <1>4, <2>1 DEF FlagsTrue
  <2> QED
    BY <2>2, <2>3
<1>5. CASE Baking!WaitAfterTerm
  <2>1. /\ baker = "wait_term" /\ baker' = "wait_kill" /\ Baking!Reap(listed \ alive)
        /\ UNCHANGED <<todo, in_gap>>
    BY <1>5 DEF Baking!WaitAfterTerm
  <2>2. OnePerWorkload' /\ FlagsTrue'
    BY <1>4, <2>1 DEF Launching
  <2>3. FirePage'
    BY <1>1, <2>1 DEF FirePage, BakerPlaces
  <2> QED
    BY <2>2, <2>3
<1>6. CASE Baking!WaitAfterKill \/ Baking!BakerEnds
  <2>1. /\ baker' \in {"kill_last", "gap", "ended"} /\ Baking!Reap(listed)
        /\ listed \cap alive = {} /\ todo' = todo /\ listed' = {}
    BY <1>6 DEF Baking!WaitAfterKill, Baking!BakerEnds, Baking!Reap
  <2>2. OnePerWorkload' /\ FlagsTrue'
    BY <1>4, <2>1 DEF Launching
  <2>3. fire_at # "closed" /\ (fire_at = "wait" => FALSE)
    BY <1>1, <1>6 DEF FirePage, Baking!WaitAfterKill, Baking!BakerEnds
  <2>4. FirePage'
    BY <1>1, <2>1, <2>3 DEF FirePage, BakerPlaces
  <2> QED
    BY <2>2, <2>4
<1> QED
  BY <1>3, <1>5, <1>6

(* A process ends, by itself or as it was killed.                          *)
LEMMA ProcessBaking ==
  ASSUME BakingInv, Baking!Process \/ Baking!KilledEnds PROVE BakingInv'
<1> USE DEF BakingInv
<1>1. /\ alive' \subseteq alive
      /\ UNCHANGED <<fire_at, baker, todo, forked, listed, spawned, up, in_gap, baking_error, label, steps>>
  BY DEF Baking!Process, Baking!Exits, Baking!KilledEnds, Baking!Page, Baking!pageUi, Baking!snapshot
<1>2. OnePerWorkload'
  BY <1>1 DEF OnePerWorkload
<1>3. FlagsTrue'
  BY <1>1 DEF FlagsTrue
<1>4. FirePage'
  BY <1>1 DEF FirePage
<1> QED
  BY <1>2, <1>3, <1>4

(* The page.                                                               *)
LEMMA PageBaking ==
  ASSUME BakingInv,
         Baking!StopStep \/ Baking!FireKey \/ Baking!UiTimer \/ Baking!StepTimer
  PROVE  BakingInv'
<1> USE DEF BakingInv, Baking!Service, Baking!pageUi, Baking!processes, Baking!snapshot
<1>1. CASE Baking!OpenFire
  <2>1. /\ baker = "none" /\ baker' = "cycle" /\ fire_at' = "open" /\ listed = {}
        /\ UNCHANGED <<todo, forked, alive, listed, spawned, up, in_gap, baking_error, label>>
    BY <1>1 DEF Baking!OpenFire, OnePerWorkload
  <2>2. OnePerWorkload'
    BY <2>1 DEF OnePerWorkload
  <2>3. FlagsTrue'
    BY <2>1 DEF FlagsTrue
  <2>4. FirePage'
    BY <2>1 DEF FirePage, BakerPlaces
  <2> QED
    BY <2>2, <2>3, <2>4
<1>2. CASE Baking!Closes
  <2>1. baker = "ended" /\ listed = {} /\ alive = {}
    BY <1>2 DEF Baking!Closes, FirePage, OnePerWorkload
  <2>2. /\ fire_at' = "closed" /\ listed' = {} /\ up' = [w \in DOMAIN up |-> FALSE] /\ ~in_gap'
        /\ UNCHANGED <<baker, todo, forked, alive, spawned, baking_error, label, steps>>
    BY <1>2 DEF Baking!Closes
  <2>3. OnePerWorkload'
    BY <2>1, <2>2 DEF OnePerWorkload
  <2>4. FlagsTrue'
    BY <2>1, <2>2 DEF FlagsTrue
  <2>5. FirePage'
    BY <2>1, <2>2 DEF FirePage, BakerPlaces
  <2> QED
    BY <2>3, <2>4, <2>5
<1>3. ASSUME UNCHANGED <<baker, todo, forked, alive, listed, spawned, up, in_gap, baking_error>>,
             FirePage'
      PROVE  BakingInv'
  <2>1. OnePerWorkload'
    BY <1>3 DEF OnePerWorkload
  <2>2. FlagsTrue'
    BY <1>3 DEF FlagsTrue
  <2> QED
    BY <1>3, <2>1, <2>2
<1>4. CASE Baking!JoinsAndKills \/ Baking!Asks
  <2>1. /\ UNCHANGED <<baker, todo, forked, alive, listed, spawned, up, in_gap, baking_error, label, steps>>
        /\ \/ fire_at' = "wait" /\ baker = "ended"
           \/ fire_at' = "join" /\ fire_at = "open"
    BY <1>4 DEF Baking!JoinsAndKills, Baking!Asks
  <2>2. FirePage'
    BY <2>1 DEF FirePage
  <2> QED
    BY <1>3, <2>1, <2>2
<1>5. CASE Baking!ShowChart \/ Baking!HideChart \/ Baking!UiTimer \/ Baking!StepTimer
  <2>1. /\ fire_at = "open"
        /\ UNCHANGED <<fire_at, baker, todo, forked, alive, listed, spawned, up, in_gap, baking_error>>
    BY <1>5 DEF Baking!ShowChart, Baking!HideChart, Baking!UiTimer, Baking!StepTimer
  <2>2. label' = "error" => baking_error' /\ ~steps'
    <3>1. CASE Baking!HideChart \/ Baking!UiTimer
      <4>1. \/ baking_error /\ steps' = FALSE
            \/ ~baking_error /\ label' = label
        BY <3>1 DEF Baking!HideChart, Baking!UiTimer, Baking!Told
      <4> QED
        BY <2>1, <4>1 DEF FirePage
    <3>2. CASE Baking!ShowChart
      BY <2>1, <3>2 DEF Baking!ShowChart, FirePage
    <3>3. CASE Baking!StepTimer
      BY <3>3 DEF Baking!StepTimer
    <3> QED
      BY <1>5, <3>1, <3>2, <3>3
  <2>3. FirePage'
    BY <2>1, <2>2 DEF FirePage
  <2> QED
    BY <1>3, <2>1, <2>3
<1> QED
  BY <1>1, <1>2, <1>4, <1>5 DEF Baking!StopStep, Baking!FireKey

(* Every step keeps it.                                                    *)
LEMMA NextBaking == BakingInv /\ [JobNext]_jobVars => BakingInv'
<1> SUFFICES ASSUME BakingInv, [JobNext]_jobVars PROVE BakingInv'
  OBVIOUS
<1>1. CASE Baking!BakingNext
  BY <1>1, CycleBaking, ForkBaking, FlagBaking, RoundBaking, ProcessBaking, PageBaking
     DEF Baking!BakingNext, Baking!BakerStep
<1>2. CASE UNCHANGED baking
  BY <1>2 DEF baking, BakingInv, OnePerWorkload, FlagsTrue, FirePage
<1> QED
  BY <1>1, <1>2 DEF JobNext, jobVars, RunCommand, TestPerformance, TestAudio, MakeSounds,
     ReadJack, TestCamera, BakePi, TestDisplay, WriteLogs, KeepConfig
-----------------------------------------------------------------------------
(* The devices together.                                                   *)

DevicesIInv ==
  AudioInv /\ SoundsInv /\ JackInv /\ CamInv /\ BakingInv /\ LcdInv

(* For every number of pages, of recordings, of buffers and of clips, and  *)
(* every set of workloads: a page plays its own recording, no callback     *)
(* reads what is not there, the headphone switch that is open is the one   *)
(* that is there, what a camera page took is given back, no process of the *)
(* pressure test outlives the page, the display follows what was asked.    *)
THEOREM DevicesThm == JobSpec => []DevicesInv
<1>1. JobInit => DevicesIInv
  BY InitAudio, InitSounds, InitJack, InitCamera, InitBaking, InitLcd DEF JobInit, DevicesIInv
<1>2. DevicesIInv /\ [JobNext]_jobVars => DevicesIInv'
  BY NextAudio, NextSounds, NextJack, NextCamera, NextBaking, NextLcd DEF DevicesIInv
<1>3. DevicesIInv => DevicesInv
  BY AudioInvGivesOwn, SoundsInvGivesBounds, CamInvGivesBack, BakingInvContains,
     LcdInvGivesFollows DEF DevicesIInv, DevicesInv, JackInv
<1> QED
  BY <1>1, <1>2, <1>3, PTL DEF JobSpec
=============================================================================
