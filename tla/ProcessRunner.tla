---------------------------- MODULE ProcessRunner ----------------------------
(***************************************************************************)
(* run_spawned_command of src/src/platform/process_service.cpp (POSIX):    *)
(* spawn a child with piped output, feed its input, read both pipes until  *)
(* they end, enforce the time limit, reap the child.                       *)
(*                                                                         *)
(* Actors: the caller's thread (pc), the child, and a descendant that may  *)
(* have inherited the write ends of the pipes.  Output is counted, not     *)
(* looked at: a pipe holds up to PipeSize chunks, the result keeps up to   *)
(* MaxOutput of each pipe.  How bytes are split into lines is left out.    *)
(***************************************************************************)
EXTENDS Naturals, FiniteSets

CONSTANTS
  PipeSize,        (* chunks a pipe holds                                   *)
  MaxOutput,       (* options.max_output_bytes, in chunks                   *)
  MaxWritten,      (* bound: chunks a process writes to a pipe              *)
  StdinSize,       (* options.stdin_text, in chunks; 0 when empty           *)
  TimeLimit        (* whether options.timeout_ms > 0                        *)

ASSUME ProcessConstants ==
  /\ {PipeSize, MaxOutput, MaxWritten, StdinSize} \subseteq Nat
  /\ PipeSize > 0
  /\ TimeLimit \in BOOLEAN

Pipes == {"stdout", "stderr"}

VARIABLES
  pc,           (* where run_spawned_command is                             *)
  open,         (* stdout_open, stderr_open                                 *)
  kept,         (* chunks in result.stdout_text, result.stderr_text         *)
  child_done,   (* child_done                                               *)
  timed_out,    (* result.timed_out                                         *)
  truncated,    (* result.output_truncated                                  *)
  exited,       (* result.exited: the child ended by itself                 *)
  failed,       (* result.error_message is not empty                        *)
  input_left,   (* chunks of stdin_text not yet written                     *)
  due,          (* timeout_ms have passed since the child was started       *)
  child,        (* "none", "running", "exited", "killed" or "reaped"        *)
  writers,      (* who holds the write end of each pipe                     *)
  in_pipe,      (* chunks in each output pipe                               *)
  written,      (* chunks the child and its descendant wrote to each        *)
  stdin_pipe    (* chunks in the input pipe                                 *)

result == <<kept, timed_out, truncated, exited, failed>>
caller == <<open, child_done, input_left>>
world  == <<due, child, writers, written, stdin_pipe>>
vars   == <<pc, result, caller, world, in_pipe>>

At(p)   == pc = p
Goto(p) == pc' = p

-----------------------------------------------------------------------------
(* The caller.                                                             *)

(* A pipe or the spawn fails: nothing was started.                         *)
SpawnFails ==
  /\ At("spawn")
  /\ failed' = TRUE
  /\ Goto("done")
  /\ UNCHANGED <<kept, timed_out, truncated, exited, caller, world, in_pipe>>

Spawn ==
  /\ At("spawn")
  /\ child' = "running"
  /\ writers' = [p \in Pipes |-> {"child"}]
  /\ Goto("stdin")
  /\ UNCHANGED <<result, caller, due, written, stdin_pipe, in_pipe>>

(* write() to the child's input: blocks while the pipe is full and its     *)
(* reader alive; ends early when the reader is gone.  That is the EPIPE of *)
(* a program that ignores SIGPIPE: the signal, which would end this one,   *)
(* is left out.                                                            *)
WriteInput ==
  /\ At("stdin") /\ input_left > 0
  /\ \/ /\ child = "running" /\ stdin_pipe < PipeSize
        /\ stdin_pipe' = stdin_pipe + 1
        /\ input_left' = input_left - 1
     \/ /\ child # "running"
        /\ input_left' = 0
        /\ UNCHANGED stdin_pipe
  /\ UNCHANGED <<pc, result, open, child_done, due, child, writers, written, in_pipe>>

InputWritten ==
  /\ At("stdin") /\ input_left = 0
  /\ Goto("loop")
  /\ UNCHANGED <<result, caller, world, in_pipe>>

(* Mutant: the loop ends with the child, not with the pipes.               *)
CheckChildOnly ==
  /\ At("loop")
  /\ IF ~child_done /\ \E p \in Pipes : open[p]
     THEN /\ Goto("deadline")
          /\ IF child = "exited"
             THEN child_done' = TRUE /\ child' = "reaped" /\ exited' = TRUE
             ELSE UNCHANGED <<child_done, child, exited>>
     ELSE Goto("reap") /\ UNCHANGED <<child_done, child, exited>>
  /\ UNCHANGED <<kept, timed_out, truncated, failed, open, input_left, due,
                 writers, written, stdin_pipe, in_pipe>>

(* waitpid(WNOHANG) at the top of a round.                                 *)
CheckChild ==
  /\ At("loop")
  /\ IF \E p \in Pipes : open[p]
     THEN /\ Goto("deadline")
          /\ IF ~child_done /\ child = "exited"
             THEN child_done' = TRUE /\ child' = "reaped" /\ exited' = TRUE
             ELSE UNCHANGED <<child_done, child, exited>>
     ELSE Goto("reap") /\ UNCHANGED <<child_done, child, exited>>
  /\ UNCHANGED <<kept, timed_out, truncated, failed, open, input_left, due,
                 writers, written, stdin_pipe, in_pipe>>

(* Mutant: the time limit is the child's, not that of the pipes.           *)
DeadlineOfChild ==
  /\ At("deadline")
  /\ IF TimeLimit /\ due /\ ~child_done
     THEN /\ timed_out' = TRUE
          /\ child_done' = TRUE
          /\ child' = "reaped"
          /\ exited' = (exited \/ child = "exited")
          /\ writers' = [p \in Pipes |-> writers[p] \ {"child"}]
          /\ Goto("drain")
     ELSE Goto("poll") /\ UNCHANGED <<timed_out, child_done, child, exited, writers>>
  /\ UNCHANGED <<kept, truncated, failed, open, input_left, due, written,
                 stdin_pipe, in_pipe>>

(* The time limit: kill and reap the child, unless it is done already; it  *)
(* may have exited by itself since it was last asked for.                  *)
Deadline ==
  /\ At("deadline")
  /\ IF TimeLimit /\ due
     THEN /\ timed_out' = TRUE
          /\ child_done' = TRUE
          /\ child' = "reaped"
          /\ exited' = (exited \/ child = "exited")
          /\ writers' = [p \in Pipes |-> writers[p] \ {"child"}]
          /\ Goto("drain")
     ELSE Goto("poll") /\ UNCHANGED <<timed_out, child_done, child, exited, writers>>
  /\ UNCHANGED <<kept, truncated, failed, open, input_left, due, written,
                 stdin_pipe, in_pipe>>

(* read_available on the pipes ps: everything in them, and the end of file *)
(* when nobody can write any more.                                         *)
ReadAvailable(ps) ==
  LET now == {p \in ps : open[p]}
      all == [p \in Pipes |-> IF p \in now THEN kept[p] + in_pipe[p] ELSE kept[p]]
  IN /\ kept' = [p \in Pipes |-> IF all[p] > MaxOutput THEN MaxOutput ELSE all[p]]
     /\ truncated' = (truncated \/ \E p \in now : all[p] > MaxOutput)
     /\ in_pipe' = [p \in Pipes |-> IF p \in now THEN 0 ELSE in_pipe[p]]
     /\ open' = [p \in Pipes |-> open[p] /\ (p \in now => writers[p] # {})]

(* Mutant: nothing is read after the kill.                                 *)
DrainNothing ==
  /\ At("drain")
  /\ Goto("reap")
  /\ UNCHANGED <<result, caller, world, in_pipe>>

(* The read after the time limit: does not wait for end of file.           *)
Drain ==
  /\ At("drain")
  /\ ReadAvailable(Pipes)
  /\ Goto("reap")
  /\ UNCHANGED <<timed_out, exited, failed, child_done, input_left, world>>

Ready(p) == open[p] /\ (in_pipe[p] > 0 \/ writers[p] = {})

(* poll(), and the reads of the pipes it reports; both pipes once the      *)
(* child is done.  It may also time out after 50 ms or be interrupted.     *)
Poll ==
  /\ At("poll")
  /\ \E ps \in {{p \in Pipes : Ready(p)}, {}} :
       ReadAvailable(IF child_done THEN Pipes ELSE ps)
  /\ Goto("loop")
  /\ UNCHANGED <<timed_out, exited, failed, child_done, input_left, world>>

PollFails ==
  /\ At("poll")
  /\ failed' = TRUE
  /\ Goto("reap")
  /\ UNCHANGED <<kept, timed_out, truncated, exited, caller, world, in_pipe>>

(* The pipes are closed; waitpid blocks until the child has ended.         *)
Reap ==
  /\ At("reap")
  /\ child_done \/ child = "exited"
  /\ exited' = (exited \/ child = "exited")
  /\ child' = "reaped"
  /\ child_done' = TRUE
  /\ Goto("done")
  /\ UNCHANGED <<kept, timed_out, truncated, failed, open, input_left, due,
                 writers, written, stdin_pipe, in_pipe>>

-----------------------------------------------------------------------------
(* The child, its descendant and the clock.                                *)

(* A write blocks on a full pipe.  Nobody writes once the pipes are closed.*)
Writes(p) ==
  /\ pc # "done" /\ writers[p] # {} /\ in_pipe[p] < PipeSize
  /\ written[p] < MaxWritten
  /\ in_pipe' = [in_pipe EXCEPT ![p] = @ + 1]
  /\ written' = [written EXCEPT ![p] = @ + 1]
  /\ UNCHANGED <<pc, result, caller, due, child, writers, stdin_pipe>>

ReadsInput ==
  /\ child = "running" /\ stdin_pipe > 0
  /\ stdin_pipe' = stdin_pipe - 1
  /\ UNCHANGED <<pc, result, caller, due, child, writers, written, in_pipe>>

ClosesPipes ==
  /\ child = "running" /\ \E p \in Pipes : "child" \in writers[p]
  /\ writers' = [p \in Pipes |-> writers[p] \ {"child"}]
  /\ UNCHANGED <<pc, result, caller, due, child, written, stdin_pipe, in_pipe>>

Forks ==
  /\ child = "running"
  /\ writers' = [p \in Pipes |-> IF "child" \in writers[p]
                                 THEN writers[p] \cup {"descendant"} ELSE writers[p]]
  /\ UNCHANGED <<pc, result, caller, due, child, written, stdin_pipe, in_pipe>>

DescendantEnds ==
  /\ \E p \in Pipes : "descendant" \in writers[p]
  /\ writers' = [p \in Pipes |-> writers[p] \ {"descendant"}]
  /\ UNCHANGED <<pc, result, caller, due, child, written, stdin_pipe, in_pipe>>

(* The child ends by itself; it is a zombie until it is reaped.            *)
ChildExits ==
  /\ child = "running"
  /\ child' = "exited"
  /\ writers' = [p \in Pipes |-> writers[p] \ {"child"}]
  /\ UNCHANGED <<pc, result, caller, due, written, stdin_pipe, in_pipe>>

(* The clock is started when the input has been written.                   *)
Elapse ==
  /\ pc \notin {"spawn", "stdin", "done"} /\ ~due
  /\ due' = TRUE
  /\ UNCHANGED <<pc, result, caller, child, writers, written, stdin_pipe, in_pipe>>

-----------------------------------------------------------------------------
Init ==
  /\ pc = "spawn"
  /\ open = [p \in Pipes |-> TRUE] /\ kept = [p \in Pipes |-> 0]
  /\ child_done = FALSE /\ timed_out = FALSE /\ truncated = FALSE
  /\ exited = FALSE /\ failed = FALSE
  /\ input_left = StdinSize
  /\ due = FALSE /\ child = "none"
  /\ writers = [p \in Pipes |-> {}]
  /\ in_pipe = [p \in Pipes |-> 0] /\ written = [p \in Pipes |-> 0]
  /\ stdin_pipe = 0

Caller ==
  \/ SpawnFails \/ Spawn \/ WriteInput \/ InputWritten \/ CheckChild
  \/ Deadline \/ Drain \/ Poll \/ PollFails \/ Reap

Processes ==
  \/ \E p \in Pipes : Writes(p)
  \/ ReadsInput \/ ClosesPipes \/ Forks \/ DescendantEnds \/ ChildExits

Next == Caller \/ Processes \/ Elapse

Spec == Init /\ [][Next]_vars

(* The caller's thread runs, poll() reports what is ready, and the clock   *)
(* advances.  Of the child nothing is assumed: it may never end, and never *)
(* read its input.                                                         *)
Fairness == WF_vars(Caller) /\ WF_vars(Elapse)

FairSpec == Spec /\ Fairness

-----------------------------------------------------------------------------
(* Every variable has its type.                                            *)
TypeOK ==
  /\ pc \in {"spawn", "stdin", "loop", "deadline", "drain", "poll", "reap", "done"}
  /\ open \in [Pipes -> BOOLEAN]
  /\ child_done \in BOOLEAN /\ timed_out \in BOOLEAN /\ truncated \in BOOLEAN
  /\ exited \in BOOLEAN /\ failed \in BOOLEAN /\ due \in BOOLEAN
  /\ child \in {"none", "running", "exited", "reaped"}
  /\ writers \in [Pipes -> SUBSET {"child", "descendant"}]
  /\ kept \in [Pipes -> 0..MaxOutput] /\ in_pipe \in [Pipes -> 0..PipeSize]
  /\ written \in [Pipes -> 0..MaxWritten]
  /\ stdin_pipe \in 0..PipeSize /\ input_left \in 0..StdinSize

(* ProcessResult::success() *)
Success == exited /\ ~timed_out /\ ~failed

(* A result that reports success has every chunk the child and its         *)
(* descendants wrote, or says that it was cut at the limit.                *)
SuccessIsComplete ==
  pc = "done" /\ Success =>
    \A p \in Pipes :
      \/ kept[p] = written[p]
      \/ truncated /\ kept[p] = MaxOutput /\ written[p] > MaxOutput

(* The command does not leave a process behind that nobody reaps: when it  *)
(* returns the child has ended and was waited for, exactly when it was     *)
(* started.                                                                *)
ChildReaped == pc = "done" => child \in {"reaped", "none"} /\ (child = "none" => failed)

(* After a kill at the time limit the output from before it is still read. *)
TimeoutKeepsOutput ==
  [][ (pc = "drain" /\ pc' # "drain")
        => truncated' \/ \A p \in Pipes : kept'[p] = written'[p] ]_vars

(* "Non-zero values kill the child process if it runs longer than the      *)
(* limit": once the limit has passed the command returns, unless both      *)
(* pipes have ended (or poll failed), when only the child itself is waited *)
(* for; a descendant that holds the pipes does not hold the command.       *)
LimitEnforced ==
  (TimeLimit /\ due) ~> (pc = "done" \/ failed \/ \A p \in Pipes : ~open[p])

(* At the limit the command returns, and with the output from before it.   *)
LimitKept == TimeoutKeepsOutput /\ LimitEnforced

(* The state is of its types, and what the command returns is true.        *)
Inv == TypeOK /\ SuccessIsComplete /\ ChildReaped
=============================================================================
