------------------------------ MODULE LogFiles ------------------------------
(***************************************************************************)
(* The log files (logger.cpp).  A run writes segments of a bounded size    *)
(* into a directory of a bounded size that earlier runs left full: before  *)
(* a segment is opened, the oldest files go until a whole segment has      *)
(* room.  Whatever fails ends the logging of the run, and nothing else.    *)
(*                                                                         *)
(* The directory is a sequence, the file that was written last at its end; *)
(* one process logs at a time, and file times grow.  Every operation holds *)
(* the mutex and is one step.                                              *)
(***************************************************************************)
EXTENDS Integers, SequencesExt, FiniteSetsExt

CONSTANTS
  MaxSegment, MaxDirectory,     (* max_segment_size, max_directory_size     *)
  Header, Lines,                (* sizes: of a segment's first line; others *)
  Names, OldFiles,              (* of runs; what may be in the directory    *)
  MaxRuns, MaxParts             (* bounds: runs, segments of a run          *)

VARIABLES
  log,         (* [dir, on, run, index]: files, file_logging_enabled,       *)
               (* run_name with its collision, segment_index                *)
  foreign,     (* the size of the other files in the directory              *)
  cut,         (* a line was cut that a segment could have held             *)
  runs

logVars == <<log, foreign, cut, runs>>

Files == [run : [name : Names \cup {"none"}, collision : Nat], part : Nat, size : Nat]

Total(dir) ==
  LET sum[i \in 0 .. Len(dir)] == IF i = 0 THEN foreign ELSE sum[i - 1] + dir[i].size
  IN sum[Len(dir)]
Current(now) == now.dir[Len(now.dir)].size
Present(dir) == {[run |-> f.run, part |-> f.part] : f \in ToSet(dir)}
Off(dir, now) == [now EXCEPT !.dir = dir, !.on = FALSE]

-----------------------------------------------------------------------------
(* Mutant: room is made for what is there, not for the segment to come.    *)
RoomsForNothing(dir) ==
  LET Kept(k) == SubSeq(dir, k + 1, Len(dir))
      fits    == {k \in 0 .. Len(dir) : Total(Kept(k)) <= MaxDirectory}
      removed == IF fits = {} THEN Len(dir) ELSE Min(fits)
  IN {[ok |-> k \in fits, dir |-> Kept(k)] : k \in {removed}}

(* make_directory_room_locked, for a whole segment: the listing or a       *)
(* removal may fail, and other files may leave too little.                 *)
Rooms(dir) ==
  LET Kept(k) == SubSeq(dir, k + 1, Len(dir))
      fits    == {k \in 0 .. Len(dir) : Total(Kept(k)) + MaxSegment <= MaxDirectory}
      removed == IF fits = {} THEN Len(dir) ELSE Min(fits)
  IN {[ok |-> TRUE,  dir |-> Kept(k)] : k \in fits \cap {removed}} \cup
     {[ok |-> FALSE, dir |-> Kept(k)] : k \in {n \in 0 .. removed : n < removed \/ n = 0 \/ fits = {}}}

(* The first name that is free: a run's first segment changes the name of  *)
(* the run, the others their number.                                       *)
Free(dir, now) ==
  IF now.index = 0
  THEN [run |-> [now.run EXCEPT !.collision =
                   Min({c \in 0 .. Len(dir) :
                          [run |-> [now.run EXCEPT !.collision = c], part |-> 0] \notin Present(dir)})],
        part |-> 0]
  ELSE [run |-> now.run,
        part |-> Min({p \in now.index .. now.index + Len(dir) :
                        [run |-> now.run, part |-> p] \notin Present(dir)})]

(* write_bytes_locked: a part may have been written when it fails.         *)
Written(now, size) ==
  LET Longer(n) == [now.dir EXCEPT ![Len(now.dir)].size = @ + n]
  IN {[now EXCEPT !.dir = Longer(size)]} \cup {Off(Longer(n), now) : n \in 0 .. size}

(* open_next_segment_locked *)
Opened(now) ==
  UNION {LET id == Free(room.dir, now)
             opened == [dir |-> Append(room.dir, [run |-> id.run, part |-> id.part, size |-> 0]),
                        on |-> TRUE, run |-> id.run, index |-> id.part + 1]
         IN {Off(room.dir, now)} \cup (IF room.ok THEN Written(opened, Header) ELSE {})
         : room \in Rooms(now.dir)}

-----------------------------------------------------------------------------
(* Logger::init of a run.                                                  *)
InitLogger ==
  /\ ~log.on /\ runs < MaxRuns /\ runs' = runs + 1
  /\ \E name \in Names :
       log' \in Opened([log EXCEPT !.run = [name |-> name, collision |-> 0], !.index = 0])
  /\ UNCHANGED <<foreign, cut>>

(* Mutant: a line is written when any of it fits.                          *)
NeedsRotation(size) == Current(log) >= MaxSegment

(* Logger::log; the segment has its header, so that it is never empty.     *)
Rotates(size) == Current(log) + size > MaxSegment

Log ==
  /\ log.on
  /\ \E line \in Lines :
       LET size == Min({line, MaxSegment})
       IN /\ Rotates(size) => log.index < MaxParts
          /\ \E now \in IF Rotates(size) THEN Opened(log) ELSE {log} :
               IF now.on
               THEN LET fitting == Min({size, MaxSegment - Current(now)})
                    IN /\ log' \in Written(now, fitting)
                       /\ cut' = (cut \/ fitting < Min({size, MaxSegment - Header}))
               ELSE log' = now /\ UNCHANGED cut
  /\ UNCHANGED <<foreign, runs>>

(* Logger::shutdown, or the end of the process at any other point: every   *)
(* line was flushed.                                                       *)
Shutdown ==
  /\ log.on /\ log' = Off(log.dir, log)
  /\ UNCHANGED <<foreign, cut, runs>>

(* Earlier runs may have had other limits: a file of theirs may be larger  *)
(* than a segment is now, and the directory fuller than it may be.         *)
LogInit ==
  /\ \E dir \in OldFiles :
       log = [dir |-> dir, on |-> FALSE, run |-> [name |-> "none", collision |-> 0], index |-> 0]
  /\ foreign \in {0, MaxSegment, MaxDirectory} /\ cut = FALSE /\ runs = 0

LogNext == InitLogger \/ Log \/ Shutdown

-----------------------------------------------------------------------------
(* make_directory_room_locked, Logger::log: while a run logs, the whole    *)
(* directory is within its limit, whatever earlier runs left, and the      *)
(* segment it writes, the only one that changes, is within its own; no run *)
(* writes into a file of another; a line is cut only if a segment of its   *)
(* own could not hold it.                                                  *)
LogsBounded ==
  /\ log.on => Total(log.dir) <= MaxDirectory /\ Current(log) <= MaxSegment
  /\ Cardinality(Present(log.dir)) = Len(log.dir)
  /\ ~cut
=============================================================================
