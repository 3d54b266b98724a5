------------------------------ MODULE BakingPi ------------------------------
(***************************************************************************)
(* Fire in the Pi: the pressure test (baking_pi_service.cpp) and its page  *)
(* (fire_in_the_pi_page.cpp).  A worker runs cycles; in each it starts a   *)
(* process per workload, starts again those that exit early, and at the    *)
(* end signals, kills and reaps them all.  Leaving the page may come at    *)
(* any of its steps: it asks the worker to stop, signals the processes it  *)
(* finds in the list, waits for the worker, and kills what is left.        *)
(*                                                                         *)
(* A process is a record of its workload and its number.  A process may    *)
(* exit at any time, so SIGTERM needs no action; one that was sent SIGKILL *)
(* is taken to end within the second that is waited for it.                *)
(***************************************************************************)
EXTENDS Integers, FiniteSets

CONSTANTS
  Workloads,       (* K_WORKLOAD_NAMES                                      *)
  MaxCycles, MaxSpawns                       (* bounds: cycles, processes   *)

VARIABLES
  fire_at,         (* the page and its stop()                               *)
  baker,           (* where the worker is                                   *)
  todo, restarts,  (* workloads to launch, and whether they are restarts    *)
  forked,          (* the process that is forked and not listed yet         *)
  alive, listed, killed,   (* processes; child_processes_; sent SIGKILL     *)
  spawned, cycle,
  stop_requested,
  up, in_gap, baking_error,          (* snapshot_: flags, gap, a message    *)
  chart, label, steps                (* of the page; steps: timer runs      *)

processes == <<forked, alive, listed, killed, spawned>>
snapshot  == <<cycle, up, in_gap, baking_error>>
pageUi    == <<chart, label, steps>>
bakingVars == <<fire_at, baker, todo, restarts, processes, stop_requested, snapshot, pageUi>>

None == [of |-> "none", n |-> 0]
Running(w) == {p \in alive : p.of = w}
Charts == 9                                            (* K_CHART_CONFIGS *)

-----------------------------------------------------------------------------
(* The worker.                                                             *)

Baker(at) == fire_at # "closed" /\ baker = at
Page      == <<fire_at, stop_requested, pageUi>>

(* reap_children_ of the processes that have ended.                        *)
Reap(ended) ==
  /\ listed' = listed \ ended
  /\ up' = [w \in DOMAIN up |-> up[w] /\ \A p \in ended : p.of # w]

BeginCycle ==
  /\ Baker("cycle")
  /\ IF stop_requested
     THEN baker' = "kill_last" /\ UNCHANGED <<todo, restarts, snapshot>>
     ELSE /\ cycle' = cycle + 1 /\ in_gap' = FALSE /\ up' = [w \in DOMAIN up |-> FALSE]
          /\ baker' = "launch" /\ todo' = DOMAIN up /\ restarts' = FALSE
          /\ baking_error' \in {baking_error, TRUE}     (* a directory is missing *)
  /\ UNCHANGED <<Page, processes>>

(* launch_workload_, up to fork(): a stop that was requested, the log, or  *)
(* fork itself may prevent it.  The workloads take turns: restarts come as *)
(* their processes were listed, the others by index.                       *)
Fork ==
  /\ Baker("launch")
  /\ \E w \in todo :
       \/ /\ ~stop_requested /\ spawned < MaxSpawns
          /\ spawned' = spawned + 1
          /\ forked' = [of |-> w, n |-> spawned + 1]
          /\ alive' = alive \cup {forked'}
          /\ baker' = "list" /\ UNCHANGED <<todo, up, baking_error>>
       \/ /\ todo' = todo \ {w} /\ baking_error' = TRUE
          /\ up' = IF stop_requested THEN up ELSE [up EXCEPT ![w] = FALSE]
          /\ UNCHANGED <<baker, spawned, forked, alive>>
  /\ UNCHANGED <<Page, restarts, listed, killed, cycle, in_gap>>

(* It enters child_processes_, and then its flag is set; a restart is told *)
(* as an error, and stays so.                                              *)
List ==
  /\ Baker("list") /\ baker' = "flag"
  /\ listed' = listed \cup {forked}
  /\ UNCHANGED <<Page, todo, restarts, forked, alive, killed, spawned, snapshot>>

Flag ==
  /\ Baker("flag") /\ baker' = "launch"
  /\ up' = [up EXCEPT ![forked.of] = TRUE] /\ forked' = None
  /\ todo' = todo \ {forked.of} /\ baking_error' = (baking_error \/ restarts)
  /\ UNCHANGED <<Page, restarts, alive, listed, killed, spawned, cycle, in_gap>>

Launched ==
  /\ Baker("launch") /\ todo = {} /\ baker' = "round"
  /\ UNCHANGED <<Page, todo, restarts, processes, snapshot>>

(* Mutant: when a process has exited, every workload is started again.     *)
RoundRestartsAll ==
  /\ Baker("round")
  /\ LET ended == listed \ alive
     IN \E over \in BOOLEAN :
          IF stop_requested
          THEN baker' = "wait_term" /\ UNCHANGED <<todo, restarts, up, listed, baking_error>>
          ELSE /\ Reap(ended) /\ restarts' = TRUE
               /\ baking_error' \in {baking_error, TRUE}       (* of the sample *)
               /\ IF over THEN baker' = "wait_term" /\ UNCHANGED todo
                  ELSE /\ baker' = "launch"
                       /\ todo' = IF ended = {} THEN {w \in DOMAIN up : ~up[w]} ELSE DOMAIN up
  /\ UNCHANGED <<Page, forked, alive, killed, spawned, cycle, in_gap>>

(* A round, once a second, until the time of the cycle is over: processes  *)
(* that have exited are started again; if there were none, those without a *)
(* flag.  A sample is taken, which may fail to be appended.                *)
Round ==
  /\ Baker("round")
  /\ LET ended == listed \ alive
     IN \E over \in BOOLEAN :
          IF stop_requested
          THEN baker' = "wait_term" /\ UNCHANGED <<todo, restarts, up, listed, baking_error>>
          ELSE /\ Reap(ended) /\ restarts' = TRUE
               /\ baking_error' \in {baking_error, TRUE}       (* of the sample *)
               /\ IF over THEN baker' = "wait_term" /\ UNCHANGED todo
                  ELSE /\ baker' = "launch"
                       /\ todo' = IF ended = {} THEN {w \in DOMAIN up : ~up[w]}
                                  ELSE {w \in DOMAIN up : \E p \in ended : p.of = w}
  /\ UNCHANGED <<Page, forked, alive, killed, spawned, cycle, in_gap>>

(* Mutant: what ignores SIGTERM is not killed.                             *)
WaitForTermOnly ==
  /\ Baker("wait_term")
  /\ Reap(listed \ alive) /\ baker' = "wait_kill"
  /\ UNCHANGED <<Page, todo, restarts, forked, alive, killed, spawned, cycle, in_gap, baking_error>>

(* stop_children_(SIGTERM), wait_children_(2): until the list is empty or  *)
(* the time is over; then SIGKILL.                                         *)
WaitAfterTerm ==
  /\ Baker("wait_term")
  /\ Reap(listed \ alive)
  /\ baker' = "wait_kill" /\ killed' = killed \cup listed'
  /\ UNCHANGED <<Page, todo, restarts, forked, alive, spawned, cycle, in_gap, baking_error>>

(* wait_children_(1), and the gap, unless it is the end.                   *)
WaitAfterKill ==
  /\ Baker("wait_kill") /\ listed \cap alive = {}
  /\ Reap(listed)
  /\ baker' = IF stop_requested THEN "kill_last" ELSE "gap"
  /\ in_gap' = (in_gap \/ ~stop_requested)
  /\ UNCHANGED <<Page, todo, restarts, forked, alive, killed, spawned, cycle, baking_error>>

(* wait_interruptible_(K_GAP_SECONDS)                                      *)
GapEnds ==
  /\ Baker("gap") /\ (stop_requested \/ cycle < MaxCycles)
  /\ baker' = "cycle"
  /\ UNCHANGED <<Page, todo, restarts, processes, snapshot>>

(* The worker's end: SIGKILL and a wait once more, running_ is cleared.    *)
BakerEnds ==
  /\ Baker("kill_last") /\ listed \cap alive = {}
  /\ Reap(listed) /\ baker' = "ended"
  /\ UNCHANGED <<Page, todo, restarts, forked, alive, killed, spawned, cycle, in_gap, baking_error>>

-----------------------------------------------------------------------------
(* The processes.                                                          *)

Exits == \E p \in alive : alive' = alive \ {p}
Process ==
  /\ Exits
  /\ UNCHANGED <<Page, baker, todo, restarts, forked, listed, killed, spawned, snapshot>>
KilledEnds ==
  /\ \E p \in killed \cap alive : alive' = alive \ {p}
  /\ UNCHANGED <<Page, baker, todo, restarts, forked, listed, killed, spawned, snapshot>>

-----------------------------------------------------------------------------
(* The page.                                                               *)

Service == <<fire_at, baker, todo, restarts, processes, stop_requested, snapshot>>

(* start_cooking_, from build_content; Enter does nothing any more.        *)
OpenFire ==
  /\ fire_at = "closed" /\ baker = "none"
  /\ fire_at' = "open" /\ baker' = "cycle" /\ steps' = TRUE
  /\ UNCHANGED <<todo, restarts, processes, stop_requested, snapshot, chart, label>>

(* Mutant: the steps are resumed after the error was told.                 *)
ToldThenResumed(resumed) ==
  /\ label' = IF baking_error THEN "error" ELSE label
  /\ steps' = resumed

(* update_runtime_ui_: an error takes the place of the steps.              *)
Told(resumed) ==
  IF baking_error THEN label' = "error" /\ steps' = FALSE
  ELSE UNCHANGED label /\ steps' = resumed

UiTimer == fire_at = "open" /\ Told(steps) /\ UNCHANGED <<Service, chart>>

(* step_timer_cb writes the next step.                                     *)
StepTimer ==
  /\ fire_at = "open" /\ steps /\ ~chart
  /\ label' = "step"
  /\ UNCHANGED <<Service, chart, steps>>

(* Key S: show_chart_.                                                     *)
ShowChart ==
  /\ fire_at = "open" /\ ~chart
  /\ chart' = TRUE /\ steps' = FALSE
  /\ UNCHANGED <<Service, label>>

(* The back key: hide_chart_, which resumes the steps.                     *)
HideChart ==
  /\ fire_at = "open" /\ chart /\ chart' = FALSE
  /\ Told(TRUE)
  /\ UNCHANGED Service

(* The destructor: stop() asks, signals, joins, kills and waits.           *)
Asks ==
  /\ fire_at = "open" /\ ~chart
  /\ fire_at' = "join" /\ stop_requested' = TRUE
  /\ UNCHANGED <<baker, todo, restarts, processes, snapshot, pageUi>>

(* Mutant: the worker is not waited for.                                   *)
KillsAtOnce ==
  /\ fire_at = "join"
  /\ fire_at' = "wait" /\ killed' = killed \cup listed
  /\ UNCHANGED <<baker, todo, restarts, forked, alive, listed, spawned, stop_requested, snapshot,
                 pageUi>>

JoinsAndKills ==
  /\ fire_at = "join" /\ baker = "ended"
  /\ fire_at' = "wait" /\ killed' = killed \cup listed
  /\ UNCHANGED <<baker, todo, restarts, forked, alive, listed, spawned, stop_requested, snapshot,
                 pageUi>>

Closes ==
  /\ fire_at = "wait" /\ listed \cap alive = {}
  /\ fire_at' = "closed" /\ listed' = {}
  /\ up' = [w \in DOMAIN up |-> FALSE] /\ in_gap' = FALSE
  /\ UNCHANGED <<baker, todo, restarts, forked, alive, killed, spawned, stop_requested, cycle,
                 baking_error, pageUi>>

-----------------------------------------------------------------------------
BakingInit ==
  /\ fire_at = "closed" /\ baker = "none" /\ todo = {} /\ restarts = FALSE
  /\ forked = None /\ alive = {} /\ listed = {} /\ killed = {} /\ spawned = 0 /\ cycle = 0
  /\ stop_requested = FALSE /\ up = [w \in Workloads |-> FALSE] /\ in_gap = FALSE
  /\ baking_error = FALSE /\ chart = FALSE /\ label = "step" /\ steps = FALSE

BakerStep ==
  \/ BeginCycle \/ Fork \/ List \/ Flag \/ Launched \/ Round \/ WaitAfterTerm \/ WaitAfterKill
  \/ GapEnds \/ BakerEnds
StopStep == JoinsAndKills \/ Closes
FireKey  == OpenFire \/ ShowChart \/ HideChart \/ Asks
BakingNext == BakerStep \/ Process \/ StopStep \/ FireKey \/ UiTimer \/ StepTimer

-----------------------------------------------------------------------------
(* What a sample and a chart are made of.                                  *)

Smallest(S) == CHOOSE x \in S : \A y \in S : x <= y
Largest(S)  == CHOOSE x \in S : \A y \in S : y <= x

(* Mutant: the counters are taken to go up and idle to be a part.          *)
RawCpuPercent(total, idle, was) ==
  (((total - was.total) - (idle - was.idle)) * 100) \div (total - was.total)

(* collect_metric_sample_: of what passed since the last sample; counters  *)
(* may be read while they change.                                          *)
CpuPercent(total, idle, was) ==
  LET passed == total - was.total
      rested == IF idle >= was.idle THEN idle - was.idle ELSE 0
  IN ((passed - Smallest({passed, rested})) * 100) \div passed

(* change_chart_, left and right: the charts make a ring.                  *)
NextChart(metric, direction) == (metric + Charts + direction) % Charts

(* Mutant: the range of what was measured.                                 *)
MeasuredRange(values) == <<Smallest(values), Largest(values)>>

(* refresh_chart_, of a chart with a dynamic range.                        *)
ChartRange(values) ==
  LET low  == Smallest(values \cup {0})
      high == Largest(values \cup {0})
      span == Largest({100, high - low})
  IN <<low - (span \div 10), high + (span \div 10)>>

-----------------------------------------------------------------------------
(* Properties.                                                             *)

(* worker_loop_, stop: a workload never runs twice; a flag that is set is  *)
(* that of a process, which is listed, so that it can be killed; between   *)
(* cycles and when the page is gone nothing runs; steps do not overwrite   *)
(* an error that is on display.                                            *)
PressureContained ==
  /\ \A w \in DOMAIN up : Cardinality(Running(w)) <= 1
  /\ alive \subseteq listed \cup {forked}
  /\ \A w \in DOMAIN up : up[w] => \E p \in listed : p.of = w
  /\ in_gap /\ baker \notin {"cycle", "launch"} => alive = {} /\ listed = {}
  /\ fire_at = "closed" => alive = {} /\ listed = {}
  /\ label = "error" => ~steps

(* Leaving comes to an end, at whatever step the worker is.                *)
StopsBaking == fire_at \in {"join", "wait"} ~> fire_at = "closed"

(* collect_metric_sample_, refresh_chart_: a usage is a percentage, and a  *)
(* dynamic range holds every value, and more than one; left undoes right.  *)
ChartsSound ==
  /\ \A was \in [total : 0 .. 3, idle : 0 .. 3], total, idle \in 0 .. 5 :
       total > was.total => CpuPercent(total, idle, was) \in 0 .. 100
  /\ \A metric \in 0 .. Charts - 1 :
       {NextChart(NextChart(metric, d), -d) : d \in {-1, 1}} = {metric}
  /\ \A values \in SUBSET {-2000, -3, 0, 7, 450} :
       values # {} =>
         LET range == ChartRange(values)
         IN range[1] < range[2] /\ \A v \in values : range[1] <= v /\ v <= range[2]
=============================================================================
