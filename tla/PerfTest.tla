------------------------------ MODULE PerfTest ------------------------------
(***************************************************************************)
(* The performance tests: sysbench, stress-ng and fio, each run by a       *)
(* thread that a view starts and leaves to itself (perf_command_view.cpp,  *)
(* cpu_benchmark_service.cpp), on a page of its own                        *)
(* (perf_single_test_page.cpp).  The page with a menu of the three,        *)
(* PerfTestPage, is not modelled: nothing calls show_perf_test_page.       *)
(*                                                                         *)
(* A job outlives its view, so two of them may run at once and share the   *)
(* YAML file of stress-ng and the data file of fio.  Percentages are       *)
(* counted in quarters; output is what the parsers tell apart.             *)
(***************************************************************************)
EXTENDS Integers, SequencesExt

CONSTANTS
  JobTours,       (* the benchmarks started, sequences of kinds             *)
  JobEnds         (* by kind: how the tool may end, a set of worlds         *)

VARIABLES
  jobs,           (* every job that was started: its JobState and thread    *)
  yaml,           (* the YAML file: whose it is, and what is in it          *)
  data_file,      (* fio's file is there                                    *)
  watched,        (* the job of the view on display, 0 without a view       *)
  bar, fake,      (* of the view: progress on display, and made up          *)
  report          (* the result shown and recorded as evidence              *)

viewVars == <<watched, bar, fake, report>>
perfVars == <<jobs, yaml, data_file, viewVars>>

Full       == 4                               (* 100 %                      *)
MaxEmitted == Full - 1                        (* 99 %                       *)
MaxFake    == Full - 2                        (* 90 %                       *)

-----------------------------------------------------------------------------
(* cpu_benchmark_service.cpp: results.                                     *)

(* ProcessResult; the exit code of a command that did not exit is -1.      *)
Ended(exited, code, timed_out, error) ==
  [exited |-> exited, code |-> code, timed_out |-> timed_out, error |-> error]
Success(p) == p.exited /\ p.code = 0 /\ ~p.timed_out /\ ~p.error
Outcomes ==
  {Ended(TRUE, 0, FALSE, FALSE), Ended(TRUE, 1, FALSE, FALSE), Ended(FALSE, -1, FALSE, FALSE),
   Ended(FALSE, -1, TRUE, FALSE), Ended(TRUE, 0, TRUE, FALSE), Ended(FALSE, -1, FALSE, TRUE)}

(* parse_sysbench_stdout *)
CpuPasses(p, events) == Success(p) /\ events

(* parse_stress_stdout: counts of the summary, -1 when it has none.        *)
StdoutOk(s) == s.passed > 0 /\ s.failed <= 0 /\ s.untrustworthy <= 0
Summaries == [passed : {-1, 0, 2}, failed : {-1, 0, 1}, untrustworthy : {-1, 0, 1}]

(* parse_stress_yaml: of a document with a first metric, or without.       *)
YamlPasses(p, s, first) ==
  /\ ~p.timed_out /\ ~p.error
  /\ p.code = 0 \/ StdoutOk(s)
  /\ first \/ StdoutOk(s)

(* Mutant: the summary on the output counts whatever the process did.      *)
MemPassesOnSummary(p, s, y) ==
  CASE Success(p) /\ y # "none" -> YamlPasses(p, s, y = "first")
    [] Success(p) /\ y = "none" -> StdoutOk(s)
    [] ~Success(p) -> StdoutOk(s)

(* run_memory_stress_ng: the file is only read after a success; y is       *)
(* "first", "empty" or "none" of it.                                       *)
MemPasses(p, s, y) ==
  CASE Success(p) /\ y # "none" -> YamlPasses(p, s, y = "first")
    [] Success(p) /\ y = "none" -> StdoutOk(s)
    [] ~Success(p) -> StdoutOk(s) /\ ~p.timed_out /\ ~p.error

(* parse_fio_json: a job without an error and with a bandwidth.            *)
FioPasses(p, doc) == Success(p) /\ doc.job /\ doc.errors = 0 /\ doc.bandwidth

(* run_sd_card_fio *)
SdPasses(p, doc) == Success(p) /\ doc.json /\ FioPasses(p, doc)
FioDocs == [json : BOOLEAN, job : BOOLEAN, errors : {0, 5}, bandwidth : BOOLEAN]

(* Mutant: the first object, or all of it without a whole one.             *)
FirstJsonDocument(text) ==
  LET ends == {i \in DOMAIN text : text[i] = "}"}
  IN IF ends = {} THEN text ELSE SubSeq(text, 1, CHOOSE i \in ends : \A k \in ends : i <= k)

(* final_json_document: fio reports again and again, one object after the  *)
(* other; the last whole one is taken.  One pass over the text, of which   *)
(* only braces, quotes, backslashes and other characters are told apart.   *)
FinalJsonDocument(text) ==
  LET step(st, i) ==
        CASE st.string /\ st.escaped -> [st EXCEPT !.escaped = FALSE]
          [] st.string /\ ~st.escaped -> [st EXCEPT !.escaped = (text[i] = "\\"),
                                                    !.string = (text[i] # "quote")]
          [] ~st.string /\ text[i] = "quote" -> [st EXCEPT !.string = TRUE]
          [] ~st.string /\ text[i] = "{" ->
               [st EXCEPT !.depth = @ + 1, !.start = IF st.depth = 0 THEN i ELSE @]
          [] ~st.string /\ text[i] = "}" /\ st.depth > 0 ->
               [st EXCEPT !.depth = @ - 1,
                          !.last = IF st.depth = 1 THEN <<st.start, i>> ELSE @]
          [] OTHER -> st
      end == FoldLeft(step, [string |-> FALSE, escaped |-> FALSE, depth |-> 0, start |-> 0,
                             last |-> <<>>], [i \in DOMAIN text |-> i])
  IN IF end.last = <<>> THEN text ELSE SubSeq(text, end.last[1], end.last[2])

-----------------------------------------------------------------------------
(* The thread of a job.                                                    *)

NoResult  == [status |-> "none", metrics_of |-> 0]
Default   == [status |-> "default", metrics_of |-> 0]        (* TestResult{}  *)
EmptyFile == [of |-> 0, has |-> "none"]
Status(passes) == IF passes THEN "PASS" ELSE "FAIL"
Job(k, mixed) ==
  [kind |-> k, at |-> "find", percent |-> 0, real |-> FALSE, ended |-> NoResult,
   result |-> Default, done |-> FALSE, mixed |-> mixed]
Running(k) == {j \in DOMAIN jobs : jobs[j].kind = k /\ ~jobs[j].done}

Progress(job, percent) == [job EXCEPT !.percent = percent, !.real = TRUE]

(* run_command_and_collect: no such tool is a warning, and the end.        *)
NotFound(j) ==
  /\ jobs[j].at = "find"
  /\ jobs' = [jobs EXCEPT ![j] = [Progress(@, Full) EXCEPT !.at = "store",
                !.ended = [status |-> "WARNING", metrics_of |-> 0]]]
  /\ UNCHANGED <<yaml, data_file>>

(* The tool is started: stress-ng and fio create their files.              *)
Launch(j) ==
  /\ jobs[j].at = "find"
  /\ jobs' = [jobs EXCEPT ![j].at = "run"]
  /\ yaml' = IF jobs[j].kind = "MEM" THEN EmptyFile ELSE yaml
  /\ data_file' = (data_file \/ jobs[j].kind = "SD")

(* Mutant: a line may say that all is done.                                *)
EmitAll(j) ==
  /\ jobs[j].at = "run" /\ watched = j
  /\ \E p \in 0 .. Full : p # jobs[j].percent /\ jobs' = [jobs EXCEPT ![j] = Progress(@, p)]
  /\ UNCHANGED <<yaml, data_file>>

(* emit_progress_line: from the time that has passed or the percentage in  *)
(* the line, never more than 99.  Nobody sees it without a view.           *)
EmitProgress(j) ==
  /\ jobs[j].at = "run" /\ watched = j
  /\ \E p \in 0 .. MaxEmitted :
       p # jobs[j].percent /\ jobs' = [jobs EXCEPT ![j] = Progress(@, p)]
  /\ UNCHANGED <<yaml, data_file>>

(* run_command returns, at the latest at its time limit; a tool that got   *)
(* so far has written its metrics.                                         *)
CommandEnds(j) ==
  \E w \in JobEnds[jobs[j].kind] :
    /\ jobs[j].at = "run"
    /\ jobs' = [jobs EXCEPT ![j] = [Progress(@, Full) EXCEPT !.at = "parse", !.ended = w]]
    /\ yaml' = IF jobs[j].kind = "MEM" /\ w.yaml # "none" THEN [of |-> j, has |-> w.yaml] ELSE yaml
    /\ UNCHANGED data_file

(* What the job makes of it.  The YAML file may be another job's by now.   *)
Verdict(j) ==
  LET w == jobs[j].ended
  IN CASE jobs[j].kind = "CPU" -> Status(CpuPasses(w.process, w.events))
       [] jobs[j].kind = "MEM" -> Status(MemPasses(w.process, w.summary, yaml.has))
       [] jobs[j].kind = "SD"  -> Status(SdPasses(w.process, w.doc))

(* Whose metrics the result has, 0 without the YAML file.                  *)
MetricsOf(j) ==
  IF jobs[j].kind = "MEM" /\ Success(jobs[j].ended.process) THEN yaml.of ELSE 0

(* Mutant: the file is only removed after a success.                       *)
ParseKeepsFile(j) ==
  /\ jobs[j].at = "parse"
  /\ jobs' = [jobs EXCEPT ![j].at = "store",
       ![j].ended = [status |-> Verdict(j), metrics_of |-> MetricsOf(j)]]
  /\ data_file' = (data_file /\ ~(jobs[j].kind = "SD" /\ Success(jobs[j].ended.process)))
  /\ UNCHANGED yaml

(* run_cpu_sysbench, run_memory_stress_ng, run_sd_card_fio, which removes  *)
(* its file: a removal that fails, of which the code takes no more notice, *)
(* is left out.                                                            *)
Parse(j) ==
  /\ jobs[j].at = "parse"
  /\ jobs' = [jobs EXCEPT ![j].at = "store",
       ![j].ended = [status |-> Verdict(j), metrics_of |-> MetricsOf(j)]]
  /\ data_file' = (data_file /\ jobs[j].kind # "SD")
  /\ UNCHANGED yaml

(* Mutant: it is done before the result is there.                          *)
StoreLate(j) ==
  /\ jobs[j].at \in {"store", "flag"}
  /\ jobs' = IF jobs[j].at = "store"
             THEN [jobs EXCEPT ![j].done = TRUE, ![j].percent = Full, ![j].at = "flag"]
             ELSE [jobs EXCEPT ![j].result = jobs[j].ended, ![j].at = "end"]
  /\ UNCHANGED <<yaml, data_file>>

(* Mutant: done is only told of a tool that could be run.                  *)
StoreUnlessWarned(j) ==
  /\ jobs[j].at \in {"store", "flag"}
  /\ jobs' = IF jobs[j].at = "store"
             THEN [jobs EXCEPT ![j].result = jobs[j].ended, ![j].at = "flag"]
             ELSE [jobs EXCEPT ![j].done = (jobs[j].ended.status # "WARNING"),
                    ![j].percent = Full, ![j].at = "end"]
  /\ UNCHANGED <<yaml, data_file>>

(* The result is stored, then percent and done.                            *)
Store(j) ==
  /\ jobs[j].at \in {"store", "flag"}
  /\ jobs' = IF jobs[j].at = "store"
             THEN [jobs EXCEPT ![j].result = jobs[j].ended, ![j].at = "flag"]
             ELSE [jobs EXCEPT ![j].done = TRUE, ![j].percent = Full, ![j].at = "end"]
  /\ UNCHANGED <<yaml, data_file>>

JobAdvances(j) == NotFound(j) \/ Launch(j) \/ CommandEnds(j) \/ Parse(j) \/ Store(j)

-----------------------------------------------------------------------------
(* The view.                                                               *)

(* build, start_: a new attempt and a new job.  Two jobs of stress-ng at a *)
(* time mix their metrics; both are marked.                                *)
OpenView ==
  LET new   == Len(jobs) + 1
      kinds == [j \in DOMAIN jobs |-> jobs[j].kind]
  IN /\ watched = 0
     /\ \E tour \in JobTours : \E k \in {"CPU", "MEM", "SD"} :
          /\ IsPrefix(Append(kinds, k), tour)
          /\ jobs' = [j \in 1 .. new |->
                        IF j = new THEN Job(k, Running(k) # {})
                        ELSE [jobs[j] EXCEPT !.mixed = @ \/ j \in Running(k)]]
     /\ watched' = new /\ bar' = 0 /\ fake' = 0 /\ report' = NoResult
     /\ UNCHANGED <<yaml, data_file>>

(* displayed_progress_: stress-ng may say nothing for long; until it does, *)
(* a progress is made up that stops at 90.                                 *)
Displayed(j, made) ==
  IF jobs[j].kind # "MEM" \/ jobs[j].done \/ jobs[j].real THEN jobs[j].percent
  ELSE IF jobs[j].percent > made THEN jobs[j].percent ELSE made

(* update_, while there is no report: the third tick moves the made-up     *)
(* progress.  When the job is done its result is shown and recorded, and   *)
(* the timer pauses.                                                       *)
Update ==
  /\ watched # 0 /\ report = NoResult
  /\ \E made \in {fake, IF fake < MaxFake THEN fake + 1 ELSE fake} :
       /\ bar' = IF jobs[watched].done THEN Full ELSE Displayed(watched, made)
       /\ fake' = IF jobs[watched].kind = "MEM" /\ ~jobs[watched].done /\ ~jobs[watched].real
                  THEN made ELSE fake
  /\ report' = IF jobs[watched].done THEN jobs[watched].result ELSE report
  /\ UNCHANGED <<jobs, yaml, data_file, watched>>

(* ~PerfCommandView: the job goes on.                                      *)
CloseView ==
  /\ watched # 0 /\ watched' = 0
  /\ jobs' = [jobs EXCEPT ![watched].percent = 0, ![watched].real = FALSE]
  /\ bar' = 0 /\ fake' = 0 /\ report' = NoResult
  /\ UNCHANGED <<yaml, data_file>>

PerfInit ==
  /\ jobs = <<>> /\ yaml = EmptyFile /\ data_file = FALSE
  /\ watched = 0 /\ bar = 0 /\ fake = 0 /\ report = NoResult

PerfJob == \E j \in DOMAIN jobs : JobAdvances(j) /\ UNCHANGED viewVars
PerfNext ==
  \/ OpenView \/ Update \/ CloseView \/ PerfJob
  \/ \E j \in DOMAIN jobs : EmitProgress(j) /\ UNCHANGED viewVars

-----------------------------------------------------------------------------
(* Properties.                                                             *)

(* start_, show_report_: what is shown and recorded is the result of the   *)
(* job this view started, and all of it; the bar is only full when the     *)
(* command has ended; a made-up progress is not taken for a real one.      *)
OwnReport ==
  watched # 0 =>
    /\ report # NoResult => jobs[watched].done /\ report = jobs[watched].ended
    /\ bar = Full => jobs[watched].at \notin {"find", "run"}
    /\ fake > 0 => jobs[watched].kind = "MEM"

(* run_memory_stress_ng, run_sd_card_fio: the metrics are those of the     *)
(* job's own run unless another one ran at the same time, and fio's file   *)
(* is gone when the last of its jobs is.                                   *)
OwnFiles ==
  /\ \A j \in DOMAIN jobs :
       jobs[j].at \in {"store", "flag", "end"} /\ ~jobs[j].mixed
         => jobs[j].ended.metrics_of \in {0, j}
  /\ data_file => Running("SD") # {}

(* The verdicts: a tool that ran out of time, or could not be run, never   *)
(* passes, whatever it has written; one that exited with an error passes   *)
(* only by stress-ng's own summary.                                        *)
Timed(p) == p.timed_out \/ p.error
VerdictsSound ==
  /\ \A p \in Outcomes, s \in Summaries, y \in {"first", "empty", "none"} :
       MemPasses(p, s, y) => ~Timed(p) /\ (Success(p) \/ s.passed > 0)
  /\ \A p \in Outcomes : CpuPasses(p, TRUE) => ~Timed(p)
  /\ \A p \in Outcomes, d \in FioDocs : SdPasses(p, d) => ~Timed(p) /\ d.errors = 0

(* final_json_document: of the objects that fio prints one after the       *)
(* other, with braces in strings and the last one cut off, it is the last  *)
(* whole one.                                                              *)
Str(t)  == <<"quote">> \o t \o <<"quote">>
Object(t) == <<"{">> \o t \o <<"}">>
Texts   == {<<>>, <<"x">>, <<"{">>, <<"}">>, <<"\\", "quote">>, <<"\\", "\\">>}
Objects == {Object(<<>>), Object(Object(<<>>) \o Object(<<>>))} \cup {Object(Str(t)) : t \in Texts}
Between == {<<>>, <<"x">>, <<"}">>}
CutOff  == UNION {{SubSeq(o, 1, n) : n \in 0 .. Len(o) - 1} : o \in Objects}
LastWholeObject ==
  /\ \A a, b \in Objects, n \in Between, c \in CutOff :
       FinalJsonDocument(n \o a \o n \o b \o c) = b
  /\ \A n \in Between, c \in CutOff : FinalJsonDocument(n \o c) = n \o c
=============================================================================
