------------------------------ MODULE JobPages ------------------------------
(***************************************************************************)
(* What runs beside the interface: a command (ProcessRunner), the threads  *)
(* of the benchmarks and of the recordings, which outlive their pages, the *)
(* callbacks of the sounds and of the camera, the headphone switch that    *)
(* the audio page polls, the pressure test, the timers that lead the       *)
(* display to a brightness, and the files that outlive the program: its    *)
(* logs and its configuration.  They share no state, so that one at a time *)
(* is looked at, `current'; where two of them do meet, in the lock of the  *)
(* sounds, AudioTest has both sides.                                       *)
(***************************************************************************)
EXTENDS ProcessRunner, Sequences

CONSTANTS
  JobTours, JobEnds,                                                       (* PerfTest *)
  AudioPages, MaxTakes,                                                   (* AudioTest *)
  Clips, Chunk, MaxSounds,                                                 (* UiSounds *)
  MaxNodes,                                                         (* HeadphoneSwitch *)
  Buffers, MaxOpened,                                                    (* CameraTest *)
  Workloads, MaxCycles, MaxSpawns,                                         (* BakingPi *)
  MaxPercent, InitialPercent, StartLevels, MaxChanges,                           (* LcdTest *)
  MaxSegment, MaxDirectory, Header, Lines, Names, OldFiles, MaxRuns, MaxParts,
                                                                           (* LogFiles *)
  FoundFiles, MaxSaves                                                  (* ConfigStore *)

VARIABLES
  current,                                                   (* what is looked at      *)
  jobs, yaml, data_file, watched, bar, fake, report,                       (* PerfTest *)
  audio_page, has_device, stage, thread, take, takes, met, sound_of, recording, volume,
  played_at, sfx_lock, play_lock, sfx_started, interface,                 (* AudioTest *)
  sfx, sfx_writes, sfx_enabled, sfx_calls, sfx_callback,                   (* UiSounds *)
  jack_page, jack_node, jack_nodes, inserted, jack_fd, jack_shown,  (* HeadphoneSwitch *)
  cam_at, cam_held, cam_leaving, cam_running, requests, cam_callback, frame_ready,
  in_sequence, cam_evidence, cam_opened,                                 (* CameraTest *)
  fire_at, baker, todo, restarts, forked, alive, listed, killed, spawned, cycle,
  stop_requested, up, in_gap, baking_error, chart, label, steps,           (* BakingPi *)
  lcd_at, color, dimming, tile, overlay, seen, requested, target, believed, loaded,
  backlight, stored, commit, smooth, changes,                               (* LcdTest *)
  log, foreign, cut, runs,                                                 (* LogFiles *)
  conf_at, conf_file, durable, config, conf_saved, audible, found, touched,
  conf_saves                                                            (* ConfigStore *)

Perf   == INSTANCE PerfTest
Audio  == INSTANCE AudioTest
Sounds == INSTANCE UiSounds
Jack   == INSTANCE HeadphoneSwitch
Camera == INSTANCE CameraTest
Baking == INSTANCE BakingPi
Lcd    == INSTANCE LcdTest
Logs   == INSTANCE LogFiles
Config == INSTANCE ConfigStore

ASSUME JobConstants == {AudioPages, MaxTakes, MaxSounds, MaxNodes, MaxOpened, MaxCycles,
                         MaxSpawns, MaxRuns, MaxParts, MaxSaves} \subseteq Nat
                       /\ {Chunk, Buffers} \subseteq Nat \ {0}

(* What the parser makes of a configuration file.                          *)
ASSUME JobFiles ==
  \A f \in FoundFiles :
    /\ f = [kind |-> f.kind, language |-> f.language, sounds |-> f.sounds, baud |-> f.baud,
            segment |-> f.segment, directory |-> f.directory]
    /\ f.segment \in Nat /\ f.directory \in Nat

(* The logs of earlier runs, each file by a name of its own; a segment has *)
(* room for its header.                                                    *)
ASSUME JobLogs ==
  /\ {MaxSegment, MaxDirectory} \subseteq Nat /\ Header \in 0 .. MaxSegment /\ Lines \subseteq Nat
  /\ \A dir \in OldFiles :
       /\ dir \in Seq(Logs!Files)
       /\ \A i, j \in 1 .. Len(dir) : dir[i].run = dir[j].run /\ dir[i].part = dir[j].part => i = j

(* The sounds that were decoded.                                           *)
ASSUME JobSounds == Clips \in Seq([frames : Nat, rate : Nat])

perf    == <<jobs, yaml, data_file, watched, bar, fake, report>>
audio   == <<audio_page, has_device, stage, thread, take, takes, met, sound_of, recording, volume,
             played_at, sfx_lock, play_lock, sfx_started, interface>>
sounds  == <<sfx, sfx_writes, sfx_enabled, sfx_calls, sfx_callback>>
jack    == <<jack_page, jack_node, jack_nodes, inserted, jack_fd, jack_shown>>
camera  == <<cam_at, cam_held, cam_leaving, cam_running, requests, cam_callback, frame_ready,
             in_sequence, cam_evidence, cam_opened>>
baking  == <<fire_at, baker, todo, restarts, forked, alive, listed, killed, spawned, cycle,
             stop_requested, up, in_gap, baking_error, chart, label, steps>>
lcd     == <<lcd_at, color, dimming, tile, overlay, seen, requested, target, believed, loaded,
             backlight, stored, commit, smooth, changes>>
logs    == <<log, foreign, cut, runs>>
conf    == <<conf_at, conf_file, durable, config, conf_saved, audible, found, touched,
             conf_saves>>
jobVars == <<current, vars, perf, audio, sounds, jack, camera, baking, lcd, logs, conf>>

JobInit ==
  /\ current \in {"command", "perf", "audio", "sounds", "jack", "camera", "baking", "lcd",
                 "logs", "config"}
  /\ Init /\ Perf!PerfInit /\ Audio!AudioInit /\ Sounds!SfxInit /\ Jack!JackInit
  /\ Camera!CamInit /\ Baking!BakingInit /\ Lcd!LcdInit
  /\ Logs!LogInit /\ Config!ConfInit
  /\ current # "audio" => ~sfx_started
  /\ current # "sounds" => sfx_enabled
  /\ current # "lcd" => backlight = InitialPercent
  /\ current # "logs" => foreign = 0
  /\ current # "config" => conf_file.kind = "none"
  /\ current # "jack" => jack_node = 1 /\ inserted

RunCommand ==
  /\ current = "command" /\ Next
  /\ UNCHANGED <<current, perf, audio, sounds, jack, camera, baking, lcd, logs, conf>>
TestPerformance ==
  /\ current = "perf" /\ Perf!PerfNext
  /\ UNCHANGED <<current, vars, audio, sounds, jack, camera, baking, lcd, logs, conf>>
TestAudio ==
  /\ current = "audio" /\ Audio!AudioNext
  /\ UNCHANGED <<current, vars, perf, sounds, jack, camera, baking, lcd, logs, conf>>
MakeSounds ==
  /\ current = "sounds" /\ Sounds!SfxNext
  /\ UNCHANGED <<current, vars, perf, audio, jack, camera, baking, lcd, logs, conf>>
ReadJack ==
  /\ current = "jack" /\ Jack!JackNext
  /\ UNCHANGED <<current, vars, perf, audio, sounds, camera, baking, lcd, logs, conf>>
TestCamera ==
  /\ current = "camera" /\ Camera!CamNext
  /\ UNCHANGED <<current, vars, perf, audio, sounds, jack, baking, lcd, logs, conf>>
BakePi ==
  /\ current = "baking" /\ Baking!BakingNext
  /\ UNCHANGED <<current, vars, perf, audio, sounds, jack, camera, lcd, logs, conf>>
TestDisplay ==
  /\ current = "lcd" /\ Lcd!LcdNext
  /\ UNCHANGED <<current, vars, perf, audio, sounds, jack, camera, baking, logs, conf>>
WriteLogs ==
  /\ current = "logs" /\ Logs!LogNext
  /\ UNCHANGED <<current, vars, perf, audio, sounds, jack, camera, baking, lcd, conf>>
KeepConfig ==
  /\ current = "config" /\ Config!ConfNext
  /\ UNCHANGED <<current, vars, perf, audio, sounds, jack, camera, baking, lcd, logs>>

JobNext ==
  RunCommand \/ TestPerformance \/ TestAudio \/ MakeSounds \/ ReadJack \/ TestCamera \/ BakePi
  \/ TestDisplay \/ WriteLogs \/ KeepConfig

(* Threads run, commands have a time limit, timers fire, libcamera and the *)
(* audio library call back, a killed process ends.  A lock that is given   *)
(* again and again is had in the end: the keys that make a sound hold it   *)
(* for an instant.  The user owes nothing.                                 *)
JobFairness ==
  /\ WF_vars(current = "command" /\ Caller)
  /\ WF_vars(current = "command" /\ Elapse)
  /\ WF_perf(current = "perf" /\ Perf!PerfJob)
  /\ WF_perf(current = "perf" /\ Perf!Update)
  /\ WF_audio(current = "audio" /\ Audio!Handler)
  /\ \A p \in 1 .. AudioPages : SF_audio(current = "audio" /\ Audio!Thread(p))
  /\ WF_sounds(current = "sounds" /\ Sounds!CallerWrites)
  /\ WF_sounds(current = "sounds" /\ Sounds!SfxCallback)
  /\ WF_jack(current = "jack" /\ Jack!PollJack)
  /\ WF_camera(current = "camera" /\ Camera!CamStart)
  /\ WF_camera(current = "camera" /\ Camera!CamStop)
  /\ WF_camera(current = "camera" /\ Camera!CamCallback)
  /\ WF_baking(current = "baking" /\ Baking!BakerStep)
  /\ WF_baking(current = "baking" /\ Baking!StopStep)
  /\ WF_baking(current = "baking" /\ Baking!KilledEnds)
  /\ WF_lcd(current = "lcd" /\ Lcd!Commit) /\ WF_lcd(current = "lcd" /\ Lcd!Smooth)

JobSpec == JobInit /\ [][JobNext]_jobVars /\ JobFairness

-----------------------------------------------------------------------------
(* Properties: those of ProcessRunner are Inv and LimitKept.               *)

(* PerfTest: a view shows and records the result of its own job, from the  *)
(* files of its own run.                                                   *)
JobsInv == Perf!OwnReport /\ Perf!OwnFiles

(* AudioTest, UiSounds, HeadphoneSwitch, CameraTest, BakingPi, LcdTest: a  *)
(* page plays its own recording, no callback reads what is not there, what *)
(* a page took or started is given back, however it ended, and the display *)
(* is as bright as it was asked to be.                                     *)
DevicesInv ==
  /\ Audio!PlaysOwnRecording /\ Sounds!SoundsInBounds /\ Jack!JackReleased
  /\ Camera!CameraHandsBack /\ Baking!PressureContained
  /\ Lcd!DisplayFollows

(* LogFiles, ConfigStore: the logs stay within their limits, whole and in  *)
(* files of their own; what is configured is valid, and is what is read    *)
(* again, whatever failed and whenever the power was cut.                  *)
FilesInv == Logs!LogsBounded /\ Config!ConfigSound

(* What is made of a tool's output, of a frame and of a sample is sound.   *)
(* It does not depend on the state, and is evaluated once.                 *)
OutputUnderstood ==
  current = "perf" /\ jobs = <<>> =>
    Perf!VerdictsSound /\ Perf!LastWholeObject /\ Camera!PixelsSound
    /\ Baking!ChartsSound

(* Each of them comes to its end: a benchmark is reported, a recording is  *)
(* played or has failed, the interface goes on, a sound ends, the switch   *)
(* is found again, a camera is started or given back, the pressure stops,  *)
(* the brightness settles.                                                 *)
JobsEnd ==
  /\ watched # 0 ~> (watched = 0 \/ report # Perf!NoResult)
  /\ Audio!InterfaceGoesOn /\ Sounds!SoundEnds /\ Jack!JackReturns /\ Camera!CameraSettles
  /\ Baking!StopsBaking /\ Lcd!BrightnessSettles
=============================================================================
