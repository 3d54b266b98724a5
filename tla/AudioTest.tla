------------------------------ MODULE AudioTest -----------------------------
(***************************************************************************)
(* The audio test: a page starts a thread that records five seconds,       *)
(* waits, and plays what it has recorded (audio_test_page.cpp,             *)
(* audio_service.cpp).  The thread outlives the page, so the thread of the *)
(* next page may meet it: they share the file of the recording, the volume *)
(* and two locks, one of the sounds of the interface and one of playback.  *)
(* The interface takes the same locks when a key makes a sound, on the     *)
(* thread that draws the screen.                                           *)
(*                                                                         *)
(* A lock is named by who holds it.  Of the sounds' device only whether it *)
(* is started is kept here; UiSounds has its callback.                     *)
(***************************************************************************)
EXTENDS Naturals

CONSTANTS
  AudioPages,      (* pages opened, 1 .. n                                  *)
  MaxTakes         (* recordings started                                    *)

VARIABLES
  audio_page, has_device,    (* the open page, 0 when there is none         *)
  stage,           (* by page: job_state_->stage                            *)
  thread,          (* by page: where its thread is                          *)
  take, takes,     (* by page: the number of its recording; all of them     *)
  met,             (* pages whose thread another page's thread has met      *)
  sound_of,        (* by page: the recording that was loaded                *)
  recording,       (* the file: whose it is, and whether it is whole        *)
  volume, played_at,         (* global_volume_level; by page, as it played  *)
  sfx_lock, play_lock,       (* ui_sfx_state().mutex, playback_mutex()      *)
  sfx_started,     (* the sounds' device                                    *)
  interface        (* what the interface waits for                          *)

audio_file == <<recording, sound_of>>
locks      == <<sfx_lock, play_lock, sfx_started>>
audioVars  == <<audio_page, has_device, stage, thread, take, takes, met, audio_file, volume,
                played_at, locks, interface>>

Pages == 1 .. AudioPages
Busy  == {"RECORDING", "WAITING_TO_PLAY", "PLAYING"}
Alive == {p \in Pages : thread[p] # "none"}

Moves(p, from, to) == thread[p] = from /\ thread' = [thread EXCEPT ![p] = to]
Stage(p, s)        == stage' = [stage EXCEPT ![p] = s]

Page == <<audio_page, has_device, take, takes, met, interface>>

-----------------------------------------------------------------------------
(* The interface: one handler at a time.                                   *)

(* The page: find_audio_device, a job state of its own.                    *)
OpenAudio ==
  /\ interface = "idle" /\ audio_page = 0
  /\ \E p \in Pages : /\ stage[p] = "gone" /\ \A q \in 1 .. p - 1 : stage[q] # "gone"
                      /\ audio_page' = p /\ Stage(p, "IDLE")
  /\ has_device' \in BOOLEAN
  /\ UNCHANGED <<thread, take, takes, met, audio_file, volume, played_at, locks, interface>>

(* Its destructor: the thread goes on.                                     *)
CloseAudio ==
  /\ interface = "idle" /\ audio_page # 0 /\ audio_page' = 0
  /\ UNCHANGED <<has_device, stage, thread, take, takes, met, audio_file, volume, played_at,
                 locks, interface>>

(* Mutant: Enter starts a recording also while one is running.             *)
PressEnterAgain ==
  /\ interface = "idle" /\ audio_page # 0 /\ has_device /\ takes < MaxTakes
  /\ interface' = "stop_ui_sounds"
  /\ UNCHANGED <<audio_page, has_device, stage, thread, take, takes, met, audio_file, volume,
                 played_at, locks>>

(* start_recording_, up to stop_ui_sounds, which takes the sounds' lock.   *)
PressEnter ==
  /\ interface = "idle" /\ audio_page # 0 /\ has_device /\ takes < MaxTakes
  /\ stage[audio_page] \notin Busy
  /\ interface' = "stop_ui_sounds"
  /\ UNCHANGED <<audio_page, has_device, stage, thread, take, takes, met, audio_file, volume,
                 played_at, locks>>

(* The rest of it: the thread is started.                                  *)
StartRecording ==
  /\ interface = "stop_ui_sounds" /\ sfx_lock = "free"
  /\ interface' = "idle"
  /\ Stage(audio_page, "RECORDING")
  /\ thread' = [thread EXCEPT ![audio_page] = "capture"]
  /\ takes' = takes + 1 /\ take' = [take EXCEPT ![audio_page] = takes + 1]
  /\ met' = IF Alive \ {audio_page} = {} THEN met \ {audio_page} ELSE met \cup Alive \cup {audio_page}
  /\ UNCHANGED <<audio_page, has_device, audio_file, volume, played_at, locks>>

(* play_ui_sound, of a key: the lock, then the device.                     *)
PressKey ==
  /\ interface = "idle" /\ interface' = "play_ui_sound"
  /\ UNCHANGED <<audio_page, has_device, stage, thread, take, takes, met, audio_file, volume,
                 played_at, locks>>

SoundOfKey ==
  /\ interface = "play_ui_sound" /\ sfx_lock = "free"
  /\ IF sfx_started THEN interface' = "idle" /\ UNCHANGED sfx_lock
     ELSE interface' = "ensure_device" /\ sfx_lock' = "interface"
  /\ UNCHANGED <<audio_page, has_device, stage, thread, take, takes, met, audio_file, volume,
                 played_at, play_lock, sfx_started>>

(* ensure_ui_sfx_device_locked waits for the playback lock with the        *)
(* sounds' lock in its hand, starts the device or fails, and gives both.   *)
EnsureDevice ==
  /\ interface = "ensure_device" /\ play_lock = "free"
  /\ interface' = "idle" /\ sfx_lock' = "free"
  /\ sfx_started' \in BOOLEAN
  /\ UNCHANGED <<audio_page, has_device, stage, thread, take, takes, met, audio_file, volume,
                 played_at, play_lock>>

-----------------------------------------------------------------------------
(* The thread of page p.                                                   *)

(* record_wav fails: no device, no samples in eight seconds, no file.      *)
RecordFails(p) ==
  /\ thread[p] \in {"capture", "write"}
  /\ Moves(p, thread[p], "none") /\ Stage(p, "ERROR")
  /\ UNCHANGED <<Page, audio_file, volume, played_at, locks>>

(* write_wav_file removes the file and writes it anew.                     *)
Captured(p) ==
  /\ Moves(p, "capture", "write")
  /\ recording' = [of |-> take[p], whole |-> FALSE]
  /\ UNCHANGED <<Page, stage, sound_of, volume, played_at, locks>>

Written(p) ==
  /\ Moves(p, "write", "wait")
  /\ recording' = [of |-> take[p], whole |-> TRUE]
  /\ Stage(p, "WAITING_TO_PLAY")
  /\ UNCHANGED <<Page, sound_of, volume, played_at, locks>>

(* After 700 ms: the volume is full, and the file is loaded.               *)
SetVolume(p) ==
  /\ Moves(p, "wait", "load")
  /\ volume' = "full" /\ Stage(p, "PLAYING")
  /\ UNCHANGED <<Page, audio_file, played_at, locks>>

(* A file that another thread is writing may be no WAV file yet.           *)
Load(p) ==
  \E clip \in {recording.of} \cup IF recording.whole THEN {} ELSE {0} :
    /\ Moves(p, "load", IF clip # 0 THEN "stop_sfx" ELSE "volume")
    /\ sound_of' = [sound_of EXCEPT ![p] = clip]
    /\ UNCHANGED <<Page, stage, recording, volume, played_at, locks>>

(* Mutant: the sounds are stopped with the playback lock in the hand.      *)
PlayThenStopSounds(p) ==
  \/ /\ Moves(p, "stop_sfx", "play") /\ play_lock = "free" /\ play_lock' = "thread"
     /\ UNCHANGED <<Page, stage, audio_file, volume, played_at, sfx_lock, sfx_started>>
  \/ /\ Moves(p, "play", "init") /\ sfx_lock = "free"
     /\ sfx_started' = FALSE /\ play_lock' = "free"
     /\ played_at' = [played_at EXCEPT ![p] = volume]
     /\ UNCHANGED <<Page, stage, audio_file, volume, sfx_lock>>

(* play_audio: stop_ui_sfx_device takes the sounds' lock and gives it, then *)
(* the playback lock is held for as long as it plays.                       *)
PlayAudio(p) ==
  \/ /\ Moves(p, "stop_sfx", "lock") /\ sfx_lock = "free"
     /\ sfx_started' = FALSE
     /\ UNCHANGED <<Page, stage, audio_file, volume, played_at, sfx_lock, play_lock>>
  \/ /\ Moves(p, "lock", "play") /\ play_lock = "free" /\ play_lock' = "thread"
     /\ played_at' = [played_at EXCEPT ![p] = volume]
     /\ UNCHANGED <<Page, stage, audio_file, volume, sfx_lock, sfx_started>>
  \/ /\ Moves(p, "play", "init") /\ play_lock' = "free"
     /\ UNCHANGED <<Page, stage, audio_file, volume, played_at, sfx_lock, sfx_started>>

(* initialize_ui_sounds: as the sound of a key, unless sounds are off.     *)
InitializeSounds(p) ==
  \/ /\ thread[p] = "init" /\ sfx_lock = "free"
     /\ IF sfx_started THEN Moves(p, "init", "volume") /\ UNCHANGED sfx_lock
        ELSE Moves(p, "init", "ensure") /\ sfx_lock' = "thread"
     /\ UNCHANGED <<Page, stage, audio_file, volume, played_at, play_lock, sfx_started>>
  \/ /\ Moves(p, "ensure", "volume") /\ play_lock = "free"
     /\ sfx_lock' = "free" /\ sfx_started' \in BOOLEAN
     /\ UNCHANGED <<Page, stage, audio_file, volume, played_at, play_lock>>

(* Mutant: the volume stays as it is.                                      *)
FinishLoud(p) ==
  /\ Moves(p, "volume", "none")
  /\ UNCHANGED volume
  /\ Stage(p, IF sound_of[p] # 0 THEN "COMPLETE" ELSE "ERROR")
  /\ UNCHANGED <<Page, audio_file, played_at, locks>>

(* The volume is halved, whatever it was; the playback may have failed.    *)
Finish(p) ==
  /\ Moves(p, "volume", "none")
  /\ volume' = "half"
  /\ \E s \in {"COMPLETE", "ERROR"} : (sound_of[p] = 0 => s = "ERROR") /\ Stage(p, s)
  /\ UNCHANGED <<Page, audio_file, played_at, locks>>

Thread(p) ==
  \/ RecordFails(p) \/ Captured(p) \/ Written(p) \/ SetVolume(p) \/ Load(p)
  \/ PlayAudio(p) \/ InitializeSounds(p) \/ Finish(p)

AudioInit ==
  /\ audio_page = 0 /\ has_device = FALSE
  /\ stage = [p \in Pages |-> "gone"] /\ thread = [p \in Pages |-> "none"]
  /\ take = [p \in Pages |-> 0] /\ takes = 0 /\ met = {}
  /\ sound_of = [p \in Pages |-> 0] /\ recording = [of |-> 0, whole |-> FALSE]
  /\ volume = "default" /\ played_at = [p \in Pages |-> "none"]
  /\ sfx_lock = "free" /\ play_lock = "free" /\ sfx_started \in BOOLEAN
  /\ interface = "idle"

Handler == StartRecording \/ SoundOfKey \/ EnsureDevice
AudioNext ==
  \/ OpenAudio \/ CloseAudio \/ PressEnter \/ PressKey \/ Handler
  \/ \E p \in Pages : Thread(p)

-----------------------------------------------------------------------------
(* Properties.                                                             *)

(* start_recording_: a page has one thread at a time, which its stage      *)
(* tells; without another page's thread it plays what it has recorded, and *)
(* at full volume; when the threads are gone, no lock is held by one and   *)
(* the volume is not left at the full one.                                 *)
PlaysOwnRecording ==
  /\ \A p \in Pages :
       /\ stage[p] \in Busy <=> thread[p] # "none"
       /\ thread[p] \in {"play", "init", "ensure"} /\ p \notin met =>
            sound_of[p] = take[p] /\ played_at[p] = "full"
  /\ Alive = {} => volume # "full" /\ sfx_lock # "thread" /\ play_lock = "free"

(* ensure_ui_sfx_device_locked, play_audio: the interface may have to wait *)
(* for a recording to end, but it does go on, and so does the test.        *)
InterfaceGoesOn ==
  /\ interface # "idle" ~> interface = "idle"
  /\ \A p \in Pages : stage[p] \in Busy ~> stage[p] \in {"COMPLETE", "ERROR"}
=============================================================================
