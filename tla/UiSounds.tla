------------------------------ MODULE UiSounds ------------------------------
(***************************************************************************)
(* The sounds of the interface (audio_service.cpp): a device that plays    *)
(* what the callback of the audio library hands it, and callers that make  *)
(* a sound, stop it, or take the device down for a recording's playback.   *)
(* Callers hold ui_sfx_state().mutex, so there is one at a time; the       *)
(* callback holds nothing, and reads `active', the sound and its offset    *)
(* one after the other while a caller writes them.  A key's sound may so   *)
(* be lost, or begin in its middle, when it meets the end of the last one. *)
(*                                                                         *)
(* A caller is the list of the writes it has still to do.  A sound is a    *)
(* record of its frames and its rate; the volumes are left out.            *)
(***************************************************************************)
EXTENDS Integers, Sequences

CONSTANTS
  Clips,           (* the sounds that were loaded, by UiSound; some are     *)
                   (* missing                                               *)
  Chunk,           (* frames the library asks for                           *)
  MaxSounds        (* bound: calls                                          *)

VARIABLES
  sfx,             (* active, audio, offset, and rate: the device's, 0      *)
                   (* when there is none                                    *)
  sfx_writes,      (* what the caller has still to write                    *)
  sfx_enabled,     (* ui_sounds_enabled_state()                             *)
  sfx_calls,       (* calls made                                            *)
  sfx_callback     (* at, sound, from, to                                   *)

sfxVars == <<sfx, sfx_writes, sfx_enabled, sfx_calls, sfx_callback>>

NoClip   == [frames |-> 0, rate |-> 0]
CallbackIdle == [at |-> "idle", sound |-> NoClip, from |-> 0, to |-> 0]
Least(a, b) == IF a < b THEN a ELSE b

-----------------------------------------------------------------------------
(* The callers.                                                            *)

Write(field, value) == <<field, value>>

(* stop_ui_sounds                                                          *)
StopSounds == <<Write("active", FALSE), Write("offset", 0), Write("audio", NoClip)>>

(* Mutant: the sound stays.                                                *)
StopDeviceOnly == <<Write("rate", 0)>>

(* stop_ui_sfx_device_locked: ma_device_stop waits for the callback.       *)
StopDevice == StopSounds \o <<Write("rate", 0)>>

(* ensure_ui_sfx_device_locked: a device of another rate is replaced; the  *)
(* new one may not start.                                                  *)
EnsureDevice(clip, starts) ==
  IF sfx.rate = clip.rate THEN <<>>
  ELSE StopDevice \o IF starts THEN <<Write("rate", clip.rate)>> ELSE <<>>

(* play_ui_sound: `active' last.                                           *)
PlaySound(clip, starts) ==
  EnsureDevice(clip, starts) \o
  IF sfx.rate = clip.rate \/ starts
  THEN <<Write("active", FALSE), Write("audio", clip), Write("offset", 0), Write("active", TRUE)>>
  ELSE <<>>

Calls(writes) ==
  /\ sfx_writes = <<>> /\ sfx_calls < MaxSounds
  /\ sfx_calls' = sfx_calls + 1 /\ sfx_writes' = writes
  /\ UNCHANGED <<sfx, sfx_callback>>

PlayUiSound ==
  \E sound \in DOMAIN Clips, starts \in BOOLEAN :
    /\ sfx_enabled /\ Clips[sound] # NoClip
    /\ Calls(PlaySound(Clips[sound], starts)) /\ UNCHANGED sfx_enabled

(* initialize_ui_sounds: the device of the first sound there is.           *)
InitializeSounds ==
  \E sound \in DOMAIN Clips, starts \in BOOLEAN :
    /\ sfx_enabled /\ Clips[sound] # NoClip
    /\ \A other \in 1 .. sound - 1 : Clips[other] = NoClip
    /\ Calls(EnsureDevice(Clips[sound], starts)) /\ UNCHANGED sfx_enabled

(* play_audio, shutdown_ui_sounds; stop_ui_sounds                          *)
StopUiSounds == \E writes \in {StopDevice, StopSounds} : Calls(writes) /\ UNCHANGED sfx_enabled

SetEnabled == \E on \in BOOLEAN : Calls(IF on THEN <<>> ELSE StopSounds) /\ sfx_enabled' = on

(* The next write; the device goes when the callback has returned.         *)
CallerWrites ==
  /\ sfx_writes # <<>>
  /\ Head(sfx_writes) = Write("rate", 0) => sfx_callback.at = "idle"
  /\ sfx' = [sfx EXCEPT ![Head(sfx_writes)[1]] = Head(sfx_writes)[2]]
  /\ sfx_writes' = Tail(sfx_writes)
  /\ UNCHANGED <<sfx_enabled, sfx_calls, sfx_callback>>

-----------------------------------------------------------------------------
(* ui_sfx_data_callback, one access at a time.                             *)

Callback(cb) == sfx_callback' = cb /\ UNCHANGED <<sfx_writes, sfx_enabled, sfx_calls>>

SeesActive ==
  /\ sfx_callback.at = "idle" /\ sfx.rate # 0 /\ sfx.active
  /\ Callback([sfx_callback EXCEPT !.at = "audio"]) /\ UNCHANGED sfx

LoadsAudio ==
  /\ sfx_callback.at = "audio"
  /\ Callback([sfx_callback EXCEPT !.sound = sfx.audio,
                 !.at = IF sfx.audio = NoClip THEN "end" ELSE "offset"])
  /\ UNCHANGED sfx

(* Mutant: it copies as many frames as it was asked for.                   *)
CopiesChunk ==
  /\ sfx_callback.at = "offset"
  /\ Callback(IF sfx.offset >= sfx_callback.sound.frames THEN [sfx_callback EXCEPT !.at = "end"]
              ELSE [sfx_callback EXCEPT !.at = "store", !.from = sfx.offset,
                      !.to = sfx.offset + Chunk])
  /\ UNCHANGED sfx

(* The offset is loaded, and the frames are copied from there.             *)
CopiesFrames ==
  /\ sfx_callback.at = "offset"
  /\ Callback(IF sfx.offset >= sfx_callback.sound.frames THEN [sfx_callback EXCEPT !.at = "end"]
              ELSE [sfx_callback EXCEPT !.at = "store", !.from = sfx.offset,
                      !.to = Least(sfx.offset + Chunk, sfx_callback.sound.frames)])
  /\ UNCHANGED sfx

StoresOffset ==
  /\ sfx_callback.at = "store" /\ sfx' = [sfx EXCEPT !.offset = sfx_callback.to]
  /\ Callback(IF sfx_callback.to >= sfx_callback.sound.frames
              THEN [sfx_callback EXCEPT !.at = "end"] ELSE CallbackIdle)

(* Mutant: the end of a sound is not noted.                                *)
ForgetsEnd ==
  sfx_callback.at = "end" /\ UNCHANGED sfx /\ Callback(CallbackIdle)

(* The sound has ended: this may be the next one already.                  *)
EndsSound ==
  /\ sfx_callback.at = "end" /\ sfx' = [sfx EXCEPT !.active = FALSE]
  /\ Callback(CallbackIdle)

-----------------------------------------------------------------------------
SfxInit ==
  /\ sfx = [active |-> FALSE, audio |-> NoClip, offset |-> 0, rate |-> 0]
  /\ sfx_writes = <<>> /\ sfx_enabled \in BOOLEAN /\ sfx_calls = 0
  /\ sfx_callback = CallbackIdle

SfxCallback == SeesActive \/ LoadsAudio \/ CopiesFrames \/ StoresOffset \/ EndsSound
SfxNext ==
  PlayUiSound \/ InitializeSounds \/ StopUiSounds \/ SetEnabled \/ CallerWrites \/ SfxCallback

-----------------------------------------------------------------------------
(* Properties.                                                             *)

(* ui_sfx_data_callback: whatever callers write meanwhile, it reads within *)
(* the sound it has loaded, from a device that is there; what is being     *)
(* played has the device's rate; nothing sounds that was switched off.     *)
SoundsInBounds ==
  /\ sfx_callback.at = "store" =>
       /\ sfx_callback.from < sfx_callback.to
       /\ sfx_callback.to <= sfx_callback.sound.frames
       /\ sfx.rate = sfx_callback.sound.rate
  /\ sfx_writes = <<>> /\ sfx.active =>
       sfx_enabled /\ sfx.audio # NoClip /\ sfx.audio.rate = sfx.rate

(* A sound comes to its end unless it is replaced or stopped.              *)
SoundEnds == sfx.active ~> ~sfx.active
=============================================================================
