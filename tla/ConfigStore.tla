---------------------------- MODULE ConfigStore ----------------------------
(***************************************************************************)
(* The configuration file (app_config.cpp) and the settings that are kept  *)
(* in it (app_viewmodel.cpp).  A file that is missing is written, one with *)
(* fields that are missing or invalid is repaired, one that is not         *)
(* understood is left alone until a setting is changed.  A save may fail   *)
(* before the new file has its name and after, and the power may be cut at *)
(* any point; a cut within a save leaves what some end of it leaves.       *)
(***************************************************************************)
EXTENDS Integers

CONSTANTS
  FoundFiles,     (* kind: none, malformed, other schema, or fields     *)
  MaxSaves        (* bound                                                  *)

VARIABLES
  conf_at,        (* the program: down, loaded, up                          *)
  conf_file, durable,   (* as it is read; what a power cut may leave of it  *)
  config,         (* config_                                                *)
  conf_saved,     (* the file was read or written as config_ is             *)
  audible,        (* the switch of the sounds in audio_service.cpp          *)
  found, touched, (* the file at first; a setting was changed since         *)
  conf_saves

confVars == <<conf_at, conf_file, durable, config, conf_saved, audible, found, touched, conf_saves>>

(* Sizes are in units of the least that is allowed; 0 is any that is not.  *)
Defaults ==
  [kind |-> "fields", language |-> "en", sounds |-> "on", baud |-> "9600",
   segment |-> 2, directory |-> 4]
Bad == [Defaults EXCEPT !.kind = "bad", !.language = "bad", !.sounds = "bad", !.baud = "bad",
                        !.segment = 0, !.directory = 0]
Malformed == [Defaults EXCEPT !.kind = "malformed"]

(* load: field by field, and the two sizes together.                       *)
Repaired(fields) ==
  LET Valid(name) == IF fields[name] = Bad[name] THEN Defaults[name] ELSE fields[name]
      valid == [name \in DOMAIN Defaults |-> Valid(name)]
  IN IF valid.directory < valid.segment
     THEN [valid EXCEPT !.segment = Defaults.segment, !.directory = Defaults.directory]
     ELSE valid

(* Mutant: the temporary file is renamed before it is on the disk.         *)
WritesUnsynced(new) ==
  {[ok |-> FALSE, file |-> conf_file, durable |-> durable],
   [ok |-> TRUE, file |-> new, durable |-> {new, Malformed}]}

(* write_atomic: it fails with the old file, or, when the directory cannot *)
(* be synchronized, with the new one, which may not last; or all is well.  *)
Writes(new) ==
  {[ok |-> FALSE, file |-> conf_file, durable |-> durable],
   [ok |-> FALSE, file |-> new, durable |-> durable \cup {new}],
   [ok |-> TRUE, file |-> new, durable |-> {new}]}

Save(new, save) ==
  /\ conf_saves < MaxSaves /\ conf_saves' = conf_saves + 1
  /\ save \in Writes(new)
  /\ conf_file' = save.file /\ durable' = save.durable /\ conf_saved' = save.ok
Unsaved == UNCHANGED <<conf_file, durable, conf_saves>>

-----------------------------------------------------------------------------
(* AppConfigStore::load *)
Load ==
  /\ conf_at = "down" /\ conf_at' = "loaded"
  /\ \/ conf_file.kind # "fields" /\ config' = Defaults
        /\ IF conf_file.kind = "none" THEN \E save \in Writes(Defaults) : Save(Defaults, save)
                                 ELSE Unsaved /\ conf_saved' = FALSE
     \/ conf_file.kind = "fields" /\ config' = Repaired(conf_file)
        /\ IF config' = conf_file THEN Unsaved /\ conf_saved' = TRUE
                                  ELSE \E save \in Writes(config') : Save(config', save)
     \/ config' = Defaults /\ Unsaved /\ conf_saved' = FALSE     (* it cannot be inspected *)
  /\ UNCHANGED <<audible, found, touched>>

(* AppViewModel::AppViewModel: a language without a translation is given   *)
(* up; then Application::run sets the sounds.                              *)
BuildViewModel ==
  /\ conf_at = "loaded" /\ conf_at' = "up"
  /\ \/ UNCHANGED <<config, conf_saved>> /\ Unsaved
     \/ /\ config.language # "en" /\ config' = [config EXCEPT !.language = "en"]
        /\ \E save \in Writes(config') : Save(config', save)
  /\ audible' = config.sounds
  /\ UNCHANGED <<found, touched>>

(* Mutant: the preference stays when it could not be saved.                *)
SetSoundsAnyway ==
  /\ conf_at = "up" /\ touched' = TRUE
  /\ \E sounds \in {"on", "off"} \ {config.sounds} :
       LET new == [config EXCEPT !.sounds = sounds]
       IN \E save \in Writes(new) :
            /\ Save(new, save)
            /\ config' = new /\ audible' = IF save.ok THEN sounds ELSE audible
  /\ UNCHANGED <<conf_at, found>>

(* set_ui_sounds_enabled: taken back when it could not be saved.           *)
SetSounds ==
  /\ conf_at = "up" /\ touched' = TRUE
  /\ \E sounds \in {"on", "off"} \ {config.sounds} :
       LET new == [config EXCEPT !.sounds = sounds]
       IN \E save \in Writes(new) :
            /\ Save(new, save)
            /\ config' = IF save.ok THEN new ELSE config
            /\ audible' = IF save.ok THEN sounds ELSE audible
  /\ UNCHANGED <<conf_at, found>>

(* set_language, set_uart_baud_rate and the like: kept whether or not.     *)
SetOther ==
  /\ conf_at = "up" /\ touched' = TRUE
  /\ \E new \in {[config EXCEPT !.language = "zh_CN"], [config EXCEPT !.baud = "115200"]} :
       /\ config' = new
       /\ \E save \in Writes(new) : Save(new, save)
  /\ UNCHANGED <<conf_at, audible, found>>

(* The program ends, or the power is cut.                                  *)
Ends ==
  /\ conf_at # "down" /\ conf_at' = "down"
  /\ \/ Unsaved
     \/ conf_file' \in durable /\ durable' = {conf_file'} /\ UNCHANGED conf_saves
  /\ UNCHANGED <<config, conf_saved, audible, found, touched>>

ConfInit ==
  /\ conf_at = "down" /\ conf_file \in FoundFiles /\ durable = {conf_file}
  /\ config = Defaults /\ conf_saved = FALSE /\ audible = "on"
  /\ found = conf_file /\ touched = FALSE /\ conf_saves = 0
ConfNext == Load \/ BuildViewModel \/ SetSounds \/ SetOther \/ Ends

-----------------------------------------------------------------------------
(* load, write_atomic, set_ui_sounds_enabled: what the program works with  *)
(* is valid, and the sounds are as their preference says; what was saved   *)
(* is what is read again, without a repair; no power cut makes a file      *)
(* unreadable; one that is not understood stays until a setting changes.   *)
ConfigSound ==
  /\ conf_at # "down" => config = Repaired(config)
  /\ conf_at = "up" => audible = config.sounds
  /\ conf_at = "up" /\ conf_saved => conf_file = config /\ config \in durable
  /\ Malformed \in durable => found = Malformed
  /\ found.kind \in {"malformed", "other schema"} /\ ~touched => durable = {found} /\ conf_file = found
=============================================================================
