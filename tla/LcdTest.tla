------------------------------ MODULE LcdTest -------------------------------
(***************************************************************************)
(* The display test page (lcd_test_page.cpp) over its model and the        *)
(* backlight.  Enter steps through patterns and colours, and then to the   *)
(* brightness; Tab goes there at once.  A new brightness is committed when *)
(* no key came for a while, and reached in small steps; two timers do it,  *)
(* and a key that comes in between takes back what they are at.            *)
(*                                                                         *)
(* The device has no pointer, so a tile is only shown by show_tile_, and   *)
(* the navigation actions are those of the tile.  Percents go up to        *)
(* MaxPercent instead of 100.                                              *)
(***************************************************************************)
EXTENDS Integers

CONSTANTS
  MaxPercent, InitialPercent, StartLevels,  (* the whole, the default; at first  *)
  MaxChanges                           (* bound: keys that change it        *)

VARIABLES
  lcd_at,                 (* the page: new, open, left                      *)
  color, dimming,         (* color_index_, brightness_test_active_          *)
  tile, overlay,          (* active_tile_index_; color_layer_ is shown      *)
  seen,                   (* how often visual_test_started was recorded     *)
  requested, target, believed, loaded,   (* ..._brightness_percent_         *)
  backlight, stored,     (* of the device; of the last write               *)
  commit, smooth,         (* the timers                                     *)
  changes

patterns  == <<color, dimming, tile, overlay, seen>>
levels    == <<target, believed, loaded, backlight, stored>>
lcdVars   == <<lcd_at, patterns, requested, levels, commit, smooth, changes>>

VisualSteps == 11            (* K_TOTAL_VISUAL_STEP_COUNT                   *)
StepPercent == 5             (* K_BRIGHTNESS_STEP_PERCENT                   *)
SmoothStep  == 2             (* K_BRIGHTNESS_SMOOTH_STEP                    *)

Least(a, b)    == IF a <= b THEN a ELSE b
Clamp(percent) == IF percent < 1 THEN 1 ELSE Least(percent, MaxPercent)

(* write_brightness_percent: it may fail, and nobody asks.                 *)
Write(percent) ==
  \/ backlight' = percent /\ stored' = "yes"
  \/ UNCHANGED backlight /\ stored' = "failed"

-----------------------------------------------------------------------------
(* The constructor: what cannot be read is taken for the default.          *)
OpenLcd ==
  /\ lcd_at = "new" /\ lcd_at' = "open"
  /\ \E read \in BOOLEAN :
       /\ loaded' = read
       /\ requested' = IF read THEN Clamp(backlight) ELSE InitialPercent
  /\ target' = requested' /\ believed' = requested'
  /\ UNCHANGED <<patterns, backlight, stored, commit, smooth, changes>>

(* apply_color_index_, show_tile_: the layer covers the tiles while there  *)
(* is something on it.                                                     *)
Show(index, bright) ==
  /\ color' = index /\ dimming' = bright
  /\ tile' = IF bright THEN "brightness" ELSE "color"
  /\ overlay' = (index \in 1 .. VisualSteps /\ ~bright)

(* Mutant: another key does not take back the transition.                  *)
ScheduleBeside == commit' = TRUE /\ UNCHANGED smooth

(* schedule_brightness_commit_ *)
Schedule == commit' = TRUE /\ smooth' = FALSE

(* Observers may be told of a value that stayed the same.                  *)
ToldAgain == IF dimming' THEN Schedule \/ UNCHANGED <<commit, smooth>>
                         ELSE UNCHANGED <<commit, smooth>>

(* LcdTestModel: the patterns go on to the brightness; it is changed by a  *)
(* step, and stays within its range.                                       *)
AdvanceColorIndex == Show(Least(color + 1, VisualSteps), color = VisualSteps)
StartBrightness   == Show(VisualSteps + 1, TRUE)
ByStep(direction) == requested' = Clamp(requested + direction * StepPercent)

(* Enter: advance_color_step_.                                             *)
AdvanceColor ==
  /\ lcd_at = "open" /\ tile = "color" /\ ~dimming
  /\ seen' = IF color = 0 THEN seen + 1 ELSE seen
  /\ AdvanceColorIndex
  /\ ToldAgain
  /\ UNCHANGED <<lcd_at, requested, levels, changes>>

(* Tab: switch_to_next_tile_, start_brightness_test.                       *)
NextTile ==
  /\ lcd_at = "open" /\ ~dimming
  /\ StartBrightness
  /\ ToldAgain
  /\ UNCHANGED <<lcd_at, seen, requested, levels, changes>>

(* The actions of the brightness tile.                                     *)
ChangeBrightness ==
  /\ lcd_at = "open" /\ tile = "brightness" /\ changes < MaxChanges
  /\ changes' = changes + 1 /\ UNCHANGED <<lcd_at, patterns, levels>>
  /\ \E direction \in {-1, 1} : ByStep(direction)
  /\ IF requested' = requested THEN ToldAgain ELSE Schedule

(* begin_brightness_transition_ *)
Commit ==
  /\ lcd_at = "open" /\ commit /\ commit' = FALSE
  /\ target' = requested /\ loaded' = TRUE
  /\ believed' \in IF loaded THEN {believed} ELSE {backlight, requested}
  /\ IF believed' = target'
     THEN Write(target') /\ UNCHANGED smooth
     ELSE smooth' = TRUE /\ UNCHANGED <<backlight, stored>>
  /\ UNCHANGED <<lcd_at, patterns, requested, changes>>

(* Mutant: the last step is as long as the others.                         *)
SmoothBySteps ==
  /\ lcd_at = "open" /\ smooth
  /\ believed' = Clamp(IF believed < target THEN believed + SmoothStep
                                            ELSE believed - SmoothStep)
  /\ Write(believed') /\ smooth' = (believed' # target)
  /\ UNCHANGED <<lcd_at, patterns, requested, target, loaded, commit, changes>>

(* step_brightness_transition_ *)
Smooth ==
  /\ lcd_at = "open" /\ smooth
  /\ believed' = Clamp(IF believed < target THEN Least(believed + SmoothStep, target)
                       ELSE believed - Least(believed - target, SmoothStep))
  /\ Write(believed') /\ smooth' = (believed' # target)
  /\ UNCHANGED <<lcd_at, patterns, requested, target, loaded, commit, changes>>

(* The destructor deletes the timers, whatever they are at.                *)
LeaveLcd ==
  /\ lcd_at = "open" /\ lcd_at' = "left"
  /\ commit' = FALSE /\ smooth' = FALSE
  /\ UNCHANGED <<patterns, requested, levels, changes>>

LcdInit ==
  /\ lcd_at = "new" /\ color = 0 /\ dimming = FALSE /\ tile = "color" /\ overlay = FALSE
  /\ seen = 0 /\ requested = InitialPercent /\ target = InitialPercent
  /\ believed = InitialPercent /\ loaded = FALSE
  /\ backlight \in StartLevels /\ stored = "no"
  /\ commit = FALSE /\ smooth = FALSE /\ changes = 0

LcdNext ==
  \/ OpenLcd \/ AdvanceColor \/ NextTile \/ ChangeBrightness
  \/ Commit \/ Smooth \/ LeaveLcd

-----------------------------------------------------------------------------
(* Properties.                                                             *)

(* begin_, schedule_, step_brightness_...: a transition that runs is to    *)
(* what was asked for last; when no timer runs, it has been reached, on    *)
(* the device too, unless the write failed.  The brightness is asked for   *)
(* only on its own tile, which no colour covers; colours are told once.    *)
DisplayFollows ==
  lcd_at = "open" =>
    /\ smooth => target = requested
    /\ ~commit /\ ~smooth => believed = requested /\ (stored = "yes" => backlight = requested)
    /\ requested # target => dimming /\ commit
    /\ dimming => tile = "brightness" /\ ~overlay
    /\ overlay => seen = 1

(* The timers come to their end when no more keys do.                      *)
BrightnessSettles == commit \/ smooth ~> ~commit /\ ~smooth
=============================================================================
