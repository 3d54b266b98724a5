----------------------------- MODULE KeyRouter ------------------------------
(***************************************************************************)
(* The keyboard: the evdev reader and the key router of linux_input.cpp,   *)
(* with the global key listener of app.cpp and the screens as its clients. *)
(*                                                                         *)
(* A screen has navigation buttons, a key listener, a trigger mode (the    *)
(* keyboard test page is the only one that acts on long presses) and may   *)
(* open a dialog, which captures the keys (modal).  What a client does     *)
(* when it is called is a reaction, chosen freely: dialogs and tools open  *)
(* and close inside the very key event that is being routed.               *)
(*                                                                         *)
(* A key code is <<physical key, shifted>>.  Time is left out: a key that  *)
(* is held may or may not have been held for K_LONG_PRESS_MS.              *)
(***************************************************************************)
EXTENDS Naturals, FiniteSets

CONSTANTS
  Keys,          (* the physical keys                                       *)
  ShiftKey,      (* the key that shifts the others                          *)
  Letters,       (* keys whose code depends on Shift                        *)
  NavKeys,       (* keys that stand for a navigation button                 *)
  AliasKeys,     (* direction keys among them: z, c, Left, Right            *)
  GlobalKeys,    (* T and P: theme and screenshot                           *)
  ScanKeys,      (* Fn and Sym, reported as MSC_SCAN, without a release     *)
  Pages,
  KeyboardPage,  (* the page in LONG_PRESS mode                             *)
  LcdPage,       (* the page that turns the direction aliases off           *)
  UartPage       (* the page that has T and P for itself                    *)

ASSUME KeysAssumption ==
  /\ ShiftKey \in Keys \ (Letters \cup ScanKeys)
  /\ Letters \cup NavKeys \cup GlobalKeys \cup ScanKeys \subseteq Keys
  /\ AliasKeys \subseteq NavKeys
  /\ {KeyboardPage, LcdPage, UartPage} \subseteq Pages

VARIABLES
  down,     (* the physical keys that are down                              *)
  shift,    (* EvdevKeypad::shift_pressed                                   *)
  synth,    (* the scan key whose release the reader has still to invent    *)
  rt,       (* KeyRouterState                                               *)
  page,     (* the screen on display                                        *)
  owner,    (* whose key listener and navigation buttons are registered     *)
  out,      (* the events delivered by the last step                        *)
  hold,     (* history: the newest hold, and what it was told to whom       *)
  chord     (* history: a second key went down since all keys were up       *)

vars == <<down, shift, synth, rt, page, owner, out, hold, chord>>

Nobody == "nobody"
NoKey  == <<>>
Codes  == Keys \X BOOLEAN
Code(k, s) == <<k, s /\ k \in Letters>>
ModeOf(p)  == IF p = KeyboardPage THEN "LONG_PRESS" ELSE "CLICK"

Events == {"KEY", "KEY_RELEASED", "PRESSED", "CLICKED", "RELEASED", "LONG_PRESSED"}
Event(e, c) == [event |-> e, code |-> c, page |-> page]

(* reset_key_router_state.                                                 *)
Reset(s) == [s EXCEPT !.last = NoKey, !.lastDown = FALSE, !.pressed = NoKey,
                      !.longSent = FALSE, !.timer = FALSE]


SetModal(s, b) == IF s.modal = b THEN s ELSE Reset([s EXCEPT !.modal = b])
SetMode(s, m)  == Reset([s EXCEPT !.mode = m])

(* What a client does in a callback: it opens or closes a dialog, opens or *)
(* closes a tool that reads long presses, or resets the router.            *)
Reactions == {"none", "open_dialog", "close_dialog", "open_tool", "close_tool", "reset"}
React(s, r) ==
  CASE r = "none"         -> s
    [] r = "open_dialog"  -> SetModal(s, TRUE)
    [] r = "close_dialog" -> SetModal(s, FALSE)
    [] r = "open_tool"    -> SetModal(SetMode(s, "LONG_PRESS"), TRUE)
    [] r = "close_tool"   -> SetMode(SetModal(s, FALSE), ModeOf(page))
    [] r = "reset"        -> Reset(s)

(* A tool is open: its close is still to come.                             *)
ToolOpen == rt.modal /\ rt.mode # ModeOf(page)

Possible(s, r) ==
  /\ r \in {"close_dialog", "close_tool"} => s.modal
  /\ r \in {"open_dialog", "open_tool"} => ~s.modal
  /\ ToolOpen => r # "close_dialog"
  /\ r = "close_tool" => ToolOpen

(* nav_key_to_index finds a button for the code.                           *)
HasButton(s, c) ==
  /\ c[1] \in NavKeys
  /\ s.aliases \/ c[1] \notin AliasKeys

(* The global listener takes T and P, on the keyboard page when they are   *)
(* held and elsewhere when they are pressed; the UART page has them.       *)
Global(c, long) ==
  /\ c[1] \in GlobalKeys /\ page # UartPage
  /\ long <=> page = KeyboardPage

-----------------------------------------------------------------------------
(* route_key_state, pressed.  The key is given to the listeners (r1), then *)
(* to its button (r2), and only then is it noted as the last key: what the *)
(* reactions reset in between is overwritten.  "modal" is the state in     *)
(* which it is asked whether a dialog has the keys.                        *)
Route(c, phys, r1, r2, late) ==
  LET global == Global(c, FALSE)
      new == ~rt.lastDown \/ c # rt.pressed
      s1  == IF new THEN [rt EXCEPT !.pressed = c, !.longSent = FALSE, !.consumed = FALSE]
             ELSE rt
      s2  == IF new THEN [React(s1, r1) EXCEPT !.consumed = global] ELSE s1
      s3  == [s2 EXCEPT !.timer = TRUE]
      modal   == IF late THEN s2.modal ELSE rt.modal
      button  == ~modal /\ ~s2.consumed /\ HasButton(s2, c)
      clicked == button /\ s3.mode = "CLICK" /\ (~s3.lastDown \/ s3.last # c)
      s4  == IF clicked THEN React(s3, r2) ELSE s3
  IN /\ Possible(rt, r1) /\ Possible(s3, r2)
     /\ r1 # "none" => new /\ ~global
     /\ r2 # "none" => clicked
     /\ rt' = [s4 EXCEPT !.last = c, !.lastDown = TRUE]
     /\ out' = UNION {IF new /\ ~global THEN {Event("KEY", c)} ELSE {},
                      IF new /\ button THEN {Event("PRESSED", c)} ELSE {},
                      IF clicked THEN {Event("CLICKED", c)} ELSE {}}
     /\ hold' = IF new THEN [phys |-> phys, code |-> c, page |-> page, modal |-> rt.modal,
                             global |-> global, longs |-> 0]
                ELSE hold

(* Mutant: whether a dialog has the keys is asked after the listeners ran. *)
RoutePressLate(c, phys, r1, r2) == Route(c, phys, r1, r2, TRUE)

(* modal_capture is read before the listeners run.                         *)
RoutePress(c, phys, r1, r2) == Route(c, phys, r1, r2, FALSE)

(* What is left of a hold when its key comes up.                           *)
Ended(s) == [s EXCEPT !.pressed = NoKey, !.consumed = FALSE, !.timer = FALSE]

ReleaseWith(c, mine, consumed, after) ==
  /\ rt' = [(IF mine THEN after ELSE rt) EXCEPT !.last = c, !.lastDown = FALSE]
  /\ out' = IF ~mine \/ consumed THEN {}
            ELSE {Event("KEY_RELEASED", c)} \cup
                   {e \in {Event("RELEASED", c)} : ~rt.modal /\ HasButton(rt, c)}
  /\ UNCHANGED hold

IsHeld(c) == rt.lastDown /\ rt.pressed = c

(* Mutant: a release is routed whichever key was pressed last.             *)
RouteReleaseAny(c) == ReleaseWith(c, TRUE, rt.consumed, Ended(rt))

(* Mutant: the release leaves the hold and its timer as they are.          *)
RouteReleaseHeld(c) == ReleaseWith(c, IsHeld(c), rt.consumed, rt)

(* route_key_state, released: only the key of the current hold counts, and *)
(* only when the last event was a press.                                   *)
RouteRelease(c) == ReleaseWith(c, IsHeld(c), rt.consumed, Ended(rt))

-----------------------------------------------------------------------------
(* The reader.                                                             *)

(* A key goes down: evdev_read_cb, then key_event_cb.                      *)
PressKey(k, r1, r2) ==
  /\ synth = Nobody
  /\ k \notin down
  /\ down' = down \cup {k}
  /\ shift' = (shift \/ k = ShiftKey)
  /\ synth' = IF k \in ScanKeys THEN k ELSE Nobody
  /\ chord' = (down # {} )
  /\ RoutePress(Code(k, shift'), k, r1, r2)
  /\ UNCHANGED <<page, owner>>

(* A key comes up: its code is looked up with Shift as it is now.          *)
ReleaseKey(k) ==
  /\ synth = Nobody
  /\ k \in down \ ScanKeys
  /\ down' = down \ {k}
  /\ shift' = (shift /\ k # ShiftKey)
  /\ RouteRelease(Code(k, shift'))
  /\ UNCHANGED <<synth, chord, page, owner>>

(* The release the reader invents for a scan code, before it reads on.     *)
SyntheticRelease ==
  /\ synth # Nobody
  /\ synth' = Nobody
  /\ down' = down \ {synth}
  /\ RouteRelease(Code(synth, shift))
  /\ UNCHANGED <<shift, chord, page, owner>>

LongPressIf(due, r) ==
  LET told == ~rt.modal /\ ~rt.consumed /\ ~Global(rt.pressed, TRUE)
  IN /\ synth = Nobody
     /\ rt.timer /\ rt.pressed # NoKey /\ due
     /\ Possible(rt, r)
     /\ r # "none" => told
     /\ rt' = IF told THEN React([rt EXCEPT !.longSent = TRUE], r)
              ELSE [rt EXCEPT !.longSent = TRUE]
     /\ out' = IF told THEN {Event("LONG_PRESSED", rt.pressed)} ELSE {}
     /\ hold' = IF told THEN [hold EXCEPT !.longs = @ + 1] ELSE hold
     /\ UNCHANGED <<down, shift, synth, chord, page, owner>>

(* long_press_timer_cb, K_LONG_PRESS_MS after the press.                   *)
LongPress(r) == LongPressIf(~rt.longSent, r)

-----------------------------------------------------------------------------
(* The screens.                                                            *)

(* Mutant: a screen that goes clears the listener whoever has set it.      *)
ClearAlways(o, p) == Nobody

(* clear_key_listener, unregister_nav_button: only the one who set it.     *)
ClearOwn(o, p) == IF o = p THEN Nobody ELSE o

(* The destructor of a page: the LCD page turns the aliases on again.      *)
Destroyed(s, p) == IF p = LcdPage THEN Reset([s EXCEPT !.aliases = TRUE]) ELSE s

(* ScreenManager::load_screen_: the next screen is built, the router reset *)
(* and the previous screen destroyed, in that order.                       *)
LoadPage(q) ==
  LET built == SetMode([rt EXCEPT !.aliases = @ /\ q # LcdPage], ModeOf(q))
  IN /\ synth = Nobody
     /\ q # page /\ ~ToolOpen
     /\ page' = q
     /\ owner' = ClearOwn(q, page)
     /\ rt' = SetModal(Destroyed(Reset(built), page), FALSE)
     /\ out' = {}
     /\ UNCHANGED <<down, shift, synth, hold, chord>>

(* A dialog opens or closes for another reason than a key.                 *)
Elsewhere(r) ==
  /\ synth = Nobody
  /\ r # "none" /\ Possible(rt, r)
  /\ rt' = React(rt, r)
  /\ out' = {}
  /\ UNCHANGED <<down, shift, synth, page, owner, hold, chord>>

Init ==
  /\ down = {} /\ shift = FALSE /\ synth = Nobody /\ chord = FALSE
  /\ page \in Pages \ {LcdPage, KeyboardPage, UartPage}
  /\ owner = page
  /\ rt = [last |-> NoKey, lastDown |-> FALSE, pressed |-> NoKey, longSent |-> FALSE,
           timer |-> FALSE, mode |-> "CLICK", aliases |-> TRUE, modal |-> FALSE,
           consumed |-> FALSE]
  /\ out = {}
  /\ hold = [phys |-> Nobody, code |-> NoKey, page |-> Nobody, modal |-> FALSE,
             global |-> FALSE, longs |-> 0]

Next ==
  \/ \E k \in Keys : \E r1, r2 \in Reactions : PressKey(k, r1, r2)
  \/ \E k \in Keys : ReleaseKey(k)
  \/ SyntheticRelease
  \/ \E r \in Reactions : LongPress(r)
  \/ \E q \in Pages : LoadPage(q)
  \/ \E r \in Reactions : Elsewhere(r)

Spec == Init /\ [][Next]_vars

-----------------------------------------------------------------------------
(* Properties.                                                             *)

NavEvents == {e \in out : e.event \notin {"KEY", "KEY_RELEASED"}}

(* The router's state is of the types KeyRouterState declares, and a hold  *)
(* is reported as a long press once at most (long_press_sent).             *)
KTypeOK ==
  /\ down \subseteq Keys /\ shift \in BOOLEAN /\ chord \in BOOLEAN
  /\ synth \in ScanKeys \cup {Nobody}
  /\ page \in Pages /\ owner \in Pages \cup {Nobody}
  /\ rt \in [last : Codes \cup {NoKey}, lastDown : BOOLEAN, pressed : Codes \cup {NoKey},
             longSent : BOOLEAN, timer : BOOLEAN, mode : {"CLICK", "LONG_PRESS"},
             aliases : BOOLEAN, modal : BOOLEAN, consumed : BOOLEAN]
  /\ out \subseteq [event : Events, code : Codes, page : Pages]
  /\ hold \in [phys : Keys \cup {Nobody}, code : Codes \cup {NoKey},
               page : Pages \cup {Nobody}, modal : BOOLEAN, global : BOOLEAN, longs : 0..1]

(* A key pressed while a dialog has the keys works no navigation button,   *)
(* neither at once, nor when it is held or let go after the dialog closed  *)
(* on that very key (modal_capture is read before the listeners run, and   *)
(* closing the dialog resets the router).  A key the global listener took  *)
(* (screenshot, theme) reaches no listener and no button at all.           *)
KeyStaysTaken ==
  /\ hold.modal => NavEvents = {}
  /\ hold.global => out = {}

(* A screen is told of a release or a long press only of the hold it was   *)
(* told of, while the same screen is on display: the end of a key press    *)
(* that changed the screen is not felt by the next screen.                 *)
HoldEndsWhereItBegan ==
  \A e \in out : e.event \in {"RELEASED", "KEY_RELEASED", "LONG_PRESSED"} =>
                         e.code = hold.code /\ e.page = hold.page

(* When no two keys were down together, a long press is of a key that is   *)
(* still down.  With two keys the router loses the second one's release.   *)
LongPressIsHeld ==
  \A e \in out : e.event = "LONG_PRESSED" /\ ~chord => hold.phys \in down

(* A key press reaches the screen, the dialog or the global listener that  *)
(* took it, and no other, from its press to its release.                   *)
RoutedAsTaken == KeyStaysTaken /\ HoldEndsWhereItBegan /\ LongPressIsHeld

(* The screen on display has the listeners and buttons, although the next  *)
(* screen is built before the previous one is destroyed.                   *)
PageOwnsKeys == owner = page

(* The direction keys work unless the LCD page is on display, and the      *)
(* trigger mode is the page's unless a tool is open.                       *)
RouterFitsPage ==
  /\ rt.aliases <=> page # LcdPage
  /\ rt.mode = ModeOf(page) \/ rt.modal

(* The router's state is of its types and fits the page on display.        *)
KInv == KTypeOK /\ PageOwnsKeys /\ RouterFitsPage
=============================================================================
