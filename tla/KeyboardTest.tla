---------------------------- MODULE KeyboardTest ----------------------------
(***************************************************************************)
(* The keyboard test page (keyboard_test_page.cpp): three layers of keys,  *)
(* each on a tile of its own.  A pressed key is marked; when the layer on  *)
(* display is complete, a 300 ms timer advances to the next layer; a held  *)
(* Tab switches to the next layer in a cycle; a held 4 leaves, a held 8 on *)
(* the last layer opens the verdict dialog.                                *)
(*                                                                         *)
(* The key router (KeyRouter) calls the page; here one key is held at a    *)
(* time, and a dialog captures every key.  The page reads no pointer, so a *)
(* tile changes only by transition_to_.                                    *)
(***************************************************************************)
EXTENDS Naturals, FiniteSets

CONSTANTS
  KeysOf,       (* layer |-> its testable keys (K_KEYS without the disabled)*)
  Tab, Four, Eight

Layers == 1..3      (* STANDARD_KEY, FN_KEY, SYM_KEY                        *)
Keys   == UNION {KeysOf[l] : l \in Layers}

LayersAssumption ==
  /\ DOMAIN KeysOf = Layers
  /\ \A l \in Layers : IsFiniteSet(KeysOf[l])
  /\ \A l, m \in Layers : l # m => KeysOf[l] \cap KeysOf[m] = {}
  /\ {Tab, Four, Eight} \subseteq Keys

VARIABLES
  active,     (* active_layer_                                              *)
  marked,     (* the keys whose state is PRESSED                            *)
  counts,     (* layer_pressed_counts_                                      *)
  timer,      (* auto_advance_source_layer_ of the pending timer, or 0      *)
  nav,        (* the layer whose navigation actions are registered          *)
  evidence,   (* how often key_input_seen was recorded                      *)
  popup,      (* the hold popup: none, or the key it asks to hold           *)
  dialog,     (* the verdict dialog is open                                 *)
  held,       (* the key that is down, as far as the page was told of it    *)
  open        (* the page exists                                            *)

vars == <<active, marked, counts, timer, nav, evidence, popup, dialog, held, open>>

None == "none"
Complete(l, n) == n[l] >= Cardinality(KeysOf[l])
NextLayer(l)   == IF l < 3 THEN l + 1 ELSE l
NextCyclic(l)  == IF l < 3 THEN l + 1 ELSE 1

(* Mutant: a pending auto advance is not cancelled.                        *)
TransitionKeepsTimer(l) == active' = l /\ nav' = l /\ UNCHANGED timer

(* transition_to_.                                                         *)
TransitionTo(l) == active' = l /\ nav' = l /\ timer' = 0

(* Mutant: the layers are counted per press, not per key.                  *)
Recount(k, l) == [counts EXCEPT ![l] = @ + 1]

Counted(k, l) == IF k \in marked THEN counts ELSE [counts EXCEPT ![l] = @ + 1]

FirstKey(k, l) == k \notin marked /\ \A m \in Layers : counts[m] = 0

(* schedule_auto_advance_, called when the key's layer is on display and   *)
(* complete.                                                               *)
Schedule(l) ==
  timer' = IF timer # 0 \/ l # active \/ NextLayer(l) = l \/ ~Complete(l, counts')
           THEN timer ELSE l

(* mark_key_pressed_.                                                      *)
MarkKeyPressed(k) ==
  \E l \in Layers :
    /\ k \in KeysOf[l]
    /\ evidence' = IF FirstKey(k, l) THEN evidence + 1 ELSE evidence
    /\ marked' = marked \cup {k}
    /\ counts' = Counted(k, l)
    /\ Schedule(l)

(* The actions a key may be held for: Tab always, 4 always, 8 on the last  *)
(* layer.                                                                  *)
HoldKeys == {Tab, Four} \cup (IF nav = 3 THEN {Eight} ELSE {})

(* A key is pressed: key_listener, then the press action of its button.    *)
Press(k) ==
  /\ open /\ ~dialog /\ held = None
  /\ held' = k
  /\ popup' = IF k \in HoldKeys THEN k ELSE popup
  /\ MarkKeyPressed(k)
  /\ UNCHANGED <<active, nav, dialog, open>>

(* It is let go: key_release_listener for Tab, the release action for a    *)
(* button.  The release of the key that opened the dialog is not routed.   *)
Release ==
  /\ open /\ held # None
  /\ held' = None
  /\ popup' = IF ~dialog /\ held \in HoldKeys THEN None ELSE popup
  /\ UNCHANGED <<active, marked, counts, timer, nav, evidence, dialog, open>>

(* Tab was held: long_key_listener, switch_to_next_layout_.                *)
LongTab ==
  /\ open /\ ~dialog /\ held = Tab /\ popup = Tab
  /\ popup' = None
  /\ TransitionTo(NextCyclic(active))
  /\ UNCHANGED <<marked, counts, evidence, dialog, held, open>>

(* 8 was held on the last layer: show_test_result_dialog_.                 *)
LongEight ==
  /\ open /\ ~dialog /\ held = Eight /\ nav = 3
  /\ popup' = None
  /\ dialog' = TRUE
  /\ UNCHANGED <<active, marked, counts, timer, nav, evidence, held, open>>

(* 4 was held: the page is left, the timer deleted.                        *)
LongFour ==
  /\ open /\ ~dialog /\ held = Four
  /\ open' = FALSE /\ popup' = None /\ timer' = 0
  /\ UNCHANGED <<active, marked, counts, nav, evidence, dialog, held>>

CloseDialog ==
  /\ open /\ dialog
  /\ dialog' = FALSE
  /\ held' = None
  /\ UNCHANGED <<active, marked, counts, timer, nav, evidence, popup, open>>

(* auto_advance_timer_cb: it advances only when the source layer is still  *)
(* on display.                                                             *)
AutoAdvance ==
  /\ open /\ timer # 0
  /\ IF active = timer THEN TransitionTo(NextLayer(timer))
     ELSE timer' = 0 /\ UNCHANGED <<active, nav>>
  /\ UNCHANGED <<marked, counts, evidence, popup, dialog, held, open>>

Init ==
  /\ active = 1 /\ nav = 1 /\ timer = 0
  /\ marked = {} /\ counts = [l \in Layers |-> 0] /\ evidence = 0
  /\ popup = None /\ dialog = FALSE /\ held = None /\ open = TRUE

Next ==
  \/ \E k \in Keys : Press(k)
  \/ Release \/ LongTab \/ LongEight \/ LongFour
  \/ CloseDialog \/ AutoAdvance

(* Timers fire; the user owes the page nothing.                            *)
Spec == Init /\ [][Next]_vars /\ WF_vars(AutoAdvance)

-----------------------------------------------------------------------------
(* Properties.                                                             *)

(* The page's state is of its types, and each layer's progress is the      *)
(* number of its marked keys, however often and on whatever tile they are  *)
(* pressed.                                                                *)
CountsAreOfKeys ==
  /\ active \in Layers /\ nav \in Layers /\ timer \in {0} \cup Layers
  /\ held \in Keys \cup {None} /\ popup \in {None, Tab, Four, Eight}
  /\ counts = [l \in Layers |-> Cardinality(marked \cap KeysOf[l])]

(* The session is told of the first key of the test, once.                 *)
EvidenceOnce == evidence = (IF marked = {} THEN 0 ELSE 1)

(* A pending advance is from the layer on display, which is complete: the  *)
(* timer never takes the user away from a layer that still lacks keys.     *)
AdvanceFromComplete ==
  timer # 0 => timer = active /\ KeysOf[timer] \subseteq marked

(* The dialog stands over the last layer, whose title and keys it is       *)
(* about: neither the timer nor Tab changes the layer under it.            *)
DialogOnLastLayer == dialog => active = 3 /\ nav = 3

(* A popup that asks to hold a key goes when the key is let go, and with   *)
(* what the hold does.                                                     *)
PopupOfHeldKey == popup # None /\ open => popup = held

(* What the page shows and tells agrees with the keys that were pressed.   *)
Inv == CountsAreOfKeys /\ EvidenceOnce /\ DialogOnLastLayer /\ PopupOfHeldKey
=============================================================================
