-------------------------- MODULE KeyRouterProofs ---------------------------
(***************************************************************************)
(* Proofs about KeyRouter, for any keyboard, any pages and any reaction of *)
(* a screen inside the key event that is being routed: the router fits the *)
(* page on display (KInv), and whoever took the press of a key, and nobody *)
(* else, is told of the rest of the hold (RoutedAsTaken).                  *)
(***************************************************************************)
EXTENDS KeyRouter, TLAPS

(* What the reader knows of the keyboard.                                  *)
KeysKnown ==
  /\ shift <=> ShiftKey \in down
  /\ synth # Nobody => synth \in down
  /\ ~chord => \A k, l \in down : k = l

(* As long as the router has a pressed key, it is that of the newest hold: *)
(* a client that opens or closes a dialog or a tool, or changes the page,  *)
(* in the middle of it resets the router, which forgets the pressed key.   *)
HoldKnown ==
  rt.pressed # NoKey =>
    /\ hold.code = rt.pressed /\ hold.page = page
    /\ hold.code[1] = hold.phys
    /\ hold.modal => rt.modal
    /\ hold.global => rt.consumed
    /\ ~rt.longSent => hold.longs = 0
    /\ ~chord => /\ hold.phys \in down /\ rt.lastDown
                 /\ hold.code = <<hold.phys, FALSE>>

(* The inductive invariant.                                                *)
RInv == KInv /\ RoutedAsTaken /\ KeysKnown /\ HoldKnown

-----------------------------------------------------------------------------
(* The operators of the router's state.                                    *)

Modes == {"CLICK", "LONG_PRESS"}

RouterStates ==
  [last : Codes \cup {NoKey}, lastDown : BOOLEAN, pressed : Codes \cup {NoKey},
   longSent : BOOLEAN, timer : BOOLEAN, mode : Modes,
   aliases : BOOLEAN, modal : BOOLEAN, consumed : BOOLEAN]

Holds ==
  [phys : Keys \cup {Nobody}, code : Codes \cup {NoKey},
   page : Pages \cup {Nobody}, modal : BOOLEAN, global : BOOLEAN, longs : 0..1]

EventSet == [event : Events, code : Codes, page : Pages]

(* The code of a key is a code, and never the empty one.                   *)
LEMMA CodeFacts ==
  ASSUME NEW k \in Keys, NEW s \in BOOLEAN
  PROVE  /\ Code(k, s) \in Codes /\ Code(k, s)[1] = k
         /\ k \notin Letters => Code(k, s) = <<k, FALSE>>
         /\ ~s => Code(k, s) = <<k, FALSE>>
BY DEF Code, Codes

(* Nothing pressed is told from every code.                                *)
LEMMA NoKeyIsNoCode == NoKey \notin Codes
BY DEF NoKey, Codes

(* reset_key_router_state keeps the mode, the aliases and the modal flag.  *)
LEMMA ResetFacts ==
  ASSUME NEW s \in RouterStates
  PROVE  /\ Reset(s) \in RouterStates
         /\ Reset(s).pressed = NoKey
         /\ Reset(s).mode = s.mode /\ Reset(s).aliases = s.aliases
         /\ Reset(s).modal = s.modal /\ Reset(s).consumed = s.consumed
BY DEF Reset, RouterStates

(* set_modal: what changes is released first.                              *)
LEMMA SetModalFacts ==
  ASSUME NEW s \in RouterStates, NEW b \in BOOLEAN
  PROVE  /\ SetModal(s, b) \in RouterStates
         /\ SetModal(s, b) = s \/ SetModal(s, b).pressed = NoKey
         /\ SetModal(s, b).modal = b
         /\ SetModal(s, b).mode = s.mode /\ SetModal(s, b).aliases = s.aliases
         /\ SetModal(s, b).consumed = s.consumed
<1> DEFINE t == [s EXCEPT !.modal = b]
<1>1. /\ t \in RouterStates /\ t.modal = b /\ t.mode = s.mode
      /\ t.aliases = s.aliases /\ t.consumed = s.consumed
  BY DEF RouterStates
<1> HIDE DEF t
<1>2. SetModal(s, b) = IF s.modal = b THEN s ELSE Reset(t)
  BY DEF SetModal, t
<1> QED
  BY <1>1, <1>2, ResetFacts

(* set_mode: the key that is held is released, whatever the mode.          *)
LEMMA SetModeFacts ==
  ASSUME NEW s \in RouterStates, NEW m \in Modes
  PROVE  /\ SetMode(s, m) \in RouterStates
         /\ SetMode(s, m).pressed = NoKey
         /\ SetMode(s, m).mode = m /\ SetMode(s, m).modal = s.modal
         /\ SetMode(s, m).aliases = s.aliases /\ SetMode(s, m).consumed = s.consumed
<1> DEFINE t == [s EXCEPT !.mode = m]
<1>1. /\ t \in RouterStates /\ t.modal = s.modal /\ t.mode = m
      /\ t.aliases = s.aliases /\ t.consumed = s.consumed
  BY DEF RouterStates
<1> HIDE DEF t
<1>2. SetMode(s, m) = Reset(t)
  BY DEF SetMode, t
<1> QED
  BY <1>1, <1>2, ResetFacts

(* A reaction that changes anything leaves no pressed key; only a dialog   *)
(* or tool changes the modal flag, and only a tool the mode.               *)
LEMMA ReactFacts ==
  ASSUME NEW s \in RouterStates, NEW r \in Reactions
  PROVE  /\ React(s, r) \in RouterStates
         /\ React(s, r) = s \/ React(s, r).pressed = NoKey
         /\ React(s, r).aliases = s.aliases /\ React(s, r).consumed = s.consumed
         /\ r \in {"none", "reset"} => React(s, r).modal = s.modal
         /\ r \in {"open_dialog", "open_tool"} => React(s, r).modal
         /\ r \in {"close_dialog", "close_tool"} => ~React(s, r).modal
         /\ r \notin {"open_tool", "close_tool"} => React(s, r).mode = s.mode
         /\ r = "open_tool" => React(s, r).mode = "LONG_PRESS"
         /\ r = "close_tool" => React(s, r).mode = ModeOf(page)
<1>1. TRUE \in BOOLEAN /\ FALSE \in BOOLEAN /\ "LONG_PRESS" \in Modes /\ ModeOf(page) \in Modes
  BY DEF Modes, ModeOf
<1>2. CASE r = "none"
  BY <1>2 DEF React
<1>3. CASE r = "reset"
  BY <1>3, ResetFacts DEF React
<1>4. CASE r = "open_dialog"
  BY <1>1, <1>4, SetModalFacts DEF React
<1>5. CASE r = "close_dialog"
  BY <1>1, <1>5, SetModalFacts DEF React
<1>6. CASE r = "open_tool"
  <2> DEFINE t == SetMode(s, "LONG_PRESS")
  <2>1. t \in RouterStates /\ t.mode = "LONG_PRESS" /\ t.pressed = NoKey
        /\ t.aliases = s.aliases /\ t.consumed = s.consumed
    BY <1>1, SetModeFacts
  <2>2. React(s, r) = SetModal(t, TRUE)
    BY <1>6 DEF React
  <2> HIDE DEF t
  <2> QED
    BY <1>1, <1>6, <2>1, <2>2, SetModalFacts
<1>7. CASE r = "close_tool"
  <2> DEFINE t == SetModal(s, FALSE)
  <2>1. t \in RouterStates /\ ~t.modal
        /\ t.aliases = s.aliases /\ t.consumed = s.consumed
    BY <1>1, SetModalFacts
  <2>2. React(s, r) = SetMode(t, ModeOf(page))
    BY <1>7 DEF React
  <2> HIDE DEF t
  <2> QED
    BY <1>1, <1>7, <2>1, <2>2, SetModeFacts
<1> QED
  BY <1>2, <1>3, <1>4, <1>5, <1>6, <1>7 DEF Reactions


-----------------------------------------------------------------------------
(* A key goes down.                                                        *)

(* The state of the router fits page p.                                    *)
Fits(s) ==
  /\ s.aliases <=> page # LcdPage
  /\ s.mode = ModeOf(page) \/ s.modal

(* A reaction the clients can have leaves a router that fits the page.     *)
LEMMA ReactFits ==
  ASSUME NEW s \in RouterStates, NEW r \in Reactions, Fits(s), Possible(s, r),
         r = "close_dialog" => s.mode = ModeOf(page)
  PROVE  Fits(React(s, r))
BY ReactFacts DEF Fits, Possible, Reactions

(* What route_key_state makes of a press: the router still fits the page,  *)
(* has the pressed key of the hold it notes or none, and tells of the      *)
(* press nobody but whoever it belongs to.                                 *)
LEMMA RoutePressFacts ==
  ASSUME rt \in RouterStates, page \in Pages, Fits(rt), NEW k \in Keys, NEW c \in Codes,
         c[1] = k, NEW r1 \in Reactions, NEW r2 \in Reactions, RoutePress(c, k, r1, r2)
  PROVE  /\ rt' \in RouterStates /\ Fits(rt')
         /\ rt'.lastDown
         /\ out' \subseteq {Event(e, c) : e \in {"KEY", "PRESSED", "CLICKED"}}
         /\ \/ /\ hold' = [phys |-> k, code |-> c, page |-> page, modal |-> rt.modal,
                           global |-> Global(c, FALSE), longs |-> 0]
               /\ rt'.consumed = Global(c, FALSE)
               /\ rt'.pressed = NoKey \/ (rt'.pressed = c /\ rt'.modal = rt.modal)
            \/ /\ hold' = hold /\ rt.lastDown /\ rt.pressed = c
               /\ rt'.consumed = rt.consumed
               /\ \/ rt'.pressed = NoKey
                  \/ /\ rt'.pressed = c /\ rt'.modal = rt.modal
                     /\ rt'.longSent = rt.longSent
               /\ Event("KEY", c) \notin out'
         /\ rt.modal => out' \subseteq {Event("KEY", c)}
         /\ rt'.consumed => Event("PRESSED", c) \notin out' /\ Event("CLICKED", c) \notin out'
         /\ Global(c, FALSE) => Event("KEY", c) \notin out'
<1> DEFINE global == Global(c, FALSE)
           new == ~rt.lastDown \/ c # rt.pressed
           s1  == IF new THEN [rt EXCEPT !.pressed = c, !.longSent = FALSE,
                                         !.consumed = FALSE]
                  ELSE rt
           t1  == React(s1, r1)
           s2  == IF new THEN [t1 EXCEPT !.consumed = global] ELSE s1
           s3  == [s2 EXCEPT !.timer = TRUE]
           button  == ~rt.modal /\ ~s2.consumed /\ HasButton(s2, c)
           clicked == button /\ s3.mode = "CLICK" /\ (~s3.lastDown \/ s3.last # c)
           s4  == IF clicked THEN React(s3, r2) ELSE s3
<1>1. /\ Possible(rt, r1) /\ Possible(s3, r2)
      /\ r1 # "none" => new
      /\ rt' = [s4 EXCEPT !.last = c, !.lastDown = TRUE]
      /\ out' = UNION {IF new /\ ~global THEN {Event("KEY", c)} ELSE {},
                       IF new /\ button THEN {Event("PRESSED", c)} ELSE {},
                       IF clicked THEN {Event("CLICKED", c)} ELSE {}}
      /\ hold' = IF new THEN [phys |-> k, code |-> c, page |-> page, modal |-> rt.modal,
                              global |-> global, longs |-> 0]
                 ELSE hold
  BY DEF RoutePress, Route
<1>2. global \in BOOLEAN /\ new \in BOOLEAN
  BY DEF Global
<1>3. /\ s1 \in RouterStates /\ s1.modal = rt.modal /\ s1.mode = rt.mode
      /\ s1.aliases = rt.aliases /\ s1.pressed = c
      /\ ~new => s1 = rt /\ rt.lastDown /\ rt.pressed = c
  BY DEF RouterStates
<1> HIDE DEF s1
<1>4. Fits(s1)
  BY <1>3 DEF Fits
<1>5. Fits(t1) /\ t1 \in RouterStates
  <2>1. Possible(s1, r1)
    BY <1>1, <1>3 DEF Possible
  <2>2. r1 = "close_dialog" => s1.mode = ModeOf(page)
    BY <1>1, <1>3 DEF Possible, ToolOpen
  <2> QED
    BY <1>3, <1>4, <2>1, <2>2, ReactFits, ReactFacts
<1>6. t1 = s1 \/ t1.pressed = NoKey
  BY <1>3, ReactFacts
<1>7. ~rt.modal /\ t1.mode = "CLICK" => t1.mode = ModeOf(page)
  BY <1>1, <1>3, <1>4, ReactFacts DEF Fits, Possible, Reactions
<1> HIDE DEF t1
<1>8. /\ s2 \in RouterStates /\ Fits(s2)
      /\ s2.pressed = NoKey \/ (s2.pressed = c /\ s2.modal = rt.modal)
      /\ new => s2.consumed = global
      /\ ~new => s2 = rt
      /\ new => s2.mode = t1.mode
  <2>1. CASE new
    <3>1. /\ s2 \in RouterStates /\ s2.consumed = global
          /\ s2.pressed = t1.pressed /\ s2.modal = t1.modal
          /\ s2.mode = t1.mode /\ s2.aliases = t1.aliases
      BY <1>2, <1>5, <2>1 DEF RouterStates
    <3> HIDE DEF s2
    <3>2. Fits(s2)
      BY <1>5, <3>1 DEF Fits
    <3>3. s2.pressed = NoKey \/ (s2.pressed = c /\ s2.modal = rt.modal)
      BY <1>3, <1>6, <3>1
    <3> QED
      BY <2>1, <3>1, <3>2, <3>3
  <2>2. CASE ~new
    BY <1>3, <1>4, <2>2
  <2> QED
    BY <2>1, <2>2
<1>9. ~rt.modal /\ s2.mode = "CLICK" => s2.mode = ModeOf(page)
  BY <1>7, <1>8 DEF Fits
<1> HIDE DEF s2
<1>10. /\ s3 \in RouterStates /\ Fits(s3) /\ s3.pressed = s2.pressed
       /\ s3.modal = s2.modal /\ s3.consumed = s2.consumed /\ s3.mode = s2.mode
       /\ s3.longSent = s2.longSent
  BY <1>8 DEF RouterStates, Fits
<1> HIDE DEF s3
<1>11. clicked => ~rt.modal /\ ~s2.consumed /\ s3.mode = ModeOf(page)
  BY <1>9, <1>10
<1>12. /\ s4 \in RouterStates /\ Fits(s4) /\ s4.consumed = s2.consumed
       /\ \/ s4.pressed = NoKey
          \/ s4.pressed = s2.pressed /\ s4.modal = s2.modal /\ s4.longSent = s2.longSent
  <2>1. CASE clicked
    BY <1>1, <1>10, <1>11, <2>1, ReactFits, ReactFacts
  <2>2. CASE ~clicked
    BY <1>10, <2>2
  <2> QED
    BY <2>1, <2>2
<1>13. button => ~rt.modal /\ ~s2.consumed
  OBVIOUS
<1> HIDE DEF s4, button, clicked, new, global
<1>14. /\ rt' \in RouterStates /\ Fits(rt') /\ rt'.lastDown
       /\ rt'.pressed = s4.pressed /\ rt'.modal = s4.modal /\ rt'.longSent = s4.longSent
       /\ rt'.consumed = s2.consumed
  BY <1>1, <1>12 DEF RouterStates, Fits
<1>15. /\ out' \subseteq {Event(e, c) : e \in {"KEY", "PRESSED", "CLICKED"}}
       /\ Event("KEY", c) \in out' => new /\ ~global
       /\ Event("PRESSED", c) \in out' \/ Event("CLICKED", c) \in out' => ~rt.modal /\ ~s2.consumed
  <2>1. /\ Event("KEY", c) # Event("PRESSED", c) /\ Event("KEY", c) # Event("CLICKED", c)
        /\ Event("PRESSED", c) # Event("CLICKED", c)
    BY DEF Event
  <2> QED
    BY <1>1, <1>11, <1>13, <2>1
<1>16. CASE new
  <2>1. /\ hold' = [phys |-> k, code |-> c, page |-> page, modal |-> rt.modal,
                    global |-> global, longs |-> 0]
        /\ rt'.consumed = global
        /\ rt'.pressed = NoKey \/ (rt'.pressed = c /\ rt'.modal = rt.modal)
    <3>1. rt'.consumed = global
      BY <1>8, <1>14, <1>16
    <3>2. rt'.pressed = NoKey \/ (rt'.pressed = c /\ rt'.modal = rt.modal)
      BY <1>8, <1>12, <1>14
    <3> QED
      BY <1>1, <1>16, <3>1, <3>2
  <2> QED
    BY <1>14, <1>15, <2>1 DEF global
<1>17. CASE ~new
  <2>1. /\ hold' = hold /\ rt.lastDown /\ rt.pressed = c
        /\ rt'.consumed = rt.consumed
        /\ \/ rt'.pressed = NoKey
           \/ /\ rt'.pressed = c /\ rt'.modal = rt.modal
              /\ rt'.longSent = rt.longSent
    BY <1>1, <1>3, <1>8, <1>12, <1>14, <1>17
  <2>2. Event("KEY", c) \notin out'
    BY <1>15, <1>17
  <2> QED
    BY <1>14, <1>15, <2>1, <2>2 DEF global
<1> QED
  BY <1>16, <1>17

-----------------------------------------------------------------------------
(* The steps.                                                              *)

(* KTypeOK and KInv in the words of this module.                           *)
LEMMA InvFacts ==
  /\ KTypeOK <=> /\ down \subseteq Keys /\ shift \in BOOLEAN /\ chord \in BOOLEAN
                 /\ synth \in ScanKeys \cup {Nobody}
                 /\ page \in Pages /\ owner \in Pages \cup {Nobody}
                 /\ rt \in RouterStates /\ out \subseteq EventSet /\ hold \in Holds
  /\ RouterFitsPage <=> Fits(rt)
BY DEF KTypeOK, RouterStates, EventSet, Holds, RouterFitsPage, Fits, Modes

(* Events of the kinds that end a hold are not among those of a press.     *)
Ends == {"RELEASED", "KEY_RELEASED", "LONG_PRESSED"}

(* A press keeps it, whatever the page does with its events.               *)
LEMMA PressKeyPreserves ==
  ASSUME RInv, NEW k \in Keys, NEW r1 \in Reactions, NEW r2 \in Reactions,
         PressKey(k, r1, r2)
  PROVE  RInv'
<1> DEFINE c == Code(k, shift')
<1>1. /\ down \subseteq Keys /\ shift \in BOOLEAN /\ chord \in BOOLEAN
      /\ page \in Pages /\ owner \in Pages \cup {Nobody}
      /\ rt \in RouterStates /\ hold \in Holds /\ Fits(rt) /\ owner = page
  BY InvFacts DEF RInv, KInv, PageOwnsKeys
<1>2. /\ synth = Nobody /\ k \notin down /\ down' = down \cup {k}
      /\ shift' = (shift \/ k = ShiftKey)
      /\ synth' = IF k \in ScanKeys THEN k ELSE Nobody
      /\ chord' = (down # {})
      /\ page' = page /\ owner' = owner
      /\ RoutePress(c, k, r1, r2)
  BY DEF PressKey
<1>3. shift' \in BOOLEAN /\ chord' \in BOOLEAN /\ down' \subseteq Keys
      /\ synth' \in ScanKeys \cup {Nobody}
  BY <1>1, <1>2
<1>4. c \in Codes /\ c[1] = k
  BY <1>3, CodeFacts
<1>5. KeysKnown'
  <2>1. shift' <=> ShiftKey \in down'
    BY <1>1, <1>2 DEF RInv, KeysKnown
  <2>2. synth' # Nobody => synth' \in down'
    BY <1>2
  <2>3. ~chord' => \A x, y \in down' : x = y
    BY <1>2
  <2> QED
    BY <2>1, <2>2, <2>3 DEF KeysKnown
<1>6. ~chord' => c = <<k, FALSE>> /\ k \in down'
  <2> SUFFICES ASSUME ~chord' PROVE c = <<k, FALSE>> /\ k \in down'
    OBVIOUS
  <2>1. down = {} /\ ~shift
    BY <1>1, <1>2 DEF RInv, KeysKnown
  <2>2. CASE k = ShiftKey
    BY <1>2, <1>3, <2>2, CodeFacts, KeysAssumption
  <2>3. CASE k # ShiftKey
    BY <1>2, <1>3, <2>1, <2>3, CodeFacts
  <2> QED
    BY <2>2, <2>3
<1> HIDE DEF c
<1>20. PICK g \in BOOLEAN : g = Global(c, FALSE)
  BY DEF Global
<1>7. /\ rt' \in RouterStates /\ Fits(rt') /\ rt'.lastDown
      /\ out' \subseteq {Event(e, c) : e \in {"KEY", "PRESSED", "CLICKED"}}
      /\ \/ /\ hold' = [phys |-> k, code |-> c, page |-> page, modal |-> rt.modal,
                        global |-> g, longs |-> 0]
            /\ rt'.consumed = g
            /\ rt'.pressed = NoKey \/ (rt'.pressed = c /\ rt'.modal = rt.modal)
         \/ /\ hold' = hold /\ rt.lastDown /\ rt.pressed = c
            /\ rt'.consumed = rt.consumed
            /\ \/ rt'.pressed = NoKey
               \/ /\ rt'.pressed = c /\ rt'.modal = rt.modal
                  /\ rt'.longSent = rt.longSent
            /\ Event("KEY", c) \notin out'
      /\ rt.modal => out' \subseteq {Event("KEY", c)}
      /\ rt'.consumed => Event("PRESSED", c) \notin out' /\ Event("CLICKED", c) \notin out'
      /\ g => Event("KEY", c) \notin out'
  BY <1>1, <1>2, <1>4, <1>20, RoutePressFacts
<1>8. c # NoKey
  BY <1>4, NoKeyIsNoCode
<1>9. out' \subseteq EventSet
  BY <1>1, <1>4, <1>7 DEF Event, EventSet, Events
<1>10. \A e \in out' : e.event \notin Ends
  BY <1>7 DEF Event, Ends
<1>11. ASSUME /\ hold' = hold /\ rt.lastDown /\ rt.pressed = c
              /\ rt'.consumed = rt.consumed
              /\ \/ rt'.pressed = NoKey
                 \/ /\ rt'.pressed = c /\ rt'.modal = rt.modal
                    /\ rt'.longSent = rt.longSent
              /\ Event("KEY", c) \notin out'
       PROVE  hold' \in Holds /\ HoldKnown' /\ KeyStaysTaken'
  <2>1. /\ hold.code = c /\ hold.page = page /\ hold.code[1] = hold.phys
        /\ hold.modal => rt.modal
        /\ hold.global => rt.consumed
        /\ ~rt.longSent => hold.longs = 0
    BY <1>8, <1>11 DEF RInv, HoldKnown
  <2>2. HoldKnown'
    BY <1>2, <1>4, <1>6, <1>7, <1>11, <2>1 DEF HoldKnown
  <2>3. /\ hold'.modal => out' = {}
        /\ hold'.global => out' = {}
    BY <1>7, <1>11, <2>1
  <2>4. KeyStaysTaken'
    BY <2>3 DEF KeyStaysTaken, NavEvents
  <2>5. hold' \in Holds
    BY <1>1, <1>11
  <2> QED
    BY <2>2, <2>4, <2>5
<1>12. ASSUME /\ hold' = [phys |-> k, code |-> c, page |-> page, modal |-> rt.modal,
                        global |-> g, longs |-> 0]
              /\ rt'.consumed = g
              /\ rt'.pressed = NoKey \/ (rt'.pressed = c /\ rt'.modal = rt.modal)
       PROVE  hold' \in Holds /\ HoldKnown' /\ KeyStaysTaken'
  <2>1. rt.modal \in BOOLEAN
    BY <1>1 DEF RouterStates
  <2>2. /\ hold' \in Holds /\ hold'.code = c /\ hold'.phys = k /\ hold'.page = page
        /\ hold'.modal = rt.modal /\ hold'.global = g /\ hold'.longs = 0
    BY <1>1, <1>4, <1>12, <2>1 DEF Holds
  <2>3. HoldKnown'
    BY <1>2, <1>4, <1>6, <1>7, <1>12, <2>2 DEF HoldKnown
  <2>4. hold'.global => out' = {}
    BY <1>7, <1>12, <2>2
  <2>5. hold'.modal => out' \subseteq {Event("KEY", c)}
    BY <1>7, <2>2
  <2>6. KeyStaysTaken'
    BY <2>4, <2>5 DEF KeyStaysTaken, NavEvents, Event
  <2> QED
    BY <2>2, <2>3, <2>6
<1>13. hold' \in Holds /\ HoldKnown' /\ KeyStaysTaken'
  BY <1>1, <1>7, <1>11, <1>12
<1>14. HoldEndsWhereItBegan' /\ LongPressIsHeld'
  BY <1>10 DEF HoldEndsWhereItBegan, LongPressIsHeld, Ends
<1>15. KTypeOK' /\ RouterFitsPage'
  BY <1>1, <1>2, <1>3, <1>7, <1>9, <1>13
  DEF KTypeOK, RouterStates, EventSet, Holds, RouterFitsPage, Fits, Modes
<1> QED
  BY <1>1, <1>2, <1>5, <1>13, <1>14, <1>15 DEF RInv, KInv, PageOwnsKeys, RoutedAsTaken

(* A key comes up, the code of which is looked up as c.                    *)
LEMMA RouteReleasePreserves ==
  ASSUME RInv, NEW k \in down, NEW c \in Codes, ~chord => c = <<k, FALSE>>,
         down' = down \ {k}, RouteRelease(c), UNCHANGED <<chord, page, owner>>
  PROVE  /\ rt' \in RouterStates /\ Fits(rt') /\ HoldKnown' /\ RoutedAsTaken'
         /\ out' \subseteq EventSet /\ hold' = hold
<1>1. rt \in RouterStates /\ Fits(rt) /\ page \in Pages
  BY InvFacts DEF RInv, KInv
<1>2. c # NoKey
  BY NoKeyIsNoCode
<1>3. CASE ~(rt.lastDown /\ rt.pressed = c)
  <2>1. out' = {} /\ hold' = hold /\ rt' = [rt EXCEPT !.last = c, !.lastDown = FALSE]
    BY <1>3 DEF RouteRelease, ReleaseWith, IsHeld
  <2>2. /\ rt' \in RouterStates /\ Fits(rt')
        /\ rt'.pressed = rt.pressed /\ rt'.modal = rt.modal
        /\ rt'.consumed = rt.consumed /\ rt'.longSent = rt.longSent
    BY <1>1, <2>1 DEF RouterStates, Fits
  <2>3. rt.pressed # NoKey => chord
    <3> SUFFICES ASSUME rt.pressed # NoKey, ~chord PROVE FALSE
      OBVIOUS
    <3>1. hold.phys \in down /\ rt.lastDown /\ rt.pressed = <<hold.phys, FALSE>>
      BY DEF RInv, HoldKnown
    <3>2. hold.phys = k
      BY <3>1 DEF RInv, KeysKnown
    <3> QED
      BY <1>3, <3>1, <3>2
  <2>4. HoldKnown'
    BY <2>1, <2>2, <2>3 DEF RInv, HoldKnown
  <2>5. RoutedAsTaken'
    BY <2>1 DEF RoutedAsTaken, KeyStaysTaken, NavEvents, HoldEndsWhereItBegan,
       LongPressIsHeld
  <2> QED
    BY <2>1, <2>2, <2>4, <2>5
<1>4. CASE rt.lastDown /\ rt.pressed = c
  <2>1. /\ hold' = hold
        /\ rt' = [Ended(rt) EXCEPT !.last = c, !.lastDown = FALSE]
        /\ out' = IF rt.consumed THEN {}
                  ELSE {Event("KEY_RELEASED", c)} \cup
                         {e \in {Event("RELEASED", c)} : ~rt.modal /\ HasButton(rt, c)}
    BY <1>4 DEF RouteRelease, ReleaseWith, IsHeld
  <2>2. rt' \in RouterStates /\ Fits(rt') /\ rt'.pressed = NoKey
    BY <1>1, <2>1 DEF Ended, RouterStates, Fits
  <2>3. HoldKnown'
    BY <2>2 DEF HoldKnown
  <2>4. /\ hold.code = c /\ hold.page = page
        /\ hold.modal => rt.modal
        /\ hold.global => rt.consumed
    BY <1>2, <1>4 DEF RInv, HoldKnown
  <2>5. /\ out' \subseteq {Event("KEY_RELEASED", c), Event("RELEASED", c)}
        /\ rt.consumed => out' = {}
        /\ rt.modal => out' \subseteq {Event("KEY_RELEASED", c)}
    BY <2>1
  <2>6. KeyStaysTaken'
    BY <2>1, <2>4, <2>5 DEF KeyStaysTaken, NavEvents, Event
  <2>7. HoldEndsWhereItBegan' /\ LongPressIsHeld'
    BY <2>1, <2>4, <2>5 DEF HoldEndsWhereItBegan, LongPressIsHeld, Event
  <2>8. out' \subseteq EventSet
    BY <1>1, <2>5 DEF Event, EventSet, Events
  <2> QED
    BY <2>1, <2>2, <2>3, <2>6, <2>7, <2>8 DEF RoutedAsTaken
<1> QED
  BY <1>3, <1>4

(* A release keeps it.                                                     *)
LEMMA ReleaseKeyPreserves ==
  ASSUME RInv, NEW k \in Keys, ReleaseKey(k)
  PROVE  RInv'
<1> DEFINE c == Code(k, shift')
<1>1. /\ down \subseteq Keys /\ shift \in BOOLEAN /\ chord \in BOOLEAN
      /\ page \in Pages /\ owner \in Pages \cup {Nobody} /\ owner = page
      /\ hold \in Holds
  BY InvFacts DEF RInv, KInv, PageOwnsKeys
<1>2. /\ synth = Nobody /\ k \in down /\ k \notin ScanKeys /\ down' = down \ {k}
      /\ shift' = (shift /\ k # ShiftKey) /\ RouteRelease(c)
      /\ UNCHANGED <<synth, chord, page, owner>>
  BY DEF ReleaseKey
<1>3. shift' \in BOOLEAN /\ down' \subseteq Keys
  BY <1>1, <1>2
<1>4. c \in Codes
  BY <1>3, CodeFacts
<1>5. ~chord => c = <<k, FALSE>>
  <2> SUFFICES ASSUME ~chord PROVE c = <<k, FALSE>>
    OBVIOUS
  <2>1. ~shift'
    BY <1>2 DEF RInv, KeysKnown
  <2> QED
    BY <1>3, <2>1, CodeFacts
<1> HIDE DEF c
<1>6. KeysKnown'
  BY <1>1, <1>2 DEF RInv, KeysKnown
<1>7. /\ rt' \in RouterStates /\ Fits(rt') /\ HoldKnown' /\ RoutedAsTaken'
      /\ out' \subseteq EventSet /\ hold' = hold
  BY <1>2, <1>4, <1>5, RouteReleasePreserves
<1>8. KTypeOK' /\ RouterFitsPage'
  BY <1>1, <1>2, <1>3, <1>7
  DEF KTypeOK, RouterStates, EventSet, Holds, RouterFitsPage, Fits, Modes
<1> QED
  BY <1>1, <1>2, <1>6, <1>7, <1>8 DEF RInv, KInv, PageOwnsKeys

(* A release that the router makes up keeps it.                            *)
LEMMA SyntheticReleasePreserves ==
  ASSUME RInv, SyntheticRelease
  PROVE  RInv'
<1> DEFINE k == synth
           c == Code(synth, shift)
<1>1. /\ down \subseteq Keys /\ shift \in BOOLEAN /\ chord \in BOOLEAN
      /\ page \in Pages /\ owner \in Pages \cup {Nobody} /\ owner = page
      /\ hold \in Holds /\ synth \in ScanKeys \cup {Nobody}
  BY InvFacts DEF RInv, KInv, PageOwnsKeys
<1>2. /\ synth # Nobody /\ synth' = Nobody /\ down' = down \ {synth} /\ RouteRelease(c)
      /\ UNCHANGED <<shift, chord, page, owner>>
  BY DEF SyntheticRelease
<1>3. k \in down /\ k \in ScanKeys /\ k \in Keys /\ k # ShiftKey
  BY <1>1, <1>2, KeysAssumption DEF RInv, KeysKnown
<1>4. c \in Codes
  BY <1>1, <1>3, CodeFacts
<1>5. ~chord => c = <<k, FALSE>>
  <2> SUFFICES ASSUME ~chord PROVE c = <<k, FALSE>>
    OBVIOUS
  <2>1. ~shift
    BY <1>3 DEF RInv, KeysKnown
  <2> QED
    BY <1>1, <1>3, <2>1, CodeFacts
<1>6. KeysKnown'
  BY <1>1, <1>2, <1>3 DEF RInv, KeysKnown
<1>7. down' \subseteq Keys /\ synth' \in ScanKeys \cup {Nobody}
  BY <1>1, <1>2
<1> HIDE DEF c
<1>8. /\ rt' \in RouterStates /\ Fits(rt') /\ HoldKnown' /\ RoutedAsTaken'
      /\ out' \subseteq EventSet /\ hold' = hold
  BY <1>2, <1>3, <1>4, <1>5, RouteReleasePreserves
<1>9. KTypeOK' /\ RouterFitsPage'
  BY <1>1, <1>2, <1>7, <1>8
  DEF KTypeOK, RouterStates, EventSet, Holds, RouterFitsPage, Fits, Modes
<1> QED
  BY <1>1, <1>2, <1>6, <1>8, <1>9 DEF RInv, KInv, PageOwnsKeys

(* The hold is told of its long press once, and only while it lasts.       *)
LEMMA LongPressPreserves ==
  ASSUME RInv, NEW r \in Reactions, LongPress(r)
  PROVE  RInv'
<1> DEFINE told == ~rt.modal /\ ~rt.consumed /\ ~Global(rt.pressed, TRUE)
           s == [rt EXCEPT !.longSent = TRUE]
<1>1. /\ down \subseteq Keys /\ shift \in BOOLEAN /\ chord \in BOOLEAN
      /\ page \in Pages /\ owner \in Pages \cup {Nobody} /\ owner = page
      /\ hold \in Holds /\ synth \in ScanKeys \cup {Nobody}
      /\ rt \in RouterStates /\ Fits(rt)
  BY InvFacts DEF RInv, KInv, PageOwnsKeys
<1>2. /\ rt.pressed # NoKey /\ ~rt.longSent /\ Possible(rt, r)
      /\ r # "none" => told
      /\ rt' = IF told THEN React(s, r) ELSE s
      /\ out' = IF told THEN {Event("LONG_PRESSED", rt.pressed)} ELSE {}
      /\ hold' = IF told THEN [hold EXCEPT !.longs = @ + 1] ELSE hold
      /\ UNCHANGED <<down, shift, synth, chord, page, owner>>
  BY DEF LongPress, LongPressIf
<1>3. /\ hold.code = rt.pressed /\ hold.page = page /\ hold.code[1] = hold.phys
      /\ hold.modal => rt.modal
      /\ hold.global => rt.consumed
      /\ hold.longs = 0
      /\ ~chord => /\ hold.phys \in down /\ rt.lastDown
                   /\ hold.code = <<hold.phys, FALSE>>
  BY <1>2 DEF RInv, HoldKnown
<1>4. /\ s \in RouterStates /\ s.longSent /\ s.pressed = rt.pressed
      /\ s.modal = rt.modal /\ s.consumed = rt.consumed /\ s.lastDown = rt.lastDown
      /\ s.mode = rt.mode /\ s.aliases = rt.aliases
  BY <1>1 DEF RouterStates
<1> HIDE DEF s
<1>5. Fits(s) /\ Possible(s, r) /\ (r = "close_dialog" => s.mode = ModeOf(page))
  BY <1>1, <1>2, <1>4 DEF Fits, Possible, ToolOpen
<1>6. /\ React(s, r) \in RouterStates /\ Fits(React(s, r))
      /\ React(s, r) = s \/ React(s, r).pressed = NoKey
  BY <1>4, <1>5, ReactFacts, ReactFits
<1>7. /\ rt' \in RouterStates /\ Fits(rt')
      /\ rt' = s \/ rt'.pressed = NoKey
  BY <1>1, <1>2, <1>4, <1>5, <1>6 DEF Fits
<1>8. told => ~hold.modal /\ ~hold.global
  BY <1>3
<1> HIDE DEF told
<1>9. /\ hold' \in Holds /\ hold'.code = hold.code /\ hold'.phys = hold.phys
      /\ hold'.page = hold.page /\ hold'.modal = hold.modal /\ hold'.global = hold.global
  BY <1>1, <1>2, <1>3 DEF Holds
<1>10. HoldKnown'
  <2>1. CASE rt'.pressed = NoKey
    BY <2>1 DEF HoldKnown
  <2>2. CASE rt' = s
    <3>1. /\ rt'.pressed = rt.pressed /\ rt'.modal = rt.modal /\ rt'.longSent
          /\ rt'.consumed = rt.consumed /\ rt'.lastDown = rt.lastDown
      BY <1>4, <2>2
    <3>2. page' = page /\ chord' = chord /\ down' = down
      BY <1>2
    <3> QED
      BY <1>3, <1>9, <3>1, <3>2 DEF HoldKnown
  <2> QED
    BY <1>7, <2>1, <2>2
<1>11. out' \subseteq EventSet /\ \A e \in out' : e = Event("LONG_PRESSED", rt.pressed)
  <2>1. rt.pressed \in Codes
    BY <1>1, <1>2 DEF RouterStates
  <2> QED
    BY <1>1, <1>2, <2>1 DEF Event, EventSet, Events
<1>12. KeyStaysTaken'
  BY <1>2, <1>8, <1>9 DEF KeyStaysTaken, NavEvents
<1>13. HoldEndsWhereItBegan' /\ LongPressIsHeld'
  <2>1. \A e \in out' : e.code = rt.pressed /\ e.page = page
    BY <1>11 DEF Event
  <2>2. hold'.code = rt.pressed /\ hold'.page = page /\ hold'.phys = hold.phys
    BY <1>3, <1>9
  <2>3. ~chord' => hold'.phys \in down'
    BY <1>2, <1>3, <2>2
  <2> QED
    BY <2>1, <2>2, <2>3 DEF HoldEndsWhereItBegan, LongPressIsHeld
<1>14. KTypeOK' /\ RouterFitsPage'
  BY <1>1, <1>2, <1>7, <1>9, <1>11
  DEF KTypeOK, RouterStates, EventSet, Holds, RouterFitsPage, Fits, Modes
<1>15. KeysKnown'
  BY <1>2 DEF RInv, KeysKnown
<1> QED
  BY <1>1, <1>2, <1>10, <1>12, <1>13, <1>14, <1>15
  DEF RInv, KInv, PageOwnsKeys, RoutedAsTaken

(* The next screen is built, the router reset, the previous destroyed.     *)
LEMMA LoadPagePreserves ==
  ASSUME RInv, NEW q \in Pages, LoadPage(q)
  PROVE  RInv'
<1> DEFINE a == [rt EXCEPT !.aliases = @ /\ q # LcdPage]
           built == SetMode(a, ModeOf(q))
           b == Reset(built)
           d == Destroyed(b, page)
<1>1. /\ down \subseteq Keys /\ shift \in BOOLEAN /\ chord \in BOOLEAN
      /\ page \in Pages /\ owner = page
      /\ hold \in Holds /\ synth \in ScanKeys \cup {Nobody}
      /\ rt \in RouterStates /\ Fits(rt)
  BY InvFacts DEF RInv, KInv, PageOwnsKeys
<1>2. /\ q # page /\ page' = q /\ owner' = ClearOwn(q, page)
      /\ rt' = SetModal(d, FALSE) /\ out' = {}
      /\ UNCHANGED <<down, shift, synth, hold, chord>>
  BY DEF LoadPage
<1>3. a \in RouterStates /\ (a.aliases <=> rt.aliases /\ q # LcdPage)
  BY <1>1 DEF RouterStates
<1> HIDE DEF a
<1>4. ModeOf(q) \in Modes
  BY DEF ModeOf, Modes
<1>5. /\ b \in RouterStates /\ b.pressed = NoKey /\ b.mode = ModeOf(q)
      /\ b.aliases = a.aliases
  BY <1>3, <1>4, SetModeFacts, ResetFacts
<1> HIDE DEF built, b
<1>6. /\ d \in RouterStates /\ d.pressed = NoKey /\ d.mode = ModeOf(q)
      /\ page = LcdPage => d.aliases
      /\ page # LcdPage => d.aliases = a.aliases
  <2>1. CASE page = LcdPage
    <3> DEFINE e == [b EXCEPT !.aliases = TRUE]
    <3>1. e \in RouterStates /\ e.mode = ModeOf(q) /\ e.aliases
      BY <1>5 DEF RouterStates
    <3>2. d = Reset(e)
      BY <2>1 DEF Destroyed
    <3> HIDE DEF e, d
    <3> QED
      BY <2>1, <3>1, <3>2, ResetFacts
  <2>2. CASE page # LcdPage
    BY <1>5, <2>2 DEF Destroyed
  <2> QED
    BY <2>1, <2>2
<1> HIDE DEF d
<1>7. /\ rt' \in RouterStates /\ rt'.pressed = NoKey /\ rt'.mode = ModeOf(q)
      /\ rt'.aliases = d.aliases
  BY <1>2, <1>6, SetModalFacts
<1>8. rt'.aliases <=> q # LcdPage
  BY <1>1, <1>2, <1>3, <1>6, <1>7 DEF Fits
<1>9. owner' = q
  BY <1>1, <1>2 DEF ClearOwn
<1>10. KTypeOK' /\ RouterFitsPage'
  BY <1>1, <1>2, <1>7, <1>8, <1>9
  DEF KTypeOK, RouterStates, EventSet, Holds, RouterFitsPage, Fits, Modes
<1>11. KeysKnown' /\ HoldKnown'
  BY <1>2, <1>7 DEF RInv, KeysKnown, HoldKnown
<1>12. RoutedAsTaken'
  BY <1>2 DEF RoutedAsTaken, KeyStaysTaken, NavEvents, HoldEndsWhereItBegan,
     LongPressIsHeld
<1> QED
  BY <1>2, <1>9, <1>10, <1>11, <1>12 DEF RInv, KInv, PageOwnsKeys

(* A dialog or tool opens or closes without a key.                         *)
LEMMA ElsewherePreserves ==
  ASSUME RInv, NEW r \in Reactions, Elsewhere(r)
  PROVE  RInv'
<1>1. /\ page \in Pages /\ owner = page /\ rt \in RouterStates /\ Fits(rt)
  BY InvFacts DEF RInv, KInv, PageOwnsKeys
<1>2. /\ Possible(rt, r) /\ rt' = React(rt, r) /\ out' = {}
      /\ UNCHANGED <<down, shift, synth, page, owner, hold, chord>>
  BY DEF Elsewhere
<1>3. r = "close_dialog" => rt.mode = ModeOf(page)
  BY <1>2 DEF Possible, ToolOpen
<1>4. /\ rt' \in RouterStates /\ Fits(rt')
      /\ rt' = rt \/ rt'.pressed = NoKey
  BY <1>1, <1>2, <1>3, ReactFacts, ReactFits DEF Fits
<1>5. KTypeOK' /\ RouterFitsPage'
  BY <1>1, <1>2, <1>4
  DEF RInv, KInv, KTypeOK, RouterStates, EventSet, Holds, RouterFitsPage, Fits, Modes
<1>6. KeysKnown' /\ HoldKnown'
  BY <1>2, <1>4 DEF RInv, KeysKnown, HoldKnown
<1>7. RoutedAsTaken'
  BY <1>2 DEF RoutedAsTaken, KeyStaysTaken, NavEvents, HoldEndsWhereItBegan,
     LongPressIsHeld
<1> QED
  BY <1>1, <1>2, <1>5, <1>6, <1>7 DEF RInv, KInv, PageOwnsKeys

-----------------------------------------------------------------------------
(* The theorems.                                                           *)

(* No key is held at first.                                                *)
LEMMA InitEstablishes ==
  Init => RInv
<1> SUFFICES ASSUME Init PROVE RInv
  OBVIOUS
<1>1. /\ down = {} /\ shift = FALSE /\ synth = Nobody /\ chord = FALSE
      /\ page \in Pages /\ page # LcdPage /\ page # KeyboardPage
      /\ owner = page /\ out = {}
  BY DEF Init
<1>2. rt \in RouterStates /\ hold \in Holds
  BY DEF Init, RouterStates, Holds, Modes
<1>3. rt.aliases /\ rt.mode = "CLICK"
  BY DEF Init
<1>4. KTypeOK
  BY <1>1, <1>2 DEF KTypeOK, RouterStates, Holds, Modes
<1>5. KInv
  BY <1>1, <1>3, <1>4 DEF KInv, PageOwnsKeys, RouterFitsPage, ModeOf
<1>6. KeysKnown /\ HoldKnown /\ RoutedAsTaken
  BY DEF Init, KeysKnown, HoldKnown, RoutedAsTaken, KeyStaysTaken, NavEvents,
     HoldEndsWhereItBegan, LongPressIsHeld
<1> QED
  BY <1>5, <1>6 DEF RInv

(* Every step keeps it.                                                    *)
LEMMA NextPreserves ==
  RInv /\ [Next]_vars => RInv'
<1> SUFFICES ASSUME RInv, [Next]_vars PROVE RInv'
  OBVIOUS
<1>1. ASSUME NEW k \in Keys, NEW r1 \in Reactions, NEW r2 \in Reactions,
             PressKey(k, r1, r2)
      PROVE  RInv'
  BY <1>1, PressKeyPreserves
<1>2. ASSUME NEW k \in Keys, ReleaseKey(k) PROVE RInv'
  BY <1>2, ReleaseKeyPreserves
<1>3. CASE SyntheticRelease
  BY <1>3, SyntheticReleasePreserves
<1>4. ASSUME NEW r \in Reactions, LongPress(r) PROVE RInv'
  BY <1>4, LongPressPreserves
<1>5. ASSUME NEW q \in Pages, LoadPage(q) PROVE RInv'
  BY <1>5, LoadPagePreserves
<1>6. ASSUME NEW r \in Reactions, Elsewhere(r) PROVE RInv'
  BY <1>6, ElsewherePreserves
<1>7. CASE UNCHANGED vars
  <2>1. /\ down' = down /\ shift' = shift /\ synth' = synth /\ rt' = rt /\ page' = page
        /\ owner' = owner /\ out' = out /\ hold' = hold /\ chord' = chord
    BY <1>7 DEF vars
  <2>2. KTypeOK'
    BY <2>1 DEF RInv, KInv, KTypeOK
  <2>3. PageOwnsKeys' /\ RouterFitsPage'
    BY <2>1 DEF RInv, KInv, PageOwnsKeys, RouterFitsPage
  <2>4. KeysKnown' /\ HoldKnown'
    BY <2>1 DEF RInv, KeysKnown, HoldKnown
  <2>5. RoutedAsTaken'
    BY <2>1 DEF RInv, RoutedAsTaken, KeyStaysTaken, NavEvents, HoldEndsWhereItBegan,
       LongPressIsHeld
  <2> QED
    BY <2>2, <2>3, <2>4, <2>5 DEF RInv, KInv
<1> QED
  BY <1>1, <1>2, <1>3, <1>4, <1>5, <1>6, <1>7 DEF Next

(* The router is typed, the screen on display owns the keys, and mode and  *)
(* aliases are those of the page: KInv.                                    *)
THEOREM RouterThm == Spec => []KInv
<1>1. RInv => KInv
  BY DEF RInv
<1> QED
  BY <1>1, InitEstablishes, NextPreserves, PTL DEF Spec

(* A key press belongs to whoever took it, from its press to its release:  *)
(* RoutedAsTaken.                                                          *)
THEOREM RoutedThm == Spec => []RoutedAsTaken
<1>1. RInv => RoutedAsTaken
  BY DEF RInv
<1> QED
  BY <1>1, InitEstablishes, NextPreserves, PTL DEF Spec

=============================================================================
