------------------------------- MODULE Input -------------------------------
(***************************************************************************)
(* Keys, from the touch controls and the keyboard to the guest.  On the    *)
(* main thread the controls of the overlay (a D-pad, buttons, the tap of   *)
(* the stick) and sendKey call dosbox_inject_key and dosbox_inject_char,   *)
(* which push events into SDL's queue one by one; DOSBox (external) takes  *)
(* them off on its own thread, so it may do so between two pushes.  SDL's  *)
(* queue is bounded, and the result of SDL_PushEvent is not looked at.     *)
(* SwiftUI (external) ends a gesture with onEnded, or drops it: when the   *)
(* system takes the touch, or when the view goes.                          *)
(* Positions, sizes, labels and the mouse are left out.                    *)
(***************************************************************************)
EXTENDS Integers, Sequences, FiniteSets, SequencesExt

CONSTANTS Pad,       \* bindings of the D-pad: keys of some of Directions
          Buttons,   \* bindings of the buttons, single or in a row: their keys
          Tap,       \* binding of the stick's tap: at most one key
          Sectors,   \* the angles a thumb is seen at: sector s of 0 .. 15 lies between
                     \* s and s + 1 times pi/8, clockwise from the right
          Chars,     \* the characters typed
          MaxInputs, \* bound: things the user does
          MaxQueued  \* SDL's limit, 65535 in the library

Directions == {"up", "down", "left", "right"}
Characters == {"a", "A", "1", "^C", "arrow"}
ASSUME InputAssumption ==
  /\ DOMAIN Pad \subseteq Directions /\ "pad" \notin DOMAIN Buttons
  /\ IsFiniteSet(Tap) /\ Cardinality(Tap) <= 1
  /\ Sectors \subseteq 0 .. 15 /\ Chars \subseteq Characters
  /\ MaxInputs \in Nat /\ MaxQueued \in Nat \ {0}

PadKeys == {Pad[d] : d \in DOMAIN Pad}
Controls == {"pad"} \cup DOMAIN Buttons
KeysOf(c) == IF c = "pad" THEN PadKeys ELSE {Buttons[c]}
ControlKeys == (UNION {KeysOf(c) : c \in Controls}) \cup Tap

VARIABLES
  touch,     \* the controls with a finger on them
  held,      \* per control: activeKeys, or its key if isPressed
  taps,      \* releases due 50 ms after a tap of the stick
  shown,     \* showTouchControls
  fn, alt, ctrl,  \* isFnActive, isAltActive, isControlifyActive
  pushes,    \* events the main thread has still to push before it goes on
  queue,     \* SDL's event queue
  guest,     \* the keys down for the guest
  inputs,    \* things the user has done
  orphaned,  \* history: keys a control held when its view went
  dropped    \* history: SDL's queue was full once

overlay == <<touch, held, taps, shown>>
modes == <<fn, alt, ctrl>>
events == <<queue, guest, dropped>>
vars == <<overlay, modes, pushes, events, inputs, orphaned>>

\* An event, with what it was meant as: a key of a control, or a character typed
\* plainly, with shift, or in Ctrl or Alt mode (history: SDL's event has no such field)
Meanings == {"touch", "plain", "shift", "ctrl", "alt"}
Down(k, meant) == [key |-> k, down |-> TRUE, meant |-> meant]
Up(k, meant) == [key |-> k, down |-> FALSE, meant |-> meant]

LShift == "Shift"
TypedKeys == {"A", "1", "F1", "Up", LShift}
Keys == ControlKeys \cup TypedKeys

TypeOK ==
  /\ touch \subseteq Controls
  /\ held \in [Controls -> SUBSET ControlKeys]
  /\ \A c \in Controls : held[c] \subseteq KeysOf(c)
  /\ taps \in 0 .. MaxInputs /\ shown \in BOOLEAN
  /\ fn \in BOOLEAN /\ alt \in BOOLEAN /\ ctrl \in BOOLEAN
  /\ pushes \in Seq([key : Keys, down : BOOLEAN, meant : Meanings])
  /\ queue \in Seq([key : Keys, down : BOOLEAN, meant : Meanings])
  /\ Len(queue) <= MaxQueued
  /\ inputs \in 0 .. MaxInputs
  /\ guest \subseteq Keys /\ orphaned \subseteq ControlKeys /\ dropped \in BOOLEAN

Init ==
  /\ touch = {} /\ held = [c \in Controls |-> {}] /\ taps = 0 /\ shown = TRUE
  /\ fn = FALSE /\ alt = FALSE /\ ctrl = FALSE
  /\ pushes = <<>> /\ queue = <<>> /\ guest = {}
  /\ inputs = 0 /\ orphaned = {} /\ dropped = FALSE

\* the main thread is free, and is to push these events
Inject(these) == pushes = <<>> /\ pushes' = these

\* the keys of a set, in any order
Orders(S) == SetToSeqs(S)

-----------------------------------------------------------------------------
(* The overlay.                                                            *)

\* DPadView.updateDirections: the directions of a thumb in a sector
Points(s) == {d \in Directions : \/ d = "up" /\ s \in 9 .. 12
                                 \/ d = "down" /\ s \in 3 .. 6
                                 \/ d = "left" /\ s \in 5 .. 10
                                 \/ d = "right" /\ s \in (0 .. 2) \cup (13 .. 15)}
KeysAt(s) == {Pad[d] : d \in Points(s) \cap DOMAIN Pad}

\* keys of the pad that are no longer wanted go up, then the new ones down
ReleasedKeys_All(before, now) == before
ReleasedKeys(before, now) == before \ now
Redirect(now) ==
  \E ups \in Orders(ReleasedKeys(held["pad"], now)), downs \in Orders(now \ held["pad"]) :
    Inject([i \in DOMAIN ups |-> Up(ups[i], "touch")]
             \o [i \in DOMAIN downs |-> Down(downs[i], "touch")])

Drag(s) ==
  /\ shown /\ DOMAIN Pad # {} /\ Redirect(KeysAt(s))
  /\ touch' = touch \cup {"pad"} /\ held' = [held EXCEPT !["pad"] = KeysAt(s)]
  /\ UNCHANGED <<taps, shown, modes, events, orphaned>>

\* within the dead zone no direction is held; nor when the drag has ended
Center ==
  /\ "pad" \in touch /\ Redirect({})
  /\ touch' \in {touch, touch \ {"pad"}} /\ held' = [held EXCEPT !["pad"] = {}]
  /\ UNCHANGED <<taps, shown, modes, events, orphaned>>

\* ActionButtonView and RowButton: onChanged presses once ...
Press(b) ==
  /\ shown /\ b \notin touch
  /\ touch' = touch \cup {b} /\ held' = [held EXCEPT ![b] = {Buttons[b]}]
  /\ Inject(IF held[b] = {} THEN <<Down(Buttons[b], "touch")>> ELSE <<>>)
  /\ UNCHANGED <<taps, shown, modes, events, orphaned>>

\* ... and onEnded releases
Lifted(b) == IF held[b] = {} THEN <<>> ELSE <<Up(Buttons[b], "touch")>>
Release(b) ==
  /\ b \in touch
  /\ touch' = touch \ {b} /\ held' = [held EXCEPT ![b] = {}]
  /\ Inject(Lifted(b))
  /\ UNCHANGED <<taps, shown, modes, events, orphaned>>

\* StickView: a quick tap presses at once, and releases 50 ms later
TapStick ==
  /\ shown
  /\ taps' = taps + 1
  /\ \E k \in Tap : Inject(<<Down(k, "touch")>>)
  /\ UNCHANGED <<touch, held, shown, modes, events, orphaned>>

TapEvents_PressAgain(k) == <<Down(k, "touch")>>
TapEvents(k) == <<Up(k, "touch")>>
TapRelease ==
  /\ taps > 0 /\ taps' = taps - 1
  /\ \E k \in Tap : Inject(TapEvents(k))
  /\ UNCHANGED <<touch, held, shown, modes, events, orphaned>>

\* the system takes a touch: the gesture ends without onEnded (external)
Cancel(c) ==
  /\ c \in touch /\ pushes = <<>>
  /\ touch' = touch \ {c}
  /\ UNCHANGED <<held, taps, shown, modes, pushes, events, orphaned>>

\* the eye of the toolbar: the views go with their state, or come anew
ToggleOverlay ==
  /\ pushes = <<>> /\ shown' = ~shown
  /\ touch' = {} /\ held' = [c \in Controls |-> {}]
  /\ orphaned' = orphaned \cup UNION {held[c] : c \in Controls}
  /\ UNCHANGED <<taps, modes, pushes, events>>

-----------------------------------------------------------------------------
(* The keyboard, on screen or not.                                         *)

\* dosbox_inject_char: ascii_to_sdl, and the events around a shifted key
AsciiToSdl(ch) == CASE ch \in {"a", "A"} -> {"A"} [] ch = "1" -> {"1"} [] OTHER -> {}
Shifted_EarlyUp(k, meant) ==
  <<Down(LShift, "touch"), Up(LShift, "touch"), Down(k, meant), Up(k, meant)>>
Shifted(k, meant) ==
  <<Down(LShift, "touch"), Down(k, meant), Up(k, meant), Up(LShift, "touch")>>
InjectChar(ch, meant) ==
  IF AsciiToSdl(ch) = {} THEN Inject(<<>>)
  ELSE \E k \in AsciiToSdl(ch) :
         Inject(IF ch = "A" THEN Shifted(k, meant) ELSE <<Down(k, meant), Up(k, meant)>>)

\* sendScancode: down and up at once
Stroke(k, meant) == Inject(<<Down(k, meant), Up(k, meant)>>)

FnScancode(ch) == IF ch = "1" THEN {"F1"} ELSE {}
CharToScancode(ch) == AsciiToSdl(ch)

\* sendKey, on a hardware or the software keyboard
Meaning(ch) == IF ctrl THEN "ctrl" ELSE IF ch = "A" THEN "shift" ELSE "plain"
\* (an arrow, or a key of the toolbar, which is sent as it is)
TypeArrow == "arrow" \in Chars /\ Stroke("Up", "plain") /\ UNCHANGED modes
TypeFn(ch) ==
  /\ fn /\ fn' = FALSE /\ UNCHANGED <<alt, ctrl>>
  /\ \E k \in FnScancode(ch) : Stroke(k, "plain")
TypeAlt(ch) ==
  /\ fn => FnScancode(ch) = {}
  /\ alt /\ fn' = FALSE /\ alt' = FALSE /\ UNCHANGED ctrl
  /\ \E k \in CharToScancode(ch) : Stroke(k, "alt")
TypePlain(ch) ==
  /\ fn => FnScancode(ch) = {}
  /\ alt => CharToScancode(ch) = {}
  /\ fn' = FALSE /\ alt' = FALSE /\ UNCHANGED ctrl
  /\ InjectChar(ch, Meaning(ch))
Type ==
  /\ \/ TypeArrow
     \/ \E ch \in Chars \ {"arrow"} : TypeFn(ch) \/ TypeAlt(ch) \/ TypePlain(ch)
  /\ UNCHANGED <<overlay, events, orphaned>>

\* the toolbar's modes
ToggleMode ==
  /\ pushes = <<>> /\ Chars # {}
  /\ \/ fn' = ~fn /\ UNCHANGED <<alt, ctrl>>
     \/ alt' = ~alt /\ UNCHANGED <<fn, ctrl>>
     \/ ctrl' = ~ctrl /\ UNCHANGED <<fn, alt>>
  /\ UNCHANGED <<overlay, pushes, events, orphaned>>

-----------------------------------------------------------------------------
(* SDL's queue.                                                            *)

\* dosbox_inject_key: SDL_PushEvent, which fails when the queue is full
PushEvent ==
  /\ pushes # <<>> /\ pushes' = Tail(pushes)
  /\ IF Len(queue) < MaxQueued
     THEN queue' = Append(queue, Head(pushes)) /\ UNCHANGED dropped
     ELSE dropped' = TRUE /\ UNCHANGED queue
  /\ UNCHANGED <<overlay, modes, guest, orphaned>>

\* DOSBox handles an event (external)
Poll ==
  /\ queue # <<>> /\ queue' = Tail(queue)
  /\ guest' = IF Head(queue).down THEN guest \cup {Head(queue).key}
              ELSE guest \ {Head(queue).key}
  /\ UNCHANGED <<overlay, modes, pushes, orphaned, dropped>>

-----------------------------------------------------------------------------
Touch ==
  \/ \E s \in Sectors : Drag(s)
  \/ Center \/ TapStick \/ ToggleOverlay
  \/ \E b \in DOMAIN Buttons : Press(b) \/ Release(b)
  \/ \E c \in Controls : Cancel(c)
User == inputs < MaxInputs /\ inputs' = inputs + 1 /\ (Touch \/ Type \/ ToggleMode)
Next == User \/ ((TapRelease \/ PushEvent \/ Poll) /\ UNCHANGED inputs)

\* the main queue's timers, the main thread and DOSBox go on
Fairness == WF_vars(TapRelease /\ UNCHANGED inputs)
            /\ WF_vars(PushEvent /\ UNCHANGED inputs) /\ WF_vars(Poll /\ UNCHANGED inputs)
Spec == Init /\ [][Next]_vars /\ Fairness
-----------------------------------------------------------------------------
\* What the guest will see once all that has been sent has arrived: whether a key
\* is down is said by its last event under way, if there is one.
Sent == queue \o pushes
EventsOf(k) == {i \in DOMAIN Sent : Sent[i].key = k}
WillBeDown(k) ==
  IF EventsOf(k) = {} THEN k \in guest
  ELSE \E i \in EventsOf(k) : Sent[i].down /\ \A j \in EventsOf(k) : j <= i

\* No key sticks: what stays down for the guest is held by a control, that will
\* let go of it, or by a tap whose release is due; unless a view was taken away
\* while it held a key, or SDL's queue was full.
Holding == (UNION {held[c] : c \in Controls}) \cup (IF taps > 0 THEN Tap ELSE {})
NoStuckKey == ~dropped => \A k \in Keys : WillBeDown(k) => k \in Holding \cup orphaned

\* A key that is held is down, or on its way, if no other control and no character
\* uses the same key.
Exclusive(c, k) ==
  k \notin TypedKeys /\ k \notin Tap /\ \A d \in Controls \ {c} : k \notin KeysOf(d)
HeldIsDown ==
  ~dropped => \A c \in Controls : \A k \in held[c] : Exclusive(c, k) => WillBeDown(k)

\* A shifted character finds Shift down, and a plain one does not, wherever DOSBox
\* empties the queue between their events, as long as Shift is on no control.
ShiftIsRight ==
  [][(Poll /\ Head(queue).down /\ ~dropped /\ LShift \notin ControlKeys) =>
       /\ Head(queue).meant = "shift" => LShift \in guest
       /\ Head(queue).meant = "plain" => LShift \notin guest]_vars

\* A key goes up for the guest when all that held it has let go.
KeysComeUp ==
  \A k \in Keys : k \in guest ~> (k \notin guest \/ k \in Holding \cup orphaned \/ dropped)

\* What the guest gets is what was meant: each key in its time, Shift around its character.
KeysArrive == ShiftIsRight /\ KeysComeUp

\* What the controls hold is what the guest has: keys of theirs, and down.
KeysTrue == TypeOK /\ HeldIsDown
=============================================================================
