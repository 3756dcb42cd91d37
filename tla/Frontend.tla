------------------------------ MODULE Frontend ------------------------------
(***************************************************************************)
(* The player's side: settings, bindings and their file, and the input     *)
(* that reaches the game (frontend/src/menu_overlay.cpp, driven by         *)
(* frontend/src/platform_sdl.c in the order that docs/FRONTEND.md gives a  *)
(* host: present, poll, present ...).                                      *)
(*                                                                         *)
(* Abstractions: mute stands for the settings that are stored like it      *)
(* (V-sync, scanlines, FPS); the volume is in thousandths; the file is     *)
(* short enough for one write, so that it is whole or empty, and an edit   *)
(* by hand changes its numbers and not its lines; a gamepad is connected;  *)
(* one menu item is clicked per frame, while the mouse is over the menu    *)
(* (hover: ImGui's WantCapture flags), and the controller window is open   *)
(* for its buttons.  The multiplayer window is module MpSession's.         *)
(***************************************************************************)
EXTENDS Integers

CONSTANTS
  Button,       (* the Lynx's buttons *)
  Key, Pad, Esc,(* scancodes, gamepad buttons, and the scancode of Escape *)
  DefaultBind,  (* set_default_binds: the code bound for each of Binding *)
  Choice,       (* the values the menu sets: <<option, value>> *)
  Edit, Rebound,(* the same, of an edit of the file by hand: options and bindings *)
  MaxClicks,    (* bound: menu items clicked, and edits of the file *)
  Idle, Empty, Lost

Player == {1, 2}
Binding == Player \X Button \X {"key", "pad"}
Unset == -1

\* The settings a program runs with, and those a file can hold.  Filter, volume
\* and bindings are numbers that no one bounds.
Settings ==
  [opt  : [scale : 1 .. 8, rotate : 0 .. 3, filter : Int, volume : Int, mute : {0, 1}],
   bind : [Binding -> Int]]
File ==
  [opt  : [scale : Int, rotate : Int, filter : Int, volume : Int, mute : Int],
   bind : [Binding -> Int]]

ASSUME CodeAssumption == Key \cup Pad \cup {Esc} \subseteq Int /\ Esc \notin Key
ASSUME BindAssumption == DefaultBind \in [Binding -> Int]
ASSUME ChoiceAssumption ==
  \A c \in Choice : \/ c[1] = "scale" /\ c[2] \in 1 .. 8
                    \/ c[1] = "rotate" /\ c[2] \in 0 .. 3
                    \/ c[1] \in {"filter", "volume"} /\ c[2] \in Int
                    \/ c[1] = "mute" /\ c[2] \in {0, 1}
ASSUME EditAssumption ==
  /\ \A e \in Edit : e[1] \in {"scale", "rotate", "filter", "volume", "mute"} /\ e[2] \in Int
  /\ Rebound \subseteq Binding \X Int
ASSUME NoFileAssumption == Empty \notin File

VARIABLES
  at,      (* where the program is *)
  g,       (* the settings and bindings in use *)
  rebind,  (* the binding whose new code is awaited *)
  hover, leave,
  ini,     (* lynx_config.ini: what a whole file holds, or Empty *)
  held,    (* the keys and gamepad buttons that are down: <<device, code>> *)
  input,   (* the buttons that the game sees *)
  clicks,
  kept,    (* the settings in use when the file was last completed; Lost in an edit *)
  torn     (* a save since then was cut short *)

fileVars == <<ini, kept, torn>>
frontVars == <<at, g, rebind, hover, leave, held, input, clicks, fileVars>>

Devices == ({"key"} \X (Key \cup {Esc})) \cup ({"pad"} \X Pad)

-----------------------------------------------------------------------------
Defaults ==
  [opt  |-> [scale |-> 4, rotate |-> 0, filter |-> 0, volume |-> 1000, mute |-> 0],
   bind |-> DefaultBind]

\* The volume is written in percent: a half is added, and a cast drops what is
\* behind the point, so that a negative one is rounded up.
percent(v) == IF v >= -5 THEN (v + 5) \div 10 ELSE -((-(v + 5)) \div 10)

\* A mutant: the percentage is cut off.
written_cut(s) == [s EXCEPT !.opt.volume = @ \div 10]

written(s) == [s EXCEPT !.opt.volume = percent(@)]

\* A mutant: a scale out of range is taken as it is.
loaded_unclamped(s, file) ==
  IF file = Empty THEN s
  ELSE [file EXCEPT !.opt.rotate = @ % 4, !.opt.volume = 10 * @,
                    !.opt.mute = IF @ # 0 THEN 1 ELSE 0]

\* What config_load makes of the settings s: it takes every line of the file.
loaded(s, file) ==
  IF file = Empty THEN s
  ELSE [file EXCEPT !.opt.rotate = @ % 4, !.opt.volume = 10 * @,
                    !.opt.mute = IF @ # 0 THEN 1 ELSE 0,
                    !.opt.scale = IF @ < 1 THEN 1 ELSE IF @ > 8 THEN 8 ELSE @]

\* The file is truncated when it is opened, before the first byte reaches it.
cut_short == ini' = Empty /\ torn' = TRUE /\ UNCHANGED kept

\* The file is written; or cannot be opened; or is opened and cannot be written,
\* which nobody looks at.
config_save ==
  \/ ini' = written(g) /\ kept' = g /\ torn' = FALSE
  \/ UNCHANGED fileVars
  \/ cut_short

config_load == g' = loaded(g, ini) /\ UNCHANGED fileVars

\* The reset button of a player's tab: the keys of both, the pad of this one.
reset_player(p) ==
  [g EXCEPT !.bind = [b \in Binding |-> IF b[3] = "key" \/ b[1] = p THEN DefaultBind[b] ELSE @[b]]]

menu_overlay_is_active == rebind # Idle \/ hover

read_player(p) ==
  {b \in Button : \E d \in {"key", "pad"} : <<d, g.bind[<<p, b, d>>]>> \in held}

-----------------------------------------------------------------------------
\* A program starts: the static initialisers, then the file.
lynx_platform_init ==
  /\ at = "off"
  /\ at' = "present"
  /\ g' = loaded(Defaults, ini)
  /\ UNCHANGED <<rebind, hover, leave, held, input, clicks, fileVars>>

\* A choice in the menu bar.
MenuItem ==
  \/ \E c \in Choice : g' = [g EXCEPT !.opt[c[1]] = c[2]] /\ UNCHANGED <<rebind, leave, fileVars>>
  \/ g' = Defaults /\ UNCHANGED <<rebind, leave, fileVars>>
  \/ config_save /\ UNCHANGED <<g, rebind, leave>>
  \/ config_load /\ UNCHANGED <<rebind, leave>>
  \/ leave' = TRUE /\ UNCHANGED <<g, rebind, fileVars>>

\* A button of the controller window; it has one that saves, too.
ControllerItem ==
  /\ \/ \E b \in Binding : rebind' = b /\ UNCHANGED g
     \/ \E p \in Player : g' = reset_player(p) /\ UNCHANGED rebind
  /\ UNCHANGED <<leave, fileVars>>

\* The menu is drawn, with at most one of its items clicked.
lynx_platform_present ==
  /\ at = "present"
  /\ at' = "poll"
  /\ hover' \in BOOLEAN
  /\ \/ /\ hover' /\ clicks < MaxClicks
        /\ clicks' = clicks + 1
        /\ MenuItem \/ ControllerItem
     \/ UNCHANGED <<g, rebind, leave, clicks, fileVars>>
  /\ UNCHANGED <<held, input>>

\* A key goes down, or repeats, or a gamepad's button goes down: a pending rebind
\* of that device takes it.
Press(d, k) ==
  /\ held' = held \cup {<<d, k>>}
  /\ IF rebind # Idle /\ rebind[3] = d
     THEN g' = [g EXCEPT !.bind[rebind] = k] /\ rebind' = Idle
     ELSE UNCHANGED <<g, rebind>>
  /\ UNCHANGED leave

\* Escape ends a pending rebind; otherwise, off the menu, the program.
Escape ==
  /\ rebind' = Idle
  /\ leave' = (leave \/ (rebind = Idle /\ ~hover))
  /\ held' = held \cup {<<"key", Esc>>}
  /\ UNCHANGED g

\* One event of the queue.
Event ==
  /\ at = "poll"
  /\ \/ \E k \in Key : Press("key", k)
     \/ \E k \in Pad : Press("pad", k)
     \/ \E h \in held : held' = held \ {h} /\ UNCHANGED <<g, rebind, leave>>
     \/ Escape
     \/ leave' = TRUE /\ UNCHANGED <<g, rebind, held>>
  /\ UNCHANGED <<at, hover, input, clicks, fileVars>>

\* A mutant: while the menu is active the game keeps the buttons it had.
lynx_platform_poll_keeping ==
  /\ at = "poll"
  /\ input' = IF menu_overlay_is_active THEN input ELSE read_player(1)
  /\ at' = IF leave THEN "leaving" ELSE "present"
  /\ UNCHANGED <<g, rebind, hover, leave, held, clicks, fileVars>>

\* The queue is empty: the game's input is set, and the host goes on or leaves.
lynx_platform_poll ==
  /\ at = "poll"
  /\ input' = IF menu_overlay_is_active THEN {} ELSE read_player(1)
  /\ at' = IF leave THEN "leaving" ELSE "present"
  /\ UNCHANGED <<g, rebind, hover, leave, held, clicks, fileVars>>

\* The process is gone, and what it held in memory with it.
Gone ==
  /\ at' = "off"
  /\ g' = Defaults
  /\ rebind' = Idle /\ hover' = FALSE /\ leave' = FALSE
  /\ held' = {} /\ input' = {}

lynx_platform_shutdown ==
  /\ at = "leaving"
  /\ config_save
  /\ Gone
  /\ UNCHANGED clicks

\* The program is killed, perhaps in the middle of a save.
Crash ==
  /\ at # "off"
  /\ UNCHANGED fileVars \/ (at \in {"present", "leaving"} /\ cut_short)
  /\ Gone
  /\ UNCHANGED clicks

\* Somebody edits the file.
EditFile ==
  /\ at = "off" /\ ini # Empty
  /\ clicks < MaxClicks /\ clicks' = clicks + 1
  /\ \/ \E e \in Edit : ini' = [ini EXCEPT !.opt[e[1]] = e[2]]
     \/ \E e \in Rebound : ini' = [ini EXCEPT !.bind[e[1]] = e[2]]
  /\ kept' = Lost
  /\ UNCHANGED <<at, g, rebind, hover, leave, held, input, torn>>

FrontInit ==
  /\ at = "off"
  /\ g = Defaults
  /\ rebind = Idle /\ hover = FALSE /\ leave = FALSE
  /\ ini = Empty /\ kept = Lost /\ torn = FALSE
  /\ held = {} /\ input = {} /\ clicks = 0

Frame == lynx_platform_present \/ lynx_platform_poll

FrontNext ==
  \/ lynx_platform_init \/ Frame \/ Event \/ lynx_platform_shutdown
  \/ Crash \/ EditFile

-----------------------------------------------------------------------------
FrontTypeOK ==
  /\ at \in {"off", "present", "poll", "leaving"}
  /\ g \in Settings
  /\ ini \in File \cup {Empty}
  /\ kept \in Settings \cup {Lost} /\ torn \in BOOLEAN
  /\ rebind \in Binding \cup {Idle}
  /\ held \subseteq Devices
  /\ input \subseteq Button

\* How much a volume may change from one run to the next: to the nearest percent,
\* a half up.  A negative one, which an edit or a number typed into the slider
\* leaves, comes nearer to zero every time, by up to 14 thousandths.
Drift(v, now) ==
  /\ now % 10 = 0
  /\ now - v \in IF v >= 0 THEN -4 .. 5 ELSE 0 .. 14
  /\ v < 0 => now <= 0

\* A player finds the settings and bindings that were in use when the file was
\* last completed (menu_overlay.cpp:124-141), but for the volume's drift, whatever
\* was changed since without being saved, whenever the program was killed, and
\* though later saves could not open the file.  There are two exceptions.  After an
\* edit by hand nothing is claimed.  After a save that was cut short between the
\* truncation at line 125 and the write, by a kill or a full disk, the last
\* complete save is lost, and with it every setting: the program starts with the
\* defaults, never with a mixture.
SettingsSurvive ==
  [][lynx_platform_init =>
       /\ torn => g' = Defaults
       /\ ~torn /\ kept # Lost =>
            /\ g' = [kept EXCEPT !.opt.volume = g'.opt.volume]
            /\ Drift(kept.opt.volume, g'.opt.volume)]_frontVars

\* A button is not stuck and none is dead: while the program runs the game comes
\* to see a button as the player holds it, and as released while the menu has
\* the input.  It rests on the input's being worked out anew in every poll, from
\* what is held and bound then, and not from the events.
Running == at \in {"present", "poll"}
Wanted == IF menu_overlay_is_active THEN {} ELSE read_player(1)
InputFollowsThePlayer ==
  \A b \in Button :
    /\ Running /\ b \notin Wanted ~> (b \notin input \/ b \in Wanted \/ ~Running)
    /\ Running /\ b \in Wanted ~> (b \in input \/ b \notin Wanted \/ ~Running)

=============================================================================
