---------------------------- MODULE ConsoleProofs ----------------------------
(***************************************************************************)
(* For every setting of the bounds: what the parts that Console puts       *)
(* together compute and keep.                                              *)
(*                                                                         *)
(*   The player's side: scale, rotation and flags keep their ranges,       *)
(*   whatever the file was edited to, and a player finds the settings that *)
(*   were last saved, or the defaults when a save was cut short.           *)
(*   The cartridge port: a game reads the block it selected.               *)
(*   The sound channels: what is heard does not depend on how finely time  *)
(*   is sliced.                                                            *)
(*   The processor: the emitted code and the interpreter agree on every    *)
(*   instruction, and sums and differences are exact.                      *)
(*   Suzy: the math unit is exact, the blitter takes its pens from the     *)
(*   line and draws on the screen only.                                    *)
(*                                                                         *)
(* The last section puts the parts together.  ConsoleInv has one           *)
(* inductive invariant for each part; ConsoleMoves says that every step of *)
(* Console is a step of each of them, or leaves it alone.                  *)
(***************************************************************************)
EXTENDS Console, Iteration, FiniteSetTheorems

-----------------------------------------------------------------------------
(* The player's side.                                                      *)

FrontSpec == FrontInit /\ [][FrontNext]_frontVars

\* What the file holds is what was in use when it was written, or nothing.
Recorded ==
  /\ torn => ini = Empty
  /\ ~torn /\ kept # Lost => ini = written(kept)

\* The part of the invariant that is about the file.
Filed ==
  /\ ini \in File \cup {Empty} /\ kept \in Settings \cup {Lost} /\ torn \in BOOLEAN
  /\ Recorded

FrontInv == FrontTypeOK /\ Recorded

LEMMA DefaultsInRange == Defaults \in Settings
BY BindAssumption DEF Defaults, Settings

LEMMA WrittenInRange ==
  ASSUME NEW st \in Settings PROVE written(st) \in File
BY DEF written, percent, Settings, File

FileOptions == [scale : Int, rotate : Int, filter : Int, volume : Int, mute : Int]

\* config_load, given what it makes of the fields it changes.
Clamped(n) == IF n < 1 THEN 1 ELSE IF n > 8 THEN 8 ELSE n
Truth(n) == IF n # 0 THEN 1 ELSE 0
Taken(o) ==
  [scale |-> Clamped(o.scale), rotate |-> o.rotate % 4, filter |-> o.filter,
   volume |-> 10 * o.volume, mute |-> Truth(o.mute)]

LEMMA Replaced ==
  ASSUME NEW o \in FileOptions, NEW c, NEW r, NEW v, NEW m
  PROVE  [o EXCEPT !.rotate = r, !.volume = v, !.mute = m, !.scale = c]
           = [scale |-> c, rotate |-> r, filter |-> o.filter, volume |-> v, mute |-> m]
<1>. DEFINE Rec(x1, x2, x3, x4) == [scale |-> x1, rotate |-> x2, filter |-> o.filter, volume |-> x3, mute |-> x4]
<1>1. o = Rec(o.scale, o.rotate, o.volume, o.mute)
  BY DEF FileOptions
<1>2. [o EXCEPT !.rotate = r] = Rec(o.scale, r, o.volume, o.mute)
  BY <1>1
<1>3. [Rec(o.scale, r, o.volume, o.mute) EXCEPT !.volume = v] = Rec(o.scale, r, v, o.mute)
  OBVIOUS
<1>4. [Rec(o.scale, r, v, o.mute) EXCEPT !.mute = m] = Rec(o.scale, r, v, m)
  OBVIOUS
<1>5. [Rec(o.scale, r, v, m) EXCEPT !.scale = c] = Rec(c, r, v, m)
  OBVIOUS
<1>. HIDE DEF Rec
<1>6. [o EXCEPT !.rotate = r, !.volume = v, !.mute = m, !.scale = c]
        = [[[[o EXCEPT !.rotate = r] EXCEPT !.volume = v] EXCEPT !.mute = m] EXCEPT !.scale = c]
  OBVIOUS
<1>7. [o EXCEPT !.rotate = r, !.volume = v, !.mute = m, !.scale = c] = Rec(c, r, v, m)
  BY <1>2, <1>3, <1>4, <1>5, <1>6
<1>. QED BY <1>7 DEF Rec

LEMMA LoadedIs ==
  ASSUME NEW st, NEW file \in File, file # Empty
  PROVE  loaded(st, file) = [opt |-> Taken(file.opt), bind |-> file.bind]
<1>. DEFINE o == file.opt
            opt == [o EXCEPT !.rotate = o.rotate % 4, !.volume = 10 * o.volume,
                             !.mute = Truth(o.mute), !.scale = Clamped(o.scale)]
<1>1. o \in FileOptions
  BY DEF File, FileOptions
<1>2. opt = Taken(o)
  <2>. DEFINE Eq(c, r, v, m) ==
         [o EXCEPT !.rotate = r, !.volume = v, !.mute = m, !.scale = c]
           = [scale |-> c, rotate |-> r, filter |-> o.filter, volume |-> v, mute |-> m]
  <2>1. \A c, r, v, m : Eq(c, r, v, m)
    BY <1>1, Replaced, Zenon
  <2>2. Eq(Clamped(o.scale), o.rotate % 4, 10 * o.volume, Truth(o.mute))
    <3>. HIDE DEF Eq
    <3>. QED BY <2>1, Zenon
  <2>. QED BY <2>2, Zenon DEF Taken
<1>3. loaded(st, file) = [file EXCEPT !.opt = opt]
  BY DEF loaded, File, Clamped, Truth
<1>4. [file EXCEPT !.opt = opt] = [opt |-> opt, bind |-> file.bind]
  BY DEF File
<1>. QED BY <1>2, <1>3, <1>4

LEMMA LoadedInRange ==
  ASSUME NEW st \in Settings, NEW file \in File \cup {Empty}
  PROVE  loaded(st, file) \in Settings
<1>1. CASE file = Empty
  BY <1>1 DEF loaded
<1>2. CASE file # Empty
  <2>1. file.opt \in FileOptions /\ file.bind \in [Binding -> Int]
    BY <1>2 DEF File, FileOptions
  <2>2. /\ Clamped(file.opt.scale) \in 1 .. 8 /\ file.opt.rotate % 4 \in 0 .. 3
        /\ 10 * file.opt.volume \in Int /\ Truth(file.opt.mute) \in {0, 1}
    BY <2>1 DEF FileOptions, Clamped, Truth
  <2>3. Taken(file.opt) \in [scale : 1 .. 8, rotate : 0 .. 3, filter : Int, volume : Int, mute : {0, 1}]
    BY <2>1, <2>2 DEF Taken, FileOptions
  <2>. QED BY <1>2, <2>1, <2>3, LoadedIs DEF Settings
<1>. QED BY <1>1, <1>2

\* Reading back what was written changes the volume, and nothing else.
LEMMA ReadBack ==
  ASSUME NEW st \in Settings, NEW other
  PROVE  loaded(other, written(st)) = [st EXCEPT !.opt.volume = 10 * percent(@)]
<1>. DEFINE o == st.opt
            w == [o EXCEPT !.volume = percent(@)]
<1>1. /\ o \in [scale : 1 .. 8, rotate : 0 .. 3, filter : Int, volume : Int, mute : {0, 1}]
      /\ written(st) = [st EXCEPT !.opt = w] /\ percent(o.volume) \in Int
  BY DEF Settings, written, percent
<1>2. written(st) \in File /\ written(st) # Empty
  BY WrittenInRange, NoFileAssumption
<1>3. written(st).opt = w /\ written(st).bind = st.bind
  BY <1>1 DEF Settings
<1>4. Clamped(w.scale) = o.scale /\ w.rotate % 4 = o.rotate /\ Truth(w.mute) = o.mute
      /\ w.filter = o.filter /\ w.volume = percent(o.volume)
  <2>1. w.scale = o.scale /\ w.rotate = o.rotate /\ w.mute = o.mute /\ w.filter = o.filter
        /\ w.volume = percent(o.volume)
    BY <1>1
  <2>2. o.rotate % 4 = o.rotate /\ Clamped(o.scale) = o.scale /\ Truth(o.mute) = o.mute
    BY <1>1 DEF Clamped, Truth
  <2>. QED BY <2>1, <2>2
<1>5. Taken(w) = [o EXCEPT !.volume = 10 * percent(@)]
  BY <1>1, <1>4 DEF Taken
<1>6. loaded(other, written(st)) = [opt |-> Taken(w), bind |-> st.bind]
  BY <1>2, <1>3, LoadedIs
<1>. QED BY <1>5, <1>6 DEF Settings

\* The volume drifts by what half a percent added and a cast make of it.
LEMMA PercentDrifts ==
  ASSUME NEW v \in Int PROVE Drift(v, 10 * percent(v))
<1>1. CASE v >= -5
  <2>. PICK n \in Nat : n = v + 5
    BY <1>1
  <2>. PICK q \in Nat, r \in 0 .. 9 : n = 10 * q + r /\ q = n \div 10
    OBVIOUS
  <2>1. percent(v) = q
    BY <1>1 DEF percent
  <2>2. 10 * q - v = 5 - r /\ (v < 0 => q = 0)
    OBVIOUS
  <2>3. v < 0 => 10 * q - v \in 0 .. 14
    BY <2>2
  <2>4. 10 * q - v \in -4 .. 5 /\ (10 * q) % 10 = 0
    BY <2>2
  <2>. QED BY <2>1, <2>2, <2>3, <2>4 DEF Drift
<1>2. CASE v < -5
  <2>. PICK n \in Nat : n = -(v + 5)
    BY <1>2
  <2>. PICK q \in Nat, r \in 0 .. 9 : n = 10 * q + r /\ q = n \div 10
    OBVIOUS
  <2>1. percent(v) = -q
    BY <1>2 DEF percent
  <2>2. 10 * (-q) - v = r + 5 /\ 10 * (-q) <= 0 /\ (10 * (-q)) % 10 = 0
    OBVIOUS
  <2>. QED BY <1>2, <2>1, <2>2 DEF Drift
<1>. QED BY <1>1, <1>2

-----------------------------------------------------------------------------
LEMMA ChosenInRange ==
  ASSUME NEW st \in Settings, NEW c \in Choice
  PROVE  [st EXCEPT !.opt[c[1]] = c[2]] \in Settings
<1>. DEFINE Options == [scale : 1 .. 8, rotate : 0 .. 3, filter : Int, volume : Int, mute : {0, 1}]
            o == st.opt
<1>1. o \in Options
  BY DEF Settings
<1>2. [o EXCEPT ![c[1]] = c[2]] \in Options
  <2>1. CASE c[1] = "scale" /\ c[2] \in 1 .. 8
    BY <1>1, <2>1
  <2>2. CASE c[1] = "rotate" /\ c[2] \in 0 .. 3
    BY <1>1, <2>2
  <2>3. CASE c[1] = "filter" /\ c[2] \in Int
    BY <1>1, <2>3
  <2>4. CASE c[1] = "volume" /\ c[2] \in Int
    BY <1>1, <2>4
  <2>5. CASE c[1] = "mute" /\ c[2] \in {0, 1}
    BY <1>1, <2>5
  <2>. QED BY <2>1, <2>2, <2>3, <2>4, <2>5, ChoiceAssumption
<1>. QED BY <1>2 DEF Settings

LEMMA OptionEdited ==
  ASSUME NEW file \in File, NEW e \in Edit
  PROVE  [file EXCEPT !.opt[e[1]] = e[2]] \in File
<1>. DEFINE o == file.opt
<1>1. o \in FileOptions
  BY DEF File, FileOptions
<1>2. [o EXCEPT ![e[1]] = e[2]] \in FileOptions
  <2>1. CASE e[1] = "scale" /\ e[2] \in Int
    BY <1>1, <2>1 DEF FileOptions
  <2>2. CASE e[1] = "rotate" /\ e[2] \in Int
    BY <1>1, <2>2 DEF FileOptions
  <2>3. CASE e[1] = "filter" /\ e[2] \in Int
    BY <1>1, <2>3 DEF FileOptions
  <2>4. CASE e[1] = "volume" /\ e[2] \in Int
    BY <1>1, <2>4 DEF FileOptions
  <2>5. CASE e[1] = "mute" /\ e[2] \in Int
    BY <1>1, <2>5 DEF FileOptions
  <2>. QED BY <2>1, <2>2, <2>3, <2>4, <2>5, EditAssumption
<1>. QED BY <1>2 DEF File, FileOptions

LEMMA BindingEdited ==
  ASSUME NEW file \in File, NEW e \in Rebound
  PROVE  [file EXCEPT !.bind[e[1]] = e[2]] \in File
<1>1. e[2] \in Int
  BY EditAssumption
<1>. QED BY <1>1 DEF File

LEMMA BoundInRange ==
  ASSUME NEW st \in Settings, NEW k \in Int, NEW b
  PROVE  [st EXCEPT !.bind[b] = k] \in Settings
BY DEF Settings

LEMMA ResetInRange ==
  ASSUME g \in Settings, NEW p \in Player
  PROVE  reset_player(p) \in Settings
BY BindAssumption DEF reset_player, Settings

\* A save records what it writes, leaves the file alone, or empties it.
LEMMA CutInv == ASSUME Filed, cut_short PROVE Filed'
BY DEF Filed, Recorded, cut_short

LEMMA FileUntouched == ASSUME Filed, UNCHANGED fileVars PROVE Filed'
BY DEF Filed, Recorded, fileVars, written

LEMMA SaveInv == ASSUME g \in Settings, Filed, config_save PROVE Filed'
<1>1. CASE ini' = written(g) /\ kept' = g /\ torn' = FALSE
  <2>1. written(g) \in File
    BY WrittenInRange
  <2>2. written(kept)' = written(g)
    BY <1>1 DEF written
  <2>. QED BY <1>1, <2>1, <2>2 DEF Filed, Recorded
<1>. QED BY <1>1, CutInv, FileUntouched DEF config_save

\* The invariant in the pieces that the steps change, and put together again.
LEMMA FrontParts ==
  ASSUME FrontInv
  PROVE  /\ Filed /\ g \in Settings /\ rebind \in Binding \cup {Idle}
         /\ held \subseteq Devices /\ input \subseteq Button
BY DEF FrontInv, FrontTypeOK, Filed

LEMMA FrontWhole ==
  ASSUME Filed', at' \in {"off", "present", "poll", "leaving"}, g' \in Settings,
         rebind' \in Binding \cup {Idle}, held' \subseteq Devices, input' \subseteq Button
  PROVE  FrontInv'
<1>1. Binding' = Binding /\ Settings' = Settings /\ File' = File /\ Devices' = Devices
  BY DEF Binding, Settings, File, Devices
<1>. QED BY ONLY <1>1, Filed', at' \in {"off", "present", "poll", "leaving"}, g' \in Settings,
         rebind' \in Binding \cup {Idle}, held' \subseteq Devices, input' \subseteq Button
         DEF FrontInv, FrontTypeOK, Filed

LEMMA InitialInv == FrontInit => FrontInv
BY DefaultsInRange DEF FrontInit, FrontInv, FrontTypeOK, Recorded

LEMMA PresentInv == ASSUME FrontInv, lynx_platform_present PROVE FrontInv'
<1>1. Filed /\ g \in Settings /\ rebind \in Binding \cup {Idle} /\ held \subseteq Devices /\ input \subseteq Button
  BY FrontParts
<1>2. at' \in {"off", "present", "poll", "leaving"} /\ held' \subseteq Devices /\ input' \subseteq Button
  BY <1>1 DEF lynx_platform_present, Devices
<1>3. CASE MenuItem
  <2>1. CASE \E c \in Choice : g' = [g EXCEPT !.opt[c[1]] = c[2]] /\ UNCHANGED <<rebind, leave, fileVars>>
    <3>1. g' \in Settings /\ rebind' \in Binding \cup {Idle} /\ UNCHANGED fileVars
      BY <1>1, <2>1, ChosenInRange
    <3>. QED BY <1>1, <1>2, <3>1, FileUntouched, FrontWhole
  <2>2. CASE g' = Defaults /\ UNCHANGED <<rebind, leave, fileVars>>
    BY <1>1, <1>2, <2>2, DefaultsInRange, FileUntouched, FrontWhole
  <2>3. CASE config_save /\ UNCHANGED <<g, rebind, leave>>
    BY <1>1, <1>2, <2>3, SaveInv, FrontWhole
  <2>4. CASE config_load /\ UNCHANGED <<rebind, leave>>
    <3>1. g' \in Settings /\ UNCHANGED fileVars
      BY <1>1, <2>4, LoadedInRange DEF config_load, Filed
    <3>. QED BY <1>1, <1>2, <2>4, <3>1, FileUntouched, FrontWhole
  <2>5. CASE leave' = TRUE /\ UNCHANGED <<g, rebind, fileVars>>
    BY <1>1, <1>2, <2>5, FileUntouched, FrontWhole
  <2>. QED BY <1>3, <2>1, <2>2, <2>3, <2>4, <2>5 DEF MenuItem
<1>4. CASE ControllerItem
  <2>1. g' \in Settings /\ rebind' \in Binding \cup {Idle} /\ UNCHANGED fileVars
    BY <1>1, <1>4, ResetInRange DEF ControllerItem
  <2>. QED BY <1>1, <1>2, <2>1, FileUntouched, FrontWhole
<1>5. CASE UNCHANGED <<g, rebind, leave, clicks, fileVars>>
  BY <1>1, <1>2, <1>5, FileUntouched, FrontWhole
<1>. QED BY <1>3, <1>4, <1>5 DEF lynx_platform_present

LEMMA PressInv ==
  ASSUME FrontInv, NEW d, NEW k \in Int, <<d, k>> \in Devices, Press(d, k)
  PROVE  g' \in Settings /\ rebind' \in Binding \cup {Idle} /\ held' \subseteq Devices'
<1>1. g \in Settings /\ rebind \in Binding \cup {Idle} /\ held \subseteq Devices
  BY FrontParts
<1>2. held' \subseteq Devices'
  BY <1>1 DEF Press, Devices
<1>3. CASE g' = [g EXCEPT !.bind[rebind] = k] /\ rebind' = Idle
  <2>1. [g EXCEPT !.bind[rebind] = k] \in Settings
    BY <1>1, BoundInRange
  <2>. QED BY <1>2, <1>3, <2>1
<1>4. CASE UNCHANGED <<g, rebind>>
  BY <1>1, <1>2, <1>4
<1>. QED BY <1>3, <1>4 DEF Press

LEMMA EventInv == ASSUME FrontInv, Event PROVE FrontInv'
<1>1. Filed /\ g \in Settings /\ rebind \in Binding \cup {Idle} /\ held \subseteq Devices /\ input \subseteq Button
  BY FrontParts
<1>2. at' \in {"off", "present", "poll", "leaving"} /\ input' \subseteq Button /\ UNCHANGED fileVars
  BY <1>1 DEF Event
<1>3. g' \in Settings /\ rebind' \in Binding \cup {Idle} /\ held' \subseteq Devices
  <2>1. CASE \E k \in Key : Press("key", k)
    BY <2>1, PressInv, CodeAssumption DEF Devices
  <2>2. CASE \E k \in Pad : Press("pad", k)
    BY <2>2, PressInv, CodeAssumption DEF Devices
  <2>3. CASE \E h \in held : held' = held \ {h} /\ UNCHANGED <<g, rebind, leave>>
    BY <2>3, <1>1
  <2>4. CASE Escape
    BY <2>4, <1>1 DEF Escape, Devices
  <2>5. CASE leave' = TRUE /\ UNCHANGED <<g, rebind, held>>
    BY <2>5, <1>1
  <2>. QED BY <2>1, <2>2, <2>3, <2>4, <2>5 DEF Event
<1>. QED BY <1>1, <1>2, <1>3, FileUntouched, FrontWhole

LEMMA GoneInv == ASSUME Filed', Gone PROVE FrontInv'
<1>1. /\ at' \in {"off", "present", "poll", "leaving"} /\ g' \in Settings
      /\ rebind' \in Binding \cup {Idle} /\ held' \subseteq Devices /\ input' \subseteq Button
  BY DefaultsInRange DEF Gone
<1>. QED BY <1>1, FrontWhole

LEMMA NextInv == FrontInv /\ [FrontNext]_frontVars => FrontInv'
<1>. SUFFICES ASSUME FrontInv, [FrontNext]_frontVars PROVE FrontInv'
  OBVIOUS
<1>0. Filed /\ g \in Settings /\ rebind \in Binding \cup {Idle} /\ held \subseteq Devices /\ input \subseteq Button
  BY FrontParts
<1>1. CASE lynx_platform_init
  <2>1. g' \in Settings
    BY <1>0, <1>1, DefaultsInRange, LoadedInRange DEF lynx_platform_init, Filed
  <2>. QED BY <1>0, <1>1, <2>1, FileUntouched, FrontWhole DEF lynx_platform_init
<1>2. CASE lynx_platform_present
  BY <1>2, PresentInv
<1>3. CASE lynx_platform_poll
  BY <1>0, <1>3, FileUntouched, FrontWhole DEF lynx_platform_poll, read_player
<1>4. CASE Event
  BY <1>4, EventInv
<1>5. CASE lynx_platform_shutdown
  BY <1>0, <1>5, SaveInv, GoneInv DEF lynx_platform_shutdown
<1>6. CASE Crash
  BY <1>0, <1>6, CutInv, FileUntouched, GoneInv DEF Crash
<1>7. CASE EditFile
  <2>1. ini \in File /\ torn = FALSE /\ kept' = Lost /\ torn' = FALSE
    BY <1>0, <1>7 DEF EditFile, Filed, Recorded
  <2>2. ASSUME NEW e \in Edit, ini' = [ini EXCEPT !.opt[e[1]] = e[2]]
        PROVE  ini' \in File
    BY <2>1, <2>2, OptionEdited
  <2>3. ASSUME NEW e \in Rebound, ini' = [ini EXCEPT !.bind[e[1]] = e[2]]
        PROVE  ini' \in File
    BY <2>1, <2>3, BindingEdited
  <2>4. Filed'
    <3>1. ini' \in File
      BY <1>7, <2>2, <2>3 DEF EditFile
    <3>. QED BY <2>1, <3>1 DEF Filed, Recorded
  <2>. QED BY <1>0, <1>7, <2>4, FrontWhole DEF EditFile
<1>8. CASE UNCHANGED frontVars
  <2>1. UNCHANGED fileVars /\ UNCHANGED <<at, g, rebind, held, input>>
    BY <1>8 DEF frontVars
  <2>2. at \in {"off", "present", "poll", "leaving"}
    BY DEF FrontInv, FrontTypeOK
  <2>. QED BY <1>0, <2>1, <2>2, FileUntouched, FrontWhole
<1>. QED BY <1>1, <1>2, <1>3, <1>4, <1>5, <1>6, <1>7, <1>8 DEF FrontNext, Frame

LEMMA Invariant == FrontSpec => []FrontInv
<1>1. FrontInit => FrontInv
  BY InitialInv
<1>2. FrontInv /\ [FrontNext]_frontVars => FrontInv'
  BY NextInv
<1>. QED BY <1>1, <1>2, PTL DEF FrontSpec

\* The settings that are bounded anywhere: the window's scale, which quarter turn
\* the picture is drawn at, and the flags.
Bounded ==
  /\ g.opt.scale \in 1 .. 8
  /\ g.opt.rotate \in 0 .. 3
  /\ g.opt.mute \in {0, 1}

\* Scale, rotation and flags in use are ones that the menu offers, whatever numbers
\* an edit by hand put in any line of the file (menu_overlay.cpp:158-175 clamps or
\* reduces these).  Filter, volume and bindings are taken as they are (lines 160,
\* 164, 169 and 170), and nothing bounds them.
THEOREM SettingsInRange == FrontSpec => []Bounded
<1>1. FrontInv => Bounded
  BY DEF FrontInv, FrontTypeOK, Settings, Bounded
<1>. QED BY <1>1, Invariant, PTL

Found ==
  lynx_platform_init =>
    /\ torn => g' = Defaults
    /\ ~torn /\ kept # Lost =>
         /\ g' = [kept EXCEPT !.opt.volume = g'.opt.volume]
         /\ Drift(kept.opt.volume, g'.opt.volume)

LEMMA FoundAgain == FrontInv /\ [FrontNext]_frontVars => [Found]_frontVars
<1>. SUFFICES ASSUME FrontInv, lynx_platform_init PROVE Found
  BY DEF Found
<1>1. Filed /\ g' = loaded(Defaults, ini)
  BY FrontParts DEF lynx_platform_init
<1>2. CASE torn
  BY <1>1, <1>2 DEF Found, Filed, Recorded, loaded
<1>3. CASE ~torn /\ kept # Lost
  <2>1. kept \in Settings /\ ini = written(kept)
    BY <1>1, <1>3 DEF Filed, Recorded
  <2>. DEFINE v == kept.opt.volume
              w == 10 * percent(v)
  <2>2. g' = [kept EXCEPT !.opt.volume = w]
    BY <1>1, <2>1, ReadBack
  <2>3. g'.opt.volume = w /\ v \in Int
    BY <2>1, <2>2 DEF Settings
  <2>4. Drift(v, w)
    BY <2>3, PercentDrifts
  <2>. QED BY <1>3, <2>2, <2>3, <2>4 DEF Found
<1>. QED BY <1>2, <1>3 DEF Found

\* A program starts with the settings in use when the file was last completed, the
\* volume but for its drift, however it was killed since and although saves may
\* have failed to open the file, unless the file was edited by hand.  When a save
\* was cut short since, it starts with the defaults: that one kill, or full disk,
\* loses the last complete save.
THEOREM SettingsAlwaysSurvive == FrontSpec => SettingsSurvive
BY FoundAgain, Invariant, PTL DEF FrontSpec, SettingsSurvive, Found

-----------------------------------------------------------------------------
(* The cartridge port.                                                     *)

CartSpec == CartInit /\ [][CartNext]_cartVars

Blocks == 2 ^ BlockBits

(* With n bits of the block number still to come, the bits above them have *)
(* been shifted in, below whatever was selected before.                    *)
Fits(h, w, c, B) == \E j \in Int : c * h + (w % h) = w + j * B
Selected(n) == Fits(2 ^ n, wanted, cart_block, Blocks)

CartInv ==
  /\ cart_block \in 0 .. Blocks - 1 /\ wanted \in 0 .. Blocks - 1
  /\ iodat \in {0, 1} /\ nth \in Nat
  /\ \/ /\ loader \in {"data", "raise"} /\ strobe_prev = 0 /\ nth = 0
        /\ left \in 1 .. BlockBits /\ Selected(left)
        /\ loader = "raise" => iodat = (wanted \div (2 ^ (left - 1))) % 2
     \/ /\ loader = "lower" /\ strobe_prev = 1 /\ nth = 0 /\ cart_pos = 0
        /\ left \in 1 .. BlockBits /\ Selected(left - 1)
     \/ /\ loader = "read" /\ strobe_prev = 0 /\ cart_pos = nth
        /\ left = 0 /\ Selected(0)
        /\ nth > 0 => got = byte_at(wanted * pagesize + (nth - 1))

(* The powers of two, for the bits of a block number.                      *)
LEMMA BitPowers ==
  /\ Blocks \in Nat \ {0}
  /\ \A n \in 0 .. BlockBits : 2 ^ n \in Nat \ {0}
  /\ \A n \in 1 .. BlockBits : n - 1 \in 0 .. BlockBits /\ 2 ^ n = 2 * (2 ^ (n - 1))
<1>1. ASSUME NEW n \in 1 .. 8 PROVE 2 ^ n \in Nat \ {0} /\ 2 ^ n = 2 * (2 ^ (n - 1))
  <2> PICK k \in 0 .. 7 : k = n - 1 /\ n = k + 1
    BY n - 1 \in 0 .. 7
  <2>1. 2 ^ k \in Nat \ {0} /\ 2 ^ (k + 1) = 2 * (2 ^ k)
    BY Double
  <2>2. 2 ^ n \in Nat \ {0} /\ 2 ^ n = 2 * (2 ^ k)
    BY ONLY <2>1, n = k + 1
  <2> QED BY ONLY <2>2, k = n - 1
<1>2. BlockBits \in 1 .. 8
  BY CartAssumption
<1>3. 2 ^ 0 = 1
  OBVIOUS
<1>4. Blocks \in Nat \ {0}
  BY <1>1, <1>2 DEF Blocks
<1>5. ASSUME NEW n \in 0 .. BlockBits PROVE 2 ^ n \in Nat \ {0}
  <2>1. n = 0 \/ n \in 1 .. 8
    BY <1>2
  <2>2. CASE n = 0
    <3>1. 2 ^ n = 2 ^ 0
      BY <2>2
    <3> QED BY ONLY <1>3, <3>1
  <2> QED BY <1>1, <2>1, <2>2
<1>6. \A n \in 1 .. BlockBits : n - 1 \in 0 .. BlockBits /\ n \in 1 .. 8
  BY <1>2
<1> QED BY <1>1, <1>4, <1>5, <1>6

(* One more bit, the highest of those to come.                             *)
LEMMA Shifts ==
  ASSUME NEW h \in Nat \ {0}, NEW B \in Nat \ {0}, NEW w \in Nat, NEW c \in Nat,
         NEW gr, gr = 2 * h, Fits(gr, w, c, B),
         NEW b, b = (w \div h) % 2, NEW d, d = (2 * c + b) % B
  PROVE  d \in 0 .. B - 1 /\ Fits(h, w, d, B)
<1> PICK j \in Int : c * (2 * h) + (w % (2 * h)) = w + j * B
  BY DEF Fits
<1>0. 2 * h \in Nat \ {0}
  OBVIOUS
<1> PICK q \in Nat, r \in 0 .. h - 1 : w = h * q + r /\ q = w \div h /\ r = w % h
  <2>1. w = (w \div h) * h + (w % h) /\ w \div h \in Nat /\ w % h \in 0 .. h - 1
    BY Division
  <2>2. (w \div h) * h = h * (w \div h)
    BY ONLY <2>1, h \in Nat \ {0}
  <2> QED BY ONLY <2>1, <2>2
<1> PICK k \in Nat : q = 2 * k + b /\ b \in {0, 1}
  <2>1. q = 2 * (q \div 2) + (q % 2) /\ q \div 2 \in Nat /\ q % 2 \in {0, 1}
    BY ONLY q \in Nat
  <2> QED BY ONLY <2>1, b = (w \div h) % 2, q = w \div h
<1>1. w % (2 * h) = b * h + r
  <2> PICK H \in Nat \ {0} : H = 2 * h
    BY <1>0
  <2>1. w \div H \in Nat /\ w % H \in 0 .. H - 1 /\ w = (w \div H) * H + (w % H)
    BY ONLY Division, w \in Nat, H \in Nat \ {0}
  <2>2. b * h + r \in 0 .. H - 1
    <3>1. b * h = 0 \/ b * h = h
      <4>1. b = 0 => b * h = 0
        OBVIOUS
      <4>2. b = 1 => b * h = h
        OBVIOUS
      <4> QED BY ONLY <4>1, <4>2, b \in {0, 1}
    <3> PICK x : x = b * h
      OBVIOUS
    <3> QED BY ONLY <3>1, x = b * h, r \in 0 .. h - 1, h \in Nat \ {0}, H = 2 * h
  <2>3. w = k * H + (b * h + r)
    <3>1. h * (2 * k + b) = k * (2 * h) + b * h
      BY ONLY h \in Nat \ {0}, k \in Nat, b \in {0, 1}, b \in Nat
    <3>2. h * q = k * H + b * h
      BY ONLY <3>1, q = 2 * k + b, H = 2 * h
    <3>3. k * H \in Int /\ b * h \in Int /\ h * q \in Int
      OBVIOUS
    <3> QED BY ONLY <3>2, <3>3, w = h * q + r, r \in 0 .. h - 1, h \in Nat
  <2> PICK e \in Int, s \in Int, t \in Int : e = w \div H /\ s = w % H /\ t = b * h + r
    BY ONLY <2>1, <2>2, H \in Nat \ {0}
  <2>6. s \in 0 .. H - 1 /\ t \in 0 .. H - 1
    BY ONLY <2>1, <2>2, s = w % H, t = b * h + r
  <2>4. e * H + s = k * H + t
    BY ONLY <2>1, <2>3, e = w \div H, s = w % H, t = b * h + r, e \in Int, H \in Nat, s \in Int
  <2>5. s = t
    BY ONLY <2>4, <2>6, Quotient, H \in Nat \ {0}, e \in Int, k \in Int, k \in Nat
  <2> QED BY ONLY <2>5, s = w % H, t = b * h + r, H = 2 * h
<1>2. 2 * c + b \in Nat
  OBVIOUS
<1> PICK x \in Int : 2 * c + b = B * x + d /\ d \in 0 .. B - 1
  <2> PICK v \in Nat : v = 2 * c + b
    BY <1>2
  <2>1. v \div B \in Nat /\ v % B \in 0 .. B - 1 /\ v = (v \div B) * B + (v % B)
    BY ONLY Division, v \in Nat, B \in Nat \ {0}
  <2>2. (v \div B) * B = B * (v \div B)
    BY ONLY <2>1, B \in Nat \ {0}
  <2>3. d = v % B
    BY ONLY v = 2 * c + b, d = (2 * c + b) % B, Zenon
  <2>4. 2 * c + b = B * (v \div B) + d /\ d \in 0 .. B - 1 /\ v \div B \in Int
    BY ONLY <2>1, <2>2, <2>3, v = 2 * c + b
  <2> QED BY ONLY <2>4
<1>3. d * h + r = w + (j - x * h) * B
  <2>1. d = (2 * c + b) - B * x
    BY ONLY 2 * c + b = B * x + d, c \in Nat, b \in {0, 1}, B \in Nat, x \in Int, d \in 0 .. B - 1
  <2>2. d * h = ((2 * c + b) - B * x) * h
    BY ONLY <2>1
  <2>3. ((2 * c + b) - B * x) * h = c * (2 * h) + (b * h) - (x * h) * B
    OBVIOUS
  <2>4. c * (2 * h) + (b * h + r) = w + j * B
    BY <1>1
  <2>5. (j - x * h) * B = j * B - (x * h) * B
    OBVIOUS
  <2> PICK c2 \in Int, bh \in Int, xb \in Int, jb \in Int :
         c2 = c * (2 * h) /\ bh = b * h /\ xb = (x * h) * B /\ jb = j * B
    OBVIOUS
  <2>6. d * h = c2 + bh - xb /\ c2 + (bh + r) = w + jb /\ (j - x * h) * B = jb - xb
    BY ONLY <2>2, <2>3, <2>4, <2>5, c2 = c * (2 * h), bh = b * h, xb = (x * h) * B, jb = j * B
  <2> QED BY ONLY <2>6, c2 \in Int, bh \in Int, xb \in Int, jb \in Int, r \in 0 .. h - 1, h \in Nat, w \in Nat
<1>4. j - x * h \in Int
  OBVIOUS
<1>5. \E i \in Int : d * h + (w % h) = w + i * B
  BY ONLY <1>3, <1>4, r = w % h
<1> QED BY <1>5 DEF Fits

(* With no bits to come, the block is the one wanted.                      *)
LEMMA AllShifted ==
  ASSUME NEW B \in Nat \ {0}, NEW w \in 0 .. B - 1, NEW c \in 0 .. B - 1,
         NEW j \in Int, c * 1 + (w % 1) = w + j * B
  PROVE  c = w
<1>1. w % 1 = 0
  OBVIOUS
<1>2. 0 * B + c = j * B + w
  <2> PICK x \in Int : x = j * B
    OBVIOUS
  <2> QED BY <1>1
<1> QED BY <1>2, Quotient

LEMMA CartInvInit == CartInit => CartInv
<1> SUFFICES ASSUME CartInit PROVE CartInv
  OBVIOUS
<1>1. Blocks \in Nat \ {0} /\ 2 ^ BlockBits \in Nat \ {0} /\ BlockBits \in 1 .. BlockBits
  BY BitPowers, CartAssumption DEF Blocks
<1>2. Selected(BlockBits)
  <2>1. 0 * (2 ^ BlockBits) + (0 % (2 ^ BlockBits)) = 0 + 0 * Blocks
    BY <1>1
  <2>2. Fits(2 ^ BlockBits, 0, 0, Blocks)
    BY ONLY <2>1, 0 \in Int DEF Fits
  <2> QED BY <2>2 DEF Selected, CartInit
<1> QED BY <1>1, <1>2 DEF CartInit, CartInv

LEMMA CartInvStep == CartInv /\ [CartNext]_cartVars => CartInv'
<1> SUFFICES ASSUME CartInv, [CartNext]_cartVars PROVE CartInv'
  OBVIOUS
<1> USE DEF CartInv
<1>0. Blocks \in Nat \ {0}
  BY BitPowers
<1>1. CASE Want
  <2> USE DEF Want
  <2>1. wanted' \in 0 .. Blocks - 1
    BY <1>1 DEF Block, Blocks
  <2>2. Selected(BlockBits)'
    <3>1. wanted' % Blocks = wanted'
      <4>1. \A B \in Nat \ {0} : \A w \in 0 .. B - 1 : w % B = w
        BY Small
      <4> QED BY ONLY <4>1, <1>0, <2>1
    <3>2. cart_block' * Blocks + (wanted' % Blocks) = wanted' + cart_block' * Blocks
      BY ONLY <1>0, <1>1, <2>1, <3>1, CartInv
    <3>3. cart_block' \in Int
      BY <1>0, <1>1
    <3>4. Fits(Blocks, wanted', cart_block', Blocks)
      BY ONLY <3>2, <3>3 DEF Fits
    <3>5. Blocks' = Blocks
      BY DEF Blocks
    <3> QED BY ONLY <3>4, <3>5 DEF Selected, Blocks
  <2>3. BlockBits \in 1 .. BlockBits
    BY CartAssumption
  <2> QED BY <1>1, <2>1, <2>2, <2>3
<1>2. CASE PutBit
  <2>1. Selected(left)' <=> Selected(left)
    BY <1>2 DEF PutBit, write_IODAT, Selected
  <2>2. (wanted \div (2 ^ (left - 1))) % 2 \in {0, 1}
    <3>1. 2 ^ (left - 1) \in Nat \ {0} /\ wanted \in Nat
      BY <1>2, BitPowers DEF PutBit
    <3> QED BY <3>1
  <2> QED BY <1>2, <2>1, <2>2 DEF PutBit, write_IODAT
<1>3. CASE Raise
  <2>1. /\ left \in 1 .. BlockBits /\ iodat = (wanted \div (2 ^ (left - 1))) % 2
        /\ strobe_prev = 0 /\ Selected(left) /\ nth = 0
    BY <1>3 DEF Raise
  <2>2. /\ cart_block' = (2 * cart_block + iodat) % Blocks /\ cart_pos' = 0
        /\ strobe_prev' = 1 /\ loader' = "lower" /\ UNCHANGED <<wanted, left, nth, iodat>>
    BY <1>3, <2>1 DEF Raise, write_SYSCTL1, Blocks
  <2>3. /\ 2 ^ (left - 1) \in Nat \ {0} /\ 2 ^ left = 2 * (2 ^ (left - 1))
        /\ Fits(2 ^ left, wanted, cart_block, Blocks)
    BY <2>1, BitPowers DEF Selected
  <2>4. wanted \in Nat /\ cart_block \in Nat
    BY <1>0
  <2>5. cart_block' \in 0 .. Blocks - 1 /\ Fits(2 ^ (left - 1), wanted, cart_block', Blocks)
    BY ONLY <1>0, <2>1, <2>2, <2>3, <2>4, Shifts
  <2>6. Selected(left - 1)'
    BY <2>2, <2>5 DEF Selected
  <2> QED BY <2>1, <2>2, <2>5, <2>6
<1>4. CASE Lower
  <2>1. /\ left \in 1 .. BlockBits /\ strobe_prev = 1 /\ nth = 0 /\ cart_pos = 0 /\ Selected(left - 1)
        /\ UNCHANGED <<wanted, nth, cart_block, cart_pos, iodat, got>>
        /\ \/ strobe_prev' = 0 /\ left' = left - 1 /\ loader' = IF left = 1 THEN "read" ELSE "data"
           \/ strobe_prev' = 1 /\ UNCHANGED <<left, loader>>
    BY <1>4 DEF Lower, write_SYSCTL1
  <2>2. loader = "lower"
    BY <1>4 DEF Lower
  <2>3. CASE strobe_prev' = 0 /\ left' = left - 1 /\ loader' = IF left = 1 THEN "read" ELSE "data"
    <3>1. Selected(left)'
      BY <2>1, <2>3 DEF Selected
    <3>2. CASE left = 1
      <4>1. left' = 0 /\ loader' = "read"
        BY <2>3, <3>2
      <4>2. Selected(0)'
        BY <3>1, <4>1
      <4> QED BY <2>1, <2>3, <4>1, <4>2
    <3>3. CASE left # 1
      <4>1. left' \in 1 .. BlockBits /\ loader' = "data"
        BY <2>1, <2>3, <3>3, CartAssumption
      <4> QED BY <2>1, <2>3, <3>1, <4>1
    <3> QED BY <3>2, <3>3
  <2>4. CASE strobe_prev' = 1 /\ UNCHANGED <<left, loader>>
    <3>1. Selected(left - 1)'
      BY <2>1, <2>4 DEF Selected
    <3> QED BY <2>1, <2>2, <2>4, <3>1
  <2> QED BY <2>1, <2>3, <2>4
<1>5. CASE Read
  <2>1. /\ loader = "read" /\ left = 0 /\ cart_pos = nth /\ strobe_prev = 0 /\ Selected(0)
        /\ got' = byte_at(cart_block * pagesize + cart_pos) /\ cart_pos' = cart_pos + 1
        /\ nth' = nth + 1
        /\ UNCHANGED <<wanted, left, loader, cart_block, iodat, strobe_prev>>
    BY <1>5 DEF Read, cart_read
  <2>2. cart_block = wanted
    <3>1. PICK j \in Int : cart_block * (2 ^ 0) + (wanted % (2 ^ 0)) = wanted + j * Blocks
      BY <2>1 DEF Selected, Fits
    <3>2. 2 ^ 0 = 1
      OBVIOUS
    <3>3. cart_block * 1 + (wanted % 1) = wanted + j * Blocks
      BY ONLY <3>1, <3>2
    <3> QED BY <1>0, <3>3, AllShifted
  <2>3. nth' - 1 = nth /\ nth' \in Nat /\ cart_pos' = nth'
    BY <2>1
  <2>4. got' = byte_at(wanted * pagesize + (nth' - 1))
    BY ONLY <2>1, <2>2, <2>3
  <2>5. Selected(0)'
    BY <2>1 DEF Selected
  <2> QED BY <2>1, <2>3, <2>4, <2>5 DEF byte_at, cart
<1>6. CASE UNCHANGED cartVars
  BY <1>6 DEF cartVars, Selected, byte_at, cart
<1> QED BY <1>1, <1>2, <1>3, <1>4, <1>5, <1>6 DEF CartNext

(* The loader reads the block it asked for, from its first byte on.        *)
THEOREM CartAlwaysReadsBack == CartSpec => []CartReadsBack
<1>1. CartInv => CartReadsBack
  BY DEF CartInv, CartReadsBack
<1> QED BY <1>1, CartInvInit, CartInvStep, PTL DEF CartSpec

-----------------------------------------------------------------------------
(* The sound channels.                                                     *)

(* What is written: the registers of Writes, and the one that the memory's *)
(* window reaches.                                                         *)
Written == Writes \cup ({"dac"} \X (0 .. 255))
WriteByte == \E c \in Channel, w \in Written : write_channel(c, w[1], w[2])

AudioNext == WriteByte \/ \E us \in Us : lynx_audio_step(us)

AudioSpec == lynx_audio_init /\ [][AudioNext]_audioVars

Sounds == [reg : Register, ch : States]

AudioInv == areg \in [Channel -> Register] /\ ch \in [Channel -> States]

LEMMA Taps ==
  ASSUME NEW S, S \subseteq 0 .. 8
  PROVE  Cardinality(S) \in Nat
<1>1. 0 \in Int /\ 8 \in Int
  OBVIOUS
<1>2. IsFiniteSet(0 .. 8)
  BY ONLY <1>1, FS_Interval
<1>3. IsFiniteSet(S)
  BY ONLY <1>2, S \subseteq 0 .. 8, FS_Subset
<1> QED BY ONLY <1>3, FS_CardinalityType

LEMMA ShiftType ==
  ASSUME NEW reg, reg.feedback \subseteq 1 .. 8, NEW l \in ShiftValues
  PROVE  Shifted(reg, l) \in ShiftValues
<1> DEFINE closed == (IF reg.ctl.feedback7 THEN {0} ELSE {}) \cup reg.feedback
           ones   == {s \in closed : BitOf(l, tap[s + 1]) = 1}
<1>1. ones \subseteq 0 .. 8
  <2>1. closed \subseteq 0 .. 8
    OBVIOUS
  <2> QED BY <2>1
<1>2. Shifted(reg, l) = (l * 2 + 1 - (Cardinality(ones) % 2)) % 4096
  BY DEF Shifted
<1> HIDE DEF ones
<1> PICK S, n : S = ones /\ n = Cardinality(S)
  OBVIOUS
<1>3. n \in Nat
  BY ONLY <1>1, S = ones, n = Cardinality(S), Taps
<1>4. Shifted(reg, l) = (l * 2 + 1 - (n % 2)) % 4096
  BY ONLY <1>2, S = ones, n = Cardinality(S)
<1> PICK k : k = l * 2 + 1 - (n % 2)
  OBVIOUS
<1>5. k \in Int
  <2>1. n % 2 \in Int
    BY ONLY <1>3
  <2>2. l \in Int
    BY ONLY l \in ShiftValues DEF ShiftValues
  <2> QED BY ONLY <2>1, <2>2, k = l * 2 + 1 - (n % 2)
<1>6. k % 4096 \in ShiftValues
  BY ONLY <1>5 DEF ShiftValues
<1>7. Shifted(reg, l) = k % 4096
  BY ONLY <1>4, k = l * 2 + 1 - (n % 2)
<1> QED BY ONLY <1>6, <1>7

(* What the generator puts out, and one count of a channel, field by field. *)
Wave(r, l) == IF Shifted(r, l) % 2 = 1 THEN r.volume ELSE - r.volume
Output(r, l, d) ==
  IF ~r.ctl.integrate THEN Wave(r, l)
  ELSE IF d + Wave(r, l) > 127 THEN 127
  ELSE IF d + Wave(r, l) < -128 THEN -128 ELSE d + Wave(r, l)

LEMMA OutputType ==
  ASSUME NEW r, r.volume \in -128 .. 127, NEW l, NEW d \in Outputs
  PROVE  Output(r, l, d) \in Outputs /\ Output(r, l, d) % 256 \in 0 .. 255
<1>0. d \in -128 .. 128
  BY DEF Outputs
<1>1. Wave(r, l) \in -128 .. 128
  <2> PICK v \in -128 .. 127 : v = r.volume
    OBVIOUS
  <2>1. Wave(r, l) = v \/ Wave(r, l) = - v
    BY ONLY v = r.volume DEF Wave
  <2> QED BY ONLY <2>1, v \in -128 .. 127
<1> PICK w \in -128 .. 128 : w = Wave(r, l)
  BY <1>1
<1>2. Output(r, l, d) \in {w, 127, -128, d + w}
  BY ONLY w = Wave(r, l) DEF Output
<1>3. Output(r, l, d) \in -128 .. 128
  <2> PICK o, gr : o = Output(r, l, d) /\ gr = r.ctl.integrate
    OBVIOUS
  <2>1. o = IF ~gr THEN w ELSE IF d + w > 127 THEN 127 ELSE IF d + w < -128 THEN -128 ELSE d + w
    BY ONLY w = Wave(r, l), o = Output(r, l, d), gr = r.ctl.integrate DEF Output
  <2>2. o \in -128 .. 128
    BY ONLY <2>1, w \in -128 .. 128, <1>0
  <2> QED BY ONLY <2>2, o = Output(r, l, d)
<1>4. \A o \in Int : o % 256 \in 0 .. 255
  OBVIOUS
<1>5. Output(r, l, d) \in Int
  BY ONLY <1>3
<1>6. Output(r, l, d) \in Outputs
  BY ONLY <1>3 DEF Outputs
<1>7. Output(r, l, d) % 256 \in 0 .. 255
  BY ONLY <1>4, <1>5
<1> QED BY ONLY <1>6, <1>7

(* A register set to a value it can hold is a register.                    *)
LEMMA RegisterFields ==
  ASSUME NEW r \in Register
  PROVE  /\ \A v \in 0 .. MaxCount : [r EXCEPT !.count = v] \in Register /\ [r EXCEPT !.count = v].ctl = r.ctl
         /\ \A v \in 0 .. 255 : [r EXCEPT !.dac = v] \in Register /\ [r EXCEPT !.dac = v].ctl = r.ctl
         /\ r.volume \in -128 .. 127 /\ r.feedback \subseteq 1 .. 8
         /\ r.count \in 0 .. MaxCount /\ r.reload \in 0 .. MaxCount
<1>1. /\ r.volume \in -128 .. 127 /\ r.feedback \subseteq 1 .. 8
      /\ r.count \in 0 .. MaxCount /\ r.reload \in 0 .. MaxCount
  BY DEF Register
<1>2. ASSUME NEW v \in 0 .. MaxCount
      PROVE  [r EXCEPT !.count = v] \in Register
  BY DEF Register
<1>3. ASSUME NEW v \in 0 .. 255
      PROVE  [r EXCEPT !.dac = v] \in Register
  BY DEF Register
<1>4. \A v : [r EXCEPT !.count = v].ctl = r.ctl
  BY DEF Register
<1>5. \A v : [r EXCEPT !.dac = v].ctl = r.ctl
  BY DEF Register
<1> QED BY <1>1, <1>2, <1>3, <1>4, <1>5

StateSet(c, l, d, z) ==
  z \in States /\ z.lfsr = l /\ z.dac = d /\ z.phase = c.phase

LEMMA StateFields ==
  ASSUME NEW c \in States, NEW l \in ShiftValues, NEW d \in Outputs
  PROVE  StateSet(c, l, d, [c EXCEPT !.lfsr = l, !.dac = d])
BY DEF StateSet, States

(* y is x after a clock of its generator.                                  *)
Clocked(r, c, y) ==
  /\ y \in Sounds /\ y.reg.ctl = r.ctl /\ y.ch.phase = c.phase
  /\ y.reg = [r EXCEPT !.dac = Output(r, c.lfsr, c.dac) % 256]
  /\ y.ch.lfsr = Shifted(r, c.lfsr) /\ y.ch.dac = Output(r, c.lfsr, c.dac)

LEMMA ClockFields ==
  ASSUME NEW r \in Register, NEW c \in States
  PROVE  Clocked(r, c, clock_lfsr([reg |-> r, ch |-> c]))
<1> PICK y, S, O : /\ y = clock_lfsr([reg |-> r, ch |-> c])
                   /\ S = Shifted(r, c.lfsr)
                   /\ O = Output(r, c.lfsr, c.dac)
  OBVIOUS
<1>0. /\ r.volume \in -128 .. 127 /\ r.feedback \subseteq 1 .. 8
      /\ c.lfsr \in ShiftValues /\ c.dac \in Outputs
  BY DEF Register, States
<1>1. S \in ShiftValues
  BY <1>0, ShiftType
<1>2. O \in Outputs /\ O % 256 \in 0 .. 255
  BY <1>0, OutputType
<1>3. y = [reg |-> [r EXCEPT !.dac = O % 256], ch |-> [c EXCEPT !.lfsr = S, !.dac = O]]
  BY DEF clock_lfsr, Output, Wave
<1>4. /\ [r EXCEPT !.dac = O % 256] \in Register /\ [r EXCEPT !.dac = O % 256].ctl = r.ctl
  BY <1>2, RegisterFields
<1>5. StateSet(c, S, O, [c EXCEPT !.lfsr = S, !.dac = O])
  BY <1>1, <1>2, StateFields
<1>6. PICK z : /\ z = [c EXCEPT !.lfsr = S, !.dac = O]
               /\ y = [reg |-> [r EXCEPT !.dac = O % 256], ch |-> z]
  BY ONLY <1>3
<1>7. z \in States /\ z.phase = c.phase /\ z.lfsr = S /\ z.dac = O
  BY ONLY <1>5, <1>6 DEF StateSet
<1>8. y \in Sounds /\ y.reg = [r EXCEPT !.dac = O % 256] /\ y.ch = z
  BY ONLY <1>4, <1>6, <1>7 DEF Sounds
<1>9. /\ y.reg.ctl = r.ctl /\ y.ch.phase = c.phase /\ y.ch.lfsr = S /\ y.ch.dac = O
  BY ONLY <1>4, <1>7, <1>8
<1> QED BY <1>8, <1>9 DEF Clocked

(* A count of x leaves the registers of y, and the state of y but for the  *)
(* phase, whatever the phase was.                                          *)
Counted(x, y) ==
  /\ y \in Sounds
  /\ y.ch.phase = x.ch.phase /\ y.reg.ctl = x.reg.ctl
  /\ \A v \in Sounds : v.reg = x.reg /\ v.ch.lfsr = x.ch.lfsr /\ v.ch.dac = x.ch.dac =>
       /\ counted(v).reg = y.reg
       /\ counted(v).ch.lfsr = y.ch.lfsr /\ counted(v).ch.dac = y.ch.dac

LEMMA CountedFields ==
  ASSUME NEW x \in Sounds
  PROVE  Counted(x, counted(x))
<1>0. /\ x = [reg |-> x.reg, ch |-> x.ch] /\ x.reg \in Register /\ x.ch \in States
  BY DEF Sounds
<1>00. x.reg.count \in 0 .. MaxCount /\ x.reg.reload \in 0 .. MaxCount
  BY <1>0, RegisterFields
<1> DEFINE n == IF x.reg.ctl.reload THEN x.reg.reload ELSE x.reg.count
           r == [x.reg EXCEPT !.count = n]
<1>1. r \in Register /\ r.ctl = x.reg.ctl
  <2>1. n \in 0 .. MaxCount
    BY <1>00
  <2> HIDE DEF n
  <2> QED BY <1>0, <2>1, RegisterFields
<1>2. CASE x.reg.count = 0
  <2>1. \A v \in Sounds : v.reg = x.reg => counted(v) = clock_lfsr([reg |-> r, ch |-> v.ch])
    <3> TAKE v \in Sounds
    <3> HAVE v.reg = x.reg
    <3>1. v = [reg |-> x.reg, ch |-> v.ch]
      BY DEF Sounds
    <3>2. counted(v) = clock_lfsr([v EXCEPT !.reg.count = IF v.reg.ctl.reload THEN v.reg.reload ELSE @])
      BY <1>2 DEF counted
    <3>3. [v EXCEPT !.reg.count = IF v.reg.ctl.reload THEN v.reg.reload ELSE @] = [reg |-> r, ch |-> v.ch]
      BY <3>1
    <3> QED BY <3>2, <3>3
  <2>2. \A v \in Sounds : v.reg = x.reg => Clocked(r, v.ch, counted(v))
    <3> TAKE v \in Sounds
    <3> HAVE v.reg = x.reg
    <3>1. v.ch \in States
      BY DEF Sounds
    <3>2. counted(v) = clock_lfsr([reg |-> r, ch |-> v.ch])
      BY <2>1
    <3> HIDE DEF r
    <3>3. Clocked(r, v.ch, clock_lfsr([reg |-> r, ch |-> v.ch]))
      BY ONLY <1>1, <3>1, ClockFields
    <3> QED BY ONLY <3>2, <3>3
  <2> HIDE DEF r
  <2>3. Clocked(r, x.ch, counted(x))
    BY <2>2
  <2>4. ASSUME NEW v \in Sounds, v.reg = x.reg, v.ch.lfsr = x.ch.lfsr, v.ch.dac = x.ch.dac
        PROVE  /\ counted(v).reg = counted(x).reg
               /\ counted(v).ch.lfsr = counted(x).ch.lfsr /\ counted(v).ch.dac = counted(x).ch.dac
    <3>1. Clocked(r, v.ch, counted(v))
      BY <2>2, <2>4
    <3> QED BY ONLY <2>3, <2>4, <3>1 DEF Clocked
  <2>5. counted(x) \in Sounds /\ counted(x).ch.phase = x.ch.phase /\ counted(x).reg.ctl = x.reg.ctl
    BY ONLY <2>3, <1>1 DEF Clocked
  <2> QED BY ONLY <2>4, <2>5 DEF Counted
<1>3. CASE x.reg.count # 0
  <2>1. \A v \in Sounds : v.reg = x.reg =>
          counted(v) = [reg |-> [x.reg EXCEPT !.count = x.reg.count - 1], ch |-> v.ch]
    <3> TAKE v \in Sounds
    <3> HAVE v.reg = x.reg
    <3>1. v = [reg |-> x.reg, ch |-> v.ch]
      BY DEF Sounds
    <3>2. counted(v) = [v EXCEPT !.reg.count = @ - 1]
      BY <1>3 DEF counted
    <3> QED BY <3>1, <3>2
  <2>2. x.reg.count - 1 \in 0 .. MaxCount
    BY <1>00, <1>3, AudioAssumption
  <2>3. [x.reg EXCEPT !.count = x.reg.count - 1] \in Register /\ [x.reg EXCEPT !.count = x.reg.count - 1].ctl = x.reg.ctl
    BY <1>0, <2>2, RegisterFields
  <2>4. counted(x) \in Sounds /\ counted(x).ch = x.ch /\ counted(x).reg.ctl = x.reg.ctl
        /\ counted(x).reg = [x.reg EXCEPT !.count = x.reg.count - 1]
    <3> PICK q : q = [x.reg EXCEPT !.count = x.reg.count - 1]
      OBVIOUS
    <3>1. counted(x) = [reg |-> q, ch |-> x.ch]
      BY <2>1
    <3>2. q \in Register /\ q.ctl = x.reg.ctl
      BY ONLY <2>3, q = [x.reg EXCEPT !.count = x.reg.count - 1]
    <3>3. counted(x) \in Sounds /\ counted(x).ch = x.ch /\ counted(x).reg = q
      BY ONLY <1>0, <3>1, <3>2 DEF Sounds
    <3> QED BY ONLY <3>2, <3>3, q = [x.reg EXCEPT !.count = x.reg.count - 1]
  <2>5. \A v \in Sounds : v.reg = x.reg =>
          counted(v).ch = v.ch /\ counted(v).reg = [x.reg EXCEPT !.count = x.reg.count - 1]
    BY <2>1
  <2> QED BY ONLY <2>4, <2>5 DEF Counted
<1> QED BY <1>2, <1>3

(* What a channel does in us microseconds is a run of counts.              *)
Counter == [x \in Sounds |-> counted(x)]
Plays(x) == x.reg.ctl.count /\ x.reg.ctl.clock # 7
PeriodOf(x) == 2 ^ x.reg.ctl.clock
Times(x, us) == (x.ch.phase + us) \div PeriodOf(x)
Left(x, us) == (x.ch.phase + us) % PeriodOf(x)

LEMMA CounterType ==
  /\ Counter \in [Sounds -> Sounds]
  /\ \A x \in Sounds : Counter[x] = counted(x) /\ Counted(x, Counter[x])
<1>1. \A x \in Sounds : counted(x) \in Sounds /\ Counted(x, counted(x))
  BY CountedFields DEF Counted
<1> QED BY <1>1 DEF Counter

LEMMA Parts ==
  ASSUME NEW x \in Sounds, NEW us \in Nat, Plays(x)
  PROVE  /\ PeriodOf(x) \in Powers
         /\ Times(x, us) \in Nat
         /\ Left(x, us) \in 0 .. PeriodOf(x) - 1
         /\ x.ch.phase + us = (Times(x, us) * PeriodOf(x)) + Left(x, us)
<1>1. x.reg.ctl.clock \in 0 .. 6
  BY DEF Plays, Sounds, Register, ControlByte
<1>2. PeriodOf(x) \in Powers
  BY <1>1, Power DEF PeriodOf
<1>3. x.ch.phase + us \in Nat
  BY DEF Sounds, States, Phases
<1> PICK t \in Nat, p \in Powers : t = x.ch.phase + us /\ p = PeriodOf(x)
  BY <1>2, <1>3
<1>4. t \div p \in Nat /\ t % p \in 0 .. p - 1 /\ t = (t \div p) * p + (t % p)
  BY Divides
<1> QED BY ONLY <1>2, <1>4, t = x.ch.phase + us, p = PeriodOf(x), Zenon DEF Times, Left

LEMMA LeftPhase ==
  ASSUME NEW x \in Sounds, NEW us \in Nat, Plays(x)
  PROVE  Left(x, us) \in Phases
<1>1. /\ Left(x, us) \in 0 .. PeriodOf(x) - 1
      /\ PeriodOf(x) \in {1, 2, 4, 8, 16, 32, 64}
  BY Parts DEF Powers
<1> QED BY ONLY <1>1 DEF Phases

(* A channel with its phase set.                                           *)
Phased(x, p) == [x EXCEPT !.ch.phase = p]

LEMMA PhasedFields ==
  ASSUME NEW x \in Sounds, NEW p \in Phases
  PROVE  /\ Phased(x, p) \in Sounds /\ Phased(x, p).reg = x.reg /\ Phased(x, p).ch.phase = p
         /\ Phased(x, p).ch.lfsr = x.ch.lfsr /\ Phased(x, p).ch.dac = x.ch.dac
<1> PICK c : c = [x.ch EXCEPT !.phase = p]
  OBVIOUS
<1>1. x.reg \in Register /\ x.ch \in States /\ x = [reg |-> x.reg, ch |-> x.ch]
  BY DEF Sounds
<1>2. c \in States
  BY <1>1 DEF States
<1>3. c.phase = p /\ c.lfsr = x.ch.lfsr /\ c.dac = x.ch.dac
  BY <1>1 DEF States
<1>4. Phased(x, p) = [reg |-> x.reg, ch |-> c]
  BY <1>1 DEF Phased
<1> QED BY ONLY <1>1, <1>2, <1>3, <1>4 DEF Sounds

LEMMA SteppedRun ==
  ASSUME NEW x \in Sounds, NEW us \in Nat, Plays(x)
  PROVE  \E gr : /\ Run(gr, Counter, x, Times(x, us))
                 /\ stepped(x, us) = Phased(gr[Times(x, us)], Left(x, us))
<1> DEFINE N == Times(x, us)
           F == Counter
           IsAfter(gr) == gr = [k \in 0 .. N |-> IF k = 0 THEN x ELSE counted(gr[k - 1])]
           after == CHOOSE gr : IsAfter(gr)
<1>1. N \in Nat /\ F \in [Sounds -> Sounds]
  BY Parts, CounterType
<1>2. \A y \in Sounds : F[y] = counted(y)
  BY CounterType
<1>3. stepped(x, us) = Phased(after[N], Left(x, us))
  BY DEF stepped, Plays, Times, PeriodOf, Left, Phased
<1> HIDE DEF N, F
<1>4. \E gr : IsAfter(gr)
  <2>1. PICK gr : Run(gr, F, x, N)
    BY <1>1, RunExists
  <2>2. \A k \in 0 .. N : gr[k] \in Sounds
    BY <1>1, <2>1, RunStays
  <2>3. \A k \in 0 .. N : k # 0 => F[gr[k - 1]] = counted(gr[k - 1])
    BY <1>1, <1>2, <2>2
  <2>4. IsAfter(gr)
    BY <2>1, <2>3 DEF Run
  <2> QED BY <2>4
<1>5. IsAfter(after)
  BY <1>4
<1> HIDE DEF after
<1>6. Loop(after, F, Sounds, x, N)
  <2>1. \A k \in 0 .. N : after[k] = IF k = 0 THEN x ELSE counted(after[k - 1])
    BY <1>5
  <2>2. after = [k \in 0 .. N |-> after[k]]
    BY <1>5
  <2>3. after[0] = x
    BY <1>1, <2>1
  <2>4. \A k \in 0 .. N - 1 : after[k + 1] = counted(after[k])
    BY <1>1, <2>1
  <2> QED BY <2>2, <2>3, <2>4, <1>2 DEF Loop
<1>7. Run(after, F, x, N)
  BY <1>1, <1>6, LoopRuns
<1> QED BY <1>3, <1>7 DEF N, F

(* A run of counts leaves the phase and the control byte.                  *)
LEMMA CountsKeep ==
  ASSUME NEW x \in Sounds, NEW N \in Nat, NEW gr, Run(gr, Counter, x, N)
  PROVE  \A k \in 0 .. N : gr[k] \in Sounds /\ gr[k].ch.phase = x.ch.phase /\ gr[k].reg.ctl = x.reg.ctl
<1> DEFINE S == {y \in Sounds : y.ch.phase = x.ch.phase /\ y.reg.ctl = x.reg.ctl}
<1>1. x \in S
  OBVIOUS
<1>2. ASSUME NEW y \in S PROVE Counter[y] \in S
  <2> PICK z : z = Counter[y]
    OBVIOUS
  <2>1. Counted(y, z)
    BY CounterType
  <2> QED BY <2>1 DEF Counted
<1> HIDE DEF S
<1>3. \A k \in 0 .. N : gr[k] \in S
  BY <1>1, <1>2, RunStays
<1> QED BY <1>3 DEF S

(* Runs from channels that differ in their phases differ in nothing else.  *)
SameSound(x, y) == x.reg = y.reg /\ x.ch.lfsr = y.ch.lfsr /\ x.ch.dac = y.ch.dac

LEMMA CountsSame ==
  ASSUME NEW x \in Sounds, NEW y \in Sounds, SameSound(x, y), NEW N \in Nat,
         NEW gr, Run(gr, Counter, x, N), NEW h, Run(h, Counter, y, N)
  PROVE  SameSound(gr[N], h[N])
<1> DEFINE T == {k \in Nat : k <= N => SameSound(gr[k], h[k])}
<1>0. Rounds(gr, Counter, x, N) /\ Rounds(h, Counter, y, N)
  BY RunRounds
<1>1. 0 \in T
  BY <1>0 DEF Rounds
<1>2. ASSUME NEW k \in Nat, k \in T PROVE k + 1 \in T
  <2> SUFFICES ASSUME k + 1 <= N PROVE SameSound(gr[k + 1], h[k + 1])
    OBVIOUS
  <2>1. k \in 0 .. N - 1 /\ k \in 0 .. N /\ SameSound(gr[k], h[k])
    BY <1>2
  <2>2. PICK v \in Sounds, w \in Sounds : v = gr[k] /\ w = h[k]
    BY <2>1, CountsKeep
  <2>3. gr[k + 1] = counted(v) /\ h[k + 1] = counted(w)
    BY <1>0, <2>1, <2>2, CounterType DEF Rounds
  <2>4. Counted(w, counted(w))
    BY CountedFields
  <2> QED BY ONLY <2>1, <2>2, <2>3, <2>4 DEF Counted, SameSound
<1> HIDE DEF T
<1>3. \A k \in Nat : k \in T
  BY ONLY <1>1, <1>2, Induction
<1> QED BY <1>3 DEF T

LEMMA PhasedSame ==
  ASSUME NEW x \in Sounds, NEW y \in Sounds, SameSound(x, y), NEW p \in Phases
  PROVE  Phased(x, p) = Phased(y, p)
<1> PICK v, w : v = Phased(x, p) /\ w = Phased(y, p)
  OBVIOUS
<1>1. /\ v \in Sounds /\ w \in Sounds /\ v.reg = w.reg
      /\ v.ch.lfsr = w.ch.lfsr /\ v.ch.dac = w.ch.dac /\ v.ch.phase = w.ch.phase
  BY PhasedFields DEF SameSound
<1>2. v.ch \in States /\ w.ch \in States
  BY <1>1 DEF Sounds
<1>3. \A c, e \in States : c.lfsr = e.lfsr /\ c.dac = e.dac /\ c.phase = e.phase => c = e
  BY DEF States
<1>4. v.ch = w.ch
  BY ONLY <1>1, <1>2, <1>3
<1>5. v = w
  BY ONLY <1>1, <1>4 DEF Sounds
<1> QED BY <1>5

(* A channel that has counted is the channel it was, but for its counters. *)
LEMMA SteppedType ==
  ASSUME NEW x \in Sounds, NEW us \in Nat
  PROVE  stepped(x, us) \in Sounds
<1>1. CASE ~Plays(x)
  BY <1>1 DEF stepped, Plays
<1>2. CASE Plays(x)
  <2>1. PICK gr : /\ Run(gr, Counter, x, Times(x, us))
                  /\ stepped(x, us) = Phased(gr[Times(x, us)], Left(x, us))
    BY <1>2, SteppedRun
  <2>2. Times(x, us) \in Nat /\ Left(x, us) \in Phases
    BY <1>2, Parts, LeftPhase
  <2>3. gr[Times(x, us)] \in Sounds
    BY <2>1, <2>2, CountsKeep
  <2> QED BY <2>1, <2>2, <2>3, PhasedFields
<1> QED BY <1>1, <1>2

(* Two advances of a channel are one of their sum.  The first leaves the   *)
(* remainder of a period as the phase, so the whole periods add up to      *)
(* those of the sum; and a count does not look at the phase.               *)
THEOREM SteppedAdds ==
  ASSUME NEW x \in Sounds, NEW a \in Nat, NEW b \in Nat
  PROVE  stepped(stepped(x, a), b) = stepped(x, a + b)
<1>0. a + b \in Nat
  OBVIOUS
<1>1. CASE ~Plays(x)
  <2>1. \A us : stepped(x, us) = x
    BY <1>1 DEF stepped, Plays
  <2> QED BY <2>1
<1>2. CASE Plays(x)
  <2> DEFINE F == Counter
  <2> PICK n : n = stepped(x, a)
    OBVIOUS
  <2>1. PICK N, R, gr : /\ N = Times(x, a) /\ R = Left(x, a)
                        /\ Run(gr, F, x, N) /\ n = Phased(gr[N], R)
    BY <1>2, SteppedRun
  <2>2. PICK M, S, h : /\ M = Times(x, a + b) /\ S = Left(x, a + b)
                       /\ Run(h, F, x, M) /\ stepped(x, a + b) = Phased(h[M], S)
    BY <1>0, <1>2, SteppedRun
  <2>3. N \in Nat /\ R \in Phases /\ M \in Nat /\ S \in Phases
    BY <1>0, <1>2, <2>1, <2>2, Parts, LeftPhase
  <2>4. gr[N] \in Sounds /\ gr[N].reg.ctl = x.reg.ctl
    <3>1. N \in 0 .. N
      BY <2>3
    <3> QED BY <2>1, <2>3, <3>1, CountsKeep
  <2>5. /\ n \in Sounds /\ n.ch.phase = R /\ n.reg = gr[N].reg /\ SameSound(n, gr[N])
    BY <2>1, <2>3, <2>4, PhasedFields DEF SameSound
  <2>6. Plays(n) /\ PeriodOf(n) = PeriodOf(x)
    BY <1>2, <2>4, <2>5 DEF Plays, PeriodOf
  <2>7. PICK O, Q, l : /\ O = Times(n, b) /\ Q = Left(n, b)
                       /\ Run(l, F, n, O) /\ stepped(n, b) = Phased(l[O], Q)
    BY <2>5, <2>6, SteppedRun
  <2>8. O \in Nat /\ Q \in Phases
    BY <2>5, <2>6, <2>7, Parts, LeftPhase
  <2>9. M = N + O /\ S = Q
    <3> PICK p \in Powers : p = PeriodOf(x)
      BY <1>2, Parts
    <3>1. p \in Nat \ {0}
      BY DEF Powers
    <3>2. x.ch.phase \in Nat
      BY DEF Sounds, States, Phases
    <3>3. x.ch.phase + a = (N * p) + R /\ R \in 0 .. p - 1
      BY <1>2, <2>1, Parts
    <3>4. x.ch.phase + (a + b) = (M * p) + S /\ S \in 0 .. p - 1
      BY <1>0, <1>2, <2>2, Parts
    <3>5. R + b = (O * p) + Q /\ Q \in 0 .. p - 1
      BY <2>5, <2>6, <2>7, Parts
    <3>6. PICK f \in Nat, np \in Int, mp \in Int, op \in Int :
            f = x.ch.phase /\ np = N * p /\ mp = M * p /\ op = O * p
      <4>1. N * p \in Int /\ M * p \in Int /\ O * p \in Int
        BY <2>3, <2>8, <3>1
      <4> QED BY <3>2, <4>1
    <3>7. mp + S = (np + op) + Q
      BY ONLY <3>1, <3>3, <3>4, <3>5, <3>6, a \in Nat, b \in Nat
    <3>8. np + op = (N + O) * p
      BY <2>3, <2>8, <3>1, <3>6
    <3>9. M \in Int /\ N + O \in Int
      BY <2>3, <2>8
    <3>10. M * p + S = (N + O) * p + Q
      BY ONLY <3>6, <3>7, <3>8
    <3> PICK K \in Int : K = N + O
      BY <3>9
    <3>11. /\ p \in Nat \ {0} /\ M \in Int /\ K \in Int /\ S \in 0 .. p - 1 /\ Q \in 0 .. p - 1
           /\ M * p + S = K * p + Q
      BY ONLY <3>1, <3>4, <3>5, <3>9, <3>10, K \in Int, K = N + O
    <3>12. M = K /\ S = Q
      BY ONLY <3>11, Quotient
    <3> QED BY ONLY <3>12, K = N + O
  <2>10. N <= M /\ N \in 0 .. M /\ N + O \in 0 .. M
    BY <2>3, <2>8, <2>9
  <2>11. gr[N] = h[N]
    BY <2>1, <2>2, <2>3, <2>10, RunsAgree
  <2>12. Counter \in [Sounds -> Sounds] /\ h[N] \in Sounds
    BY <2>4, <2>11, CounterType
  <2>13. PICK k : Run(k, F, h[N], O)
    BY <2>8, <2>12, RunExists
  <2>14. k[O] = h[N + O]
    <3>1. Run(h, F, x, N + O)
      BY <2>2, <2>9
    <3> HIDE DEF F
    <3> QED BY ONLY <2>3, <2>8, <2>13, <3>1, RunsJoin
  <2>15. SameSound(l[O], k[O])
    <3>1. SameSound(n, h[N])
      BY <2>5, <2>11
    <3> QED BY <2>5, <2>7, <2>8, <2>12, <2>13, <3>1, CountsSame
  <2>16. l[O] \in Sounds /\ k[O] \in Sounds
    <3>1. O \in 0 .. O
      BY <2>8
    <3> QED BY <2>5, <2>7, <2>8, <2>12, <2>13, <3>1, CountsKeep
  <2>17. Phased(l[O], Q) = Phased(k[O], Q)
    BY <2>8, <2>15, <2>16, PhasedSame
  <2> QED BY ONLY <2>2, <2>7, <2>9, <2>14, <2>17, n = stepped(x, a)
<1> QED BY <1>1, <1>2

(* A channel's fields keep their widths.                                   *)
LEMMA ChanType ==
  ASSUME AudioInv, NEW c \in Channel
  PROVE  Chan(c) \in Sounds /\ areg[c] \in Register /\ ch[c] \in States
BY DEF AudioInv, Chan, Sounds

LEMMA AudioInitial == lynx_audio_init => AudioInv
<1> SUFFICES ASSUME lynx_audio_init PROVE AudioInv
  OBVIOUS
<1> DEFINE ctl == [clock |-> 0, count |-> FALSE, reload |-> FALSE, integrate |-> FALSE, feedback7 |-> FALSE]
           reg == [volume |-> 0, feedback |-> {}, dac |-> 0, shiftlo |-> 0,
                   reload |-> 0, count |-> 0, other |-> 0, ctl |-> ctl]
           st  == [lfsr |-> 0, dac |-> 0, phase |-> 0]
<1>1. areg = [c \in Channel |-> reg] /\ ch = [c \in Channel |-> st]
  BY DEF lynx_audio_init
<1>2. ctl \in ControlByte
  BY DEF ControlByte
<1>3. reg \in Register
  <2> HIDE DEF ctl
  <2> QED BY <1>2, AudioAssumption DEF Register
<1>4. st \in States
  BY DEF States, ShiftValues, Outputs, Phases
<1> HIDE DEF reg, st
<1> QED BY ONLY <1>1, <1>3, <1>4 DEF AudioInv

(* A write of a byte leaves a register.                                    *)
LEMMA WrittenType ==
  ASSUME NEW r \in Register, NEW w \in Written
  PROVE  [r EXCEPT ![w[1]] = w[2]] \in Register
<1> PICK f, v : f = w[1] /\ v = w[2]
  OBVIOUS
<1>1. \/ f = "volume" /\ v \in -128 .. 127
      \/ f = "feedback" /\ v \subseteq 1 .. 8
      \/ f = "dac" /\ v \in 0 .. 255
      \/ f = "shiftlo" /\ v \in 0 .. 255
      \/ f = "other" /\ v \in 0 .. 255
      \/ f = "reload" /\ v \in 0 .. MaxCount
      \/ f = "count" /\ v \in 0 .. MaxCount
      \/ f = "ctl" /\ v \in ControlByte
  <2>1. CASE w \in Writes
    BY <2>1, AudioAssumption
  <2>2. CASE w \in {"dac"} \X (0 .. 255)
    BY <2>2
  <2> QED BY <2>1, <2>2 DEF Written
<1> SUFFICES [r EXCEPT ![f] = v] \in Register
  OBVIOUS
<1>2. CASE f = "volume" /\ v \in -128 .. 127
  BY <1>2 DEF Register
<1>3. CASE f = "feedback" /\ v \subseteq 1 .. 8
  BY <1>3 DEF Register
<1>4. CASE f = "dac" /\ v \in 0 .. 255
  BY <1>4 DEF Register
<1>5. CASE f = "shiftlo" /\ v \in 0 .. 255
  BY <1>5 DEF Register
<1>6. CASE f = "other" /\ v \in 0 .. 255
  BY <1>6 DEF Register
<1>7. CASE f = "reload" /\ v \in 0 .. MaxCount
  BY <1>7 DEF Register
<1>8. CASE f = "count" /\ v \in 0 .. MaxCount
  BY <1>8 DEF Register
<1>9. CASE f = "ctl" /\ v \in ControlByte
  BY <1>9 DEF Register
<1> QED BY ONLY <1>1, <1>2, <1>3, <1>4, <1>5, <1>6, <1>7, <1>8, <1>9

LEMMA ReseedType ==
  ASSUME NEW r \in Register, NEW c \in States
  PROVE  lynx_audio_reseed(r, c) \in States
<1> PICK s \in 0 .. 255, o \in 0 .. 255 : s = r.shiftlo /\ o = r.other
  BY DEF Register
<1> PICK l : l = s + ((o \div 16) * 256)
  OBVIOUS
<1> PICK q \in 0 .. 15 : q = o \div 16
  OBVIOUS
<1>1. l = s + (q * 256)
  BY ONLY l = s + ((o \div 16) * 256), q = o \div 16
<1>2. l \in ShiftValues
  BY ONLY <1>1, s \in 0 .. 255, q \in 0 .. 15 DEF ShiftValues
<1>3. lynx_audio_reseed(r, c) = [c EXCEPT !.lfsr = l]
  BY ONLY s = r.shiftlo, o = r.other, l = s + ((o \div 16) * 256) DEF lynx_audio_reseed
<1> QED BY ONLY <1>2, <1>3, c \in States DEF States

LEMMA WriteKeeps ==
  ASSUME AudioInv, WriteByte
  PROVE  AudioInv'
<1>1. PICK c \in Channel, w \in Written : write_channel(c, w[1], w[2])
  BY DEF WriteByte
<1> PICK r, e : /\ r = [areg[c] EXCEPT ![w[1]] = w[2]]
                /\ e = IF w[1] \in {"shiftlo", "other"} THEN lynx_audio_reseed(r, ch[c]) ELSE ch[c]
  OBVIOUS
<1>2. areg' = [areg EXCEPT ![c] = r] /\ ch' = [ch EXCEPT ![c] = e]
  BY <1>1 DEF write_channel
<1>3. r \in Register
  BY ChanType, WrittenType
<1>4. e \in States
  BY <1>3, ChanType, ReseedType
<1> QED BY ONLY <1>2, <1>3, <1>4, AudioInv, c \in Channel DEF AudioInv

LEMMA SoundStepKeeps ==
  ASSUME AudioInv, NEW us \in Nat, lynx_audio_step(us)
  PROVE  AudioInv'
<1>1. \A c \in Channel : stepped(Chan(c), us) \in Sounds
  BY ChanType, SteppedType
<1>2. \A c \in Channel : stepped(Chan(c), us).reg \in Register /\ stepped(Chan(c), us).ch \in States
  BY ONLY <1>1 DEF Sounds
<1> QED BY ONLY <1>2, lynx_audio_step(us) DEF lynx_audio_step, AudioInv

LEMMA AudioStep == AudioInv /\ [AudioNext]_audioVars => AudioInv'
<1> SUFFICES ASSUME AudioInv, [AudioNext]_audioVars PROVE AudioInv'
  OBVIOUS
<1>1. CASE WriteByte
  BY <1>1, WriteKeeps
<1>2. CASE \E us \in Us : lynx_audio_step(us)
  BY <1>2, SoundStepKeeps, AudioAssumption
<1>3. CASE UNCHANGED audioVars
  BY <1>3 DEF audioVars, AudioInv
<1> QED BY <1>1, <1>2, <1>3 DEF AudioNext

LEMMA SoundKeeps == AudioInv => SoundKeepsTime
<1> SUFFICES ASSUME AudioInv, NEW c \in Channel, NEW u1 \in Us, NEW u2 \in Us
             PROVE  stepped(stepped(Chan(c), u1), u2) = stepped(Chan(c), u1 + u2)
  BY DEF SoundKeepsTime
<1>1. u1 \in Nat /\ u2 \in Nat
  BY AudioAssumption
<1> QED BY <1>1, ChanType, SteppedAdds

(* SoundKeepsTime: what is heard does not depend on how finely             *)
(* lynx_audio_step slices time, whatever a game has written, and when.     *)
THEOREM SoundAlwaysKeepsTime == AudioSpec => []SoundKeepsTime
BY SoundKeeps, AudioInitial, AudioStep, PTL DEF AudioSpec

-----------------------------------------------------------------------------
(* Bytes.                                                                  *)

(* Bytes: what their bits are, and the laws that tie the operators on bits *)
(* to sums and differences.                                                *)
Eight == 0 .. 255
Place == 0 .. 7
BitRow == [0 .. 7 -> {0, 1}]
Row(x) == [k \in 0 .. 7 |-> BitOf(x, k)]

LEMMA BitType ==
  ASSUME NEW n \in Nat, NEW k \in 0 .. 7
  PROVE  BitOf(n, k) \in {0, 1}
<1> PICK p \in Nat \ {0} : p = 2 ^ k
  BY Double
<1> PICK q \in Nat : q = n \div p
  BY Division
<1>1. q % 2 \in {0, 1}
  OBVIOUS
<1>2. BitOf(n, k) = q % 2
  BY ONLY p = 2 ^ k, q = n \div p DEF BitOf
<1> QED BY ONLY <1>1, <1>2

(* Eight bits make a byte, and are the bits of that byte.                  *)
LEMMA ByteOfRow ==
  ASSUME NEW b \in BitRow
  PROVE  OfBits(b) \in 0 .. 255 /\ Row(OfBits(b)) = b
<1> PICK b0 \in {0, 1} : b0 = b[0]
  BY DEF BitRow
<1> PICK b1 \in {0, 1} : b1 = b[1]
  BY DEF BitRow
<1> PICK b2 \in {0, 1} : b2 = b[2]
  BY DEF BitRow
<1> PICK b3 \in {0, 1} : b3 = b[3]
  BY DEF BitRow
<1> PICK b4 \in {0, 1} : b4 = b[4]
  BY DEF BitRow
<1> PICK b5 \in {0, 1} : b5 = b[5]
  BY DEF BitRow
<1> PICK b6 \in {0, 1} : b6 = b[6]
  BY DEF BitRow
<1> PICK b7 \in {0, 1} : b7 = b[7]
  BY DEF BitRow
<1> PICK x : x = OfBits(b)
  OBVIOUS
<1>1. x = b0 + (2 * b1) + (4 * b2) + (8 * b3) + (16 * b4) + (32 * b5) + (64 * b6) + (128 * b7)
  BY ONLY x = OfBits(b), b0 = b[0], b1 = b[1], b2 = b[2], b3 = b[3], b4 = b[4], b5 = b[5], b6 = b[6], b7 = b[7] DEF OfBits
<1>2. x \in 0 .. 255
  BY ONLY <1>1, b0 \in {0, 1}, b1 \in {0, 1}, b2 \in {0, 1}, b3 \in {0, 1}, b4 \in {0, 1}, b5 \in {0, 1}, b6 \in {0, 1}, b7 \in {0, 1}
<1>3. BitOf(x, 0) = b[0]
  <2>1. (x \div 1) % 2 = b0
    BY ONLY <1>1, b0 \in {0, 1}, b1 \in {0, 1}, b2 \in {0, 1}, b3 \in {0, 1}, b4 \in {0, 1}, b5 \in {0, 1}, b6 \in {0, 1}, b7 \in {0, 1}
  <2> QED BY ONLY <2>1, b0 = b[0] DEF BitOf
<1>4. BitOf(x, 1) = b[1]
  <2>1. (x \div 2) % 2 = b1
    BY ONLY <1>1, b0 \in {0, 1}, b1 \in {0, 1}, b2 \in {0, 1}, b3 \in {0, 1}, b4 \in {0, 1}, b5 \in {0, 1}, b6 \in {0, 1}, b7 \in {0, 1}
  <2> QED BY ONLY <2>1, b1 = b[1] DEF BitOf
<1>5. BitOf(x, 2) = b[2]
  <2>1. (x \div 4) % 2 = b2
    BY ONLY <1>1, b0 \in {0, 1}, b1 \in {0, 1}, b2 \in {0, 1}, b3 \in {0, 1}, b4 \in {0, 1}, b5 \in {0, 1}, b6 \in {0, 1}, b7 \in {0, 1}
  <2> QED BY ONLY <2>1, b2 = b[2] DEF BitOf
<1>6. BitOf(x, 3) = b[3]
  <2>1. (x \div 8) % 2 = b3
    BY ONLY <1>1, b0 \in {0, 1}, b1 \in {0, 1}, b2 \in {0, 1}, b3 \in {0, 1}, b4 \in {0, 1}, b5 \in {0, 1}, b6 \in {0, 1}, b7 \in {0, 1}
  <2> QED BY ONLY <2>1, b3 = b[3] DEF BitOf
<1>7. BitOf(x, 4) = b[4]
  <2>1. (x \div 16) % 2 = b4
    BY ONLY <1>1, b0 \in {0, 1}, b1 \in {0, 1}, b2 \in {0, 1}, b3 \in {0, 1}, b4 \in {0, 1}, b5 \in {0, 1}, b6 \in {0, 1}, b7 \in {0, 1}
  <2> QED BY ONLY <2>1, b4 = b[4] DEF BitOf
<1>8. BitOf(x, 5) = b[5]
  <2>1. (x \div 32) % 2 = b5
    BY ONLY <1>1, b0 \in {0, 1}, b1 \in {0, 1}, b2 \in {0, 1}, b3 \in {0, 1}, b4 \in {0, 1}, b5 \in {0, 1}, b6 \in {0, 1}, b7 \in {0, 1}
  <2> QED BY ONLY <2>1, b5 = b[5] DEF BitOf
<1>9. BitOf(x, 6) = b[6]
  <2>1. (x \div 64) % 2 = b6
    BY ONLY <1>1, b0 \in {0, 1}, b1 \in {0, 1}, b2 \in {0, 1}, b3 \in {0, 1}, b4 \in {0, 1}, b5 \in {0, 1}, b6 \in {0, 1}, b7 \in {0, 1}
  <2> QED BY ONLY <2>1, b6 = b[6] DEF BitOf
<1>10. BitOf(x, 7) = b[7]
  <2>1. (x \div 128) % 2 = b7
    BY ONLY <1>1, b0 \in {0, 1}, b1 \in {0, 1}, b2 \in {0, 1}, b3 \in {0, 1}, b4 \in {0, 1}, b5 \in {0, 1}, b6 \in {0, 1}, b7 \in {0, 1}
  <2> QED BY ONLY <2>1, b7 = b[7] DEF BitOf
<1>11. \A k \in 0 .. 7 : k \in {0, 1, 2, 3, 4, 5, 6, 7}
  OBVIOUS
<1>12. \A k \in 0 .. 7 : BitOf(x, k) = b[k]
  BY ONLY <1>11, <1>3, <1>4, <1>5, <1>6, <1>7, <1>8, <1>9, <1>10
<1>13. Row(x) = b
  BY ONLY <1>12, b \in BitRow DEF Row, BitRow
<1> QED BY ONLY <1>2, <1>13, x = OfBits(b)

(* A byte is made of its bits.                                             *)
LEMMA RowOfByte ==
  ASSUME NEW x \in 0 .. 255
  PROVE  Row(x) \in BitRow /\ x = OfBits(Row(x))
<1>1. x = ((x \div 1) % 2) + (2 * ((x \div 2) % 2)) + (4 * ((x \div 4) % 2)) + (8 * ((x \div 8) % 2)) + (16 * ((x \div 16) % 2)) + (32 * ((x \div 32) % 2)) + (64 * ((x \div 64) % 2)) + (128 * ((x \div 128) % 2))
  OBVIOUS
<1>2. BitOf(x, 0) = (x \div 1) % 2 /\ BitOf(x, 1) = (x \div 2) % 2 /\ BitOf(x, 2) = (x \div 4) % 2 /\ BitOf(x, 3) = (x \div 8) % 2 /\ BitOf(x, 4) = (x \div 16) % 2 /\ BitOf(x, 5) = (x \div 32) % 2 /\ BitOf(x, 6) = (x \div 64) % 2 /\ BitOf(x, 7) = (x \div 128) % 2
  BY DEF BitOf
<1>3. x = BitOf(x, 0) + (2 * BitOf(x, 1)) + (4 * BitOf(x, 2)) + (8 * BitOf(x, 3)) + (16 * BitOf(x, 4)) + (32 * BitOf(x, 5)) + (64 * BitOf(x, 6)) + (128 * BitOf(x, 7))
  BY ONLY <1>1, <1>2
<1>4. x \in Nat
  OBVIOUS
<1>5. \A k \in 0 .. 7 : BitOf(x, k) \in {0, 1}
  BY ONLY <1>4, BitType
<1>6. x = OfBits(Row(x))
  BY ONLY <1>3 DEF OfBits, Row
<1> QED BY ONLY <1>5, <1>6 DEF Row, BitRow

LEMMA Complement ==
  ASSUME NEW b \in BitRow, NEW c, c = [k \in 0 .. 7 |-> 1 - b[k]]
  PROVE  c \in BitRow /\ OfBits(c) = 255 - OfBits(b)
<1>1. \A k \in 0 .. 7 : b[k] \in {0, 1} /\ c[k] = 1 - b[k]
  BY DEF BitRow
<1>2. c \in BitRow
  BY ONLY <1>1, c = [k \in 0 .. 7 |-> 1 - b[k]] DEF BitRow
<1> PICK b0 \in {0, 1}, c0 \in {0, 1} : b0 = b[0] /\ c0 = c[0] /\ c0 = 1 - b0
  BY ONLY <1>1
<1> PICK b1 \in {0, 1}, c1 \in {0, 1} : b1 = b[1] /\ c1 = c[1] /\ c1 = 1 - b1
  BY ONLY <1>1
<1> PICK b2 \in {0, 1}, c2 \in {0, 1} : b2 = b[2] /\ c2 = c[2] /\ c2 = 1 - b2
  BY ONLY <1>1
<1> PICK b3 \in {0, 1}, c3 \in {0, 1} : b3 = b[3] /\ c3 = c[3] /\ c3 = 1 - b3
  BY ONLY <1>1
<1> PICK b4 \in {0, 1}, c4 \in {0, 1} : b4 = b[4] /\ c4 = c[4] /\ c4 = 1 - b4
  BY ONLY <1>1
<1> PICK b5 \in {0, 1}, c5 \in {0, 1} : b5 = b[5] /\ c5 = c[5] /\ c5 = 1 - b5
  BY ONLY <1>1
<1> PICK b6 \in {0, 1}, c6 \in {0, 1} : b6 = b[6] /\ c6 = c[6] /\ c6 = 1 - b6
  BY ONLY <1>1
<1> PICK b7 \in {0, 1}, c7 \in {0, 1} : b7 = b[7] /\ c7 = c[7] /\ c7 = 1 - b7
  BY ONLY <1>1
<1>3. OfBits(b) = b0 + (2 * b1) + (4 * b2) + (8 * b3) + (16 * b4) + (32 * b5) + (64 * b6) + (128 * b7)
  BY ONLY b0 = b[0], b1 = b[1], b2 = b[2], b3 = b[3], b4 = b[4], b5 = b[5], b6 = b[6], b7 = b[7] DEF OfBits
<1>4. OfBits(c) = c0 + (2 * c1) + (4 * c2) + (8 * c3) + (16 * c4) + (32 * c5) + (64 * c6) + (128 * c7)
  BY ONLY c0 = c[0], c1 = c[1], c2 = c[2], c3 = c[3], c4 = c[4], c5 = c[5], c6 = c[6], c7 = c[7] DEF OfBits
<1>5. OfBits(c) = 255 - OfBits(b)
  BY ONLY <1>3, <1>4, b0 \in {0, 1}, c0 = 1 - b0, b1 \in {0, 1}, c1 = 1 - b1, b2 \in {0, 1}, c2 = 1 - b2, b3 \in {0, 1}, c3 = 1 - b3, b4 \in {0, 1}, c4 = 1 - b4, b5 \in {0, 1}, c5 = 1 - b5, b6 \in {0, 1}, c6 = 1 - b6, b7 \in {0, 1}, c7 = 1 - b7
<1> QED BY ONLY <1>2, <1>5

LEMMA RowOfComplement ==
  ASSUME NEW y \in 0 .. 255, NEW k \in 0 .. 7
  PROVE  BitOf(255 - y, k) = 1 - BitOf(y, k)
<1> PICK b, c : b = Row(y) /\ c = [j \in 0 .. 7 |-> 1 - b[j]]
  OBVIOUS
<1>1. b \in BitRow /\ y = OfBits(b)
  BY RowOfByte
<1>2. c \in BitRow /\ OfBits(c) = 255 - y
  BY <1>1, Complement
<1>3. Row(255 - y) = c
  BY <1>2, ByteOfRow
<1> QED BY ONLY <1>3, b = Row(y), c = [j \in 0 .. 7 |-> 1 - b[j]], k \in 0 .. 7 DEF Row

LEMMA MaskedOut ==
  ASSUME NEW x \in Eight, NEW y \in Eight
  PROVE  And(x, 255 - y) = x - And(x, y)
<1> x \in 0 .. 255 /\ y \in 0 .. 255
  BY DEF Eight
<1>a. \A k \in 0 .. 7 : BitOf(x, k) \in {0, 1} /\ BitOf(y, k) \in {0, 1}
  BY BitType
<1>b. \A k \in 0 .. 7 : BitOf(255 - y, k) = 1 - BitOf(y, k)
  BY RowOfComplement
<1>2. x = OfBits(Row(x))
  BY RowOfByte
<1> PICK b0 \in {0, 1}, c0 \in {0, 1} : b0 = BitOf(x, 0) /\ c0 = BitOf(y, 0) /\ BitOf(255 - y, 0) = 1 - c0
  BY ONLY <1>a, <1>b, 0 \in 0 .. 7
<1> PICK d0 \in {0, 1}, e0 \in {0, 1} : e0 = b0 * c0 /\ d0 = b0 * (1 - c0) /\ d0 = b0 - e0
  BY ONLY b0 \in {0, 1}, c0 \in {0, 1}
<1> PICK b1 \in {0, 1}, c1 \in {0, 1} : b1 = BitOf(x, 1) /\ c1 = BitOf(y, 1) /\ BitOf(255 - y, 1) = 1 - c1
  BY ONLY <1>a, <1>b, 1 \in 0 .. 7
<1> PICK d1 \in {0, 1}, e1 \in {0, 1} : e1 = b1 * c1 /\ d1 = b1 * (1 - c1) /\ d1 = b1 - e1
  BY ONLY b1 \in {0, 1}, c1 \in {0, 1}
<1> PICK b2 \in {0, 1}, c2 \in {0, 1} : b2 = BitOf(x, 2) /\ c2 = BitOf(y, 2) /\ BitOf(255 - y, 2) = 1 - c2
  BY ONLY <1>a, <1>b, 2 \in 0 .. 7
<1> PICK d2 \in {0, 1}, e2 \in {0, 1} : e2 = b2 * c2 /\ d2 = b2 * (1 - c2) /\ d2 = b2 - e2
  BY ONLY b2 \in {0, 1}, c2 \in {0, 1}
<1> PICK b3 \in {0, 1}, c3 \in {0, 1} : b3 = BitOf(x, 3) /\ c3 = BitOf(y, 3) /\ BitOf(255 - y, 3) = 1 - c3
  BY ONLY <1>a, <1>b, 3 \in 0 .. 7
<1> PICK d3 \in {0, 1}, e3 \in {0, 1} : e3 = b3 * c3 /\ d3 = b3 * (1 - c3) /\ d3 = b3 - e3
  BY ONLY b3 \in {0, 1}, c3 \in {0, 1}
<1> PICK b4 \in {0, 1}, c4 \in {0, 1} : b4 = BitOf(x, 4) /\ c4 = BitOf(y, 4) /\ BitOf(255 - y, 4) = 1 - c4
  BY ONLY <1>a, <1>b, 4 \in 0 .. 7
<1> PICK d4 \in {0, 1}, e4 \in {0, 1} : e4 = b4 * c4 /\ d4 = b4 * (1 - c4) /\ d4 = b4 - e4
  BY ONLY b4 \in {0, 1}, c4 \in {0, 1}
<1> PICK b5 \in {0, 1}, c5 \in {0, 1} : b5 = BitOf(x, 5) /\ c5 = BitOf(y, 5) /\ BitOf(255 - y, 5) = 1 - c5
  BY ONLY <1>a, <1>b, 5 \in 0 .. 7
<1> PICK d5 \in {0, 1}, e5 \in {0, 1} : e5 = b5 * c5 /\ d5 = b5 * (1 - c5) /\ d5 = b5 - e5
  BY ONLY b5 \in {0, 1}, c5 \in {0, 1}
<1> PICK b6 \in {0, 1}, c6 \in {0, 1} : b6 = BitOf(x, 6) /\ c6 = BitOf(y, 6) /\ BitOf(255 - y, 6) = 1 - c6
  BY ONLY <1>a, <1>b, 6 \in 0 .. 7
<1> PICK d6 \in {0, 1}, e6 \in {0, 1} : e6 = b6 * c6 /\ d6 = b6 * (1 - c6) /\ d6 = b6 - e6
  BY ONLY b6 \in {0, 1}, c6 \in {0, 1}
<1> PICK b7 \in {0, 1}, c7 \in {0, 1} : b7 = BitOf(x, 7) /\ c7 = BitOf(y, 7) /\ BitOf(255 - y, 7) = 1 - c7
  BY ONLY <1>a, <1>b, 7 \in 0 .. 7
<1> PICK d7 \in {0, 1}, e7 \in {0, 1} : e7 = b7 * c7 /\ d7 = b7 * (1 - c7) /\ d7 = b7 - e7
  BY ONLY b7 \in {0, 1}, c7 \in {0, 1}
<1>3. x = b0 + (2 * b1) + (4 * b2) + (8 * b3) + (16 * b4) + (32 * b5) + (64 * b6) + (128 * b7)
  BY ONLY <1>2, b0 = BitOf(x, 0), b1 = BitOf(x, 1), b2 = BitOf(x, 2), b3 = BitOf(x, 3), b4 = BitOf(x, 4), b5 = BitOf(x, 5), b6 = BitOf(x, 6), b7 = BitOf(x, 7) DEF OfBits, Row
<1>4. And(x, y) = e0 + (2 * e1) + (4 * e2) + (8 * e3) + (16 * e4) + (32 * e5) + (64 * e6) + (128 * e7)
  BY ONLY e0 = b0 * c0, b0 = BitOf(x, 0), c0 = BitOf(y, 0), e1 = b1 * c1, b1 = BitOf(x, 1), c1 = BitOf(y, 1), e2 = b2 * c2, b2 = BitOf(x, 2), c2 = BitOf(y, 2), e3 = b3 * c3, b3 = BitOf(x, 3), c3 = BitOf(y, 3), e4 = b4 * c4, b4 = BitOf(x, 4), c4 = BitOf(y, 4), e5 = b5 * c5, b5 = BitOf(x, 5), c5 = BitOf(y, 5), e6 = b6 * c6, b6 = BitOf(x, 6), c6 = BitOf(y, 6), e7 = b7 * c7, b7 = BitOf(x, 7), c7 = BitOf(y, 7) DEF OfBits, And
<1>5. And(x, 255 - y) = d0 + (2 * d1) + (4 * d2) + (8 * d3) + (16 * d4) + (32 * d5) + (64 * d6) + (128 * d7)
  BY ONLY d0 = b0 * (1 - c0), b0 = BitOf(x, 0), BitOf(255 - y, 0) = 1 - c0, d1 = b1 * (1 - c1), b1 = BitOf(x, 1), BitOf(255 - y, 1) = 1 - c1, d2 = b2 * (1 - c2), b2 = BitOf(x, 2), BitOf(255 - y, 2) = 1 - c2, d3 = b3 * (1 - c3), b3 = BitOf(x, 3), BitOf(255 - y, 3) = 1 - c3, d4 = b4 * (1 - c4), b4 = BitOf(x, 4), BitOf(255 - y, 4) = 1 - c4, d5 = b5 * (1 - c5), b5 = BitOf(x, 5), BitOf(255 - y, 5) = 1 - c5, d6 = b6 * (1 - c6), b6 = BitOf(x, 6), BitOf(255 - y, 6) = 1 - c6, d7 = b7 * (1 - c7), b7 = BitOf(x, 7), BitOf(255 - y, 7) = 1 - c7 DEF OfBits, And
<1> QED BY ONLY <1>3, <1>4, <1>5, b0 \in {0, 1}, e0 \in {0, 1}, d0 = b0 - e0, b1 \in {0, 1}, e1 \in {0, 1}, d1 = b1 - e1, b2 \in {0, 1}, e2 \in {0, 1}, d2 = b2 - e2, b3 \in {0, 1}, e3 \in {0, 1}, d3 = b3 - e3, b4 \in {0, 1}, e4 \in {0, 1}, d4 = b4 - e4, b5 \in {0, 1}, e5 \in {0, 1}, d5 = b5 - e5, b6 \in {0, 1}, e6 \in {0, 1}, d6 = b6 - e6, b7 \in {0, 1}, e7 \in {0, 1}, d7 = b7 - e7

LEMMA OrIs ==
  ASSUME NEW x \in Eight, NEW y \in Eight
  PROVE  Or(x, y) = x + y - And(x, y)
<1> x \in 0 .. 255 /\ y \in 0 .. 255
  BY DEF Eight
<1> DEFINE bit(u, v) == IF u + v > 0 THEN 1 ELSE 0
<1>1. \A k \in 0 .. 7 : BitOf(x, k) \in {0, 1} /\ BitOf(y, k) \in {0, 1}
  BY BitType
<1>2. x = OfBits(Row(x)) /\ y = OfBits(Row(y))
  BY RowOfByte
<1> PICK b0 \in {0, 1}, c0 \in {0, 1} : b0 = BitOf(x, 0) /\ c0 = BitOf(y, 0)
  BY ONLY <1>1, 0 \in 0 .. 7
<1> PICK d0 \in {0, 1}, e0 \in {0, 1} : e0 = b0 * c0 /\ d0 = bit(b0, c0) /\ d0 = b0 + c0 - e0
  BY ONLY b0 \in {0, 1}, c0 \in {0, 1}
<1> PICK b1 \in {0, 1}, c1 \in {0, 1} : b1 = BitOf(x, 1) /\ c1 = BitOf(y, 1)
  BY ONLY <1>1, 1 \in 0 .. 7
<1> PICK d1 \in {0, 1}, e1 \in {0, 1} : e1 = b1 * c1 /\ d1 = bit(b1, c1) /\ d1 = b1 + c1 - e1
  BY ONLY b1 \in {0, 1}, c1 \in {0, 1}
<1> PICK b2 \in {0, 1}, c2 \in {0, 1} : b2 = BitOf(x, 2) /\ c2 = BitOf(y, 2)
  BY ONLY <1>1, 2 \in 0 .. 7
<1> PICK d2 \in {0, 1}, e2 \in {0, 1} : e2 = b2 * c2 /\ d2 = bit(b2, c2) /\ d2 = b2 + c2 - e2
  BY ONLY b2 \in {0, 1}, c2 \in {0, 1}
<1> PICK b3 \in {0, 1}, c3 \in {0, 1} : b3 = BitOf(x, 3) /\ c3 = BitOf(y, 3)
  BY ONLY <1>1, 3 \in 0 .. 7
<1> PICK d3 \in {0, 1}, e3 \in {0, 1} : e3 = b3 * c3 /\ d3 = bit(b3, c3) /\ d3 = b3 + c3 - e3
  BY ONLY b3 \in {0, 1}, c3 \in {0, 1}
<1> PICK b4 \in {0, 1}, c4 \in {0, 1} : b4 = BitOf(x, 4) /\ c4 = BitOf(y, 4)
  BY ONLY <1>1, 4 \in 0 .. 7
<1> PICK d4 \in {0, 1}, e4 \in {0, 1} : e4 = b4 * c4 /\ d4 = bit(b4, c4) /\ d4 = b4 + c4 - e4
  BY ONLY b4 \in {0, 1}, c4 \in {0, 1}
<1> PICK b5 \in {0, 1}, c5 \in {0, 1} : b5 = BitOf(x, 5) /\ c5 = BitOf(y, 5)
  BY ONLY <1>1, 5 \in 0 .. 7
<1> PICK d5 \in {0, 1}, e5 \in {0, 1} : e5 = b5 * c5 /\ d5 = bit(b5, c5) /\ d5 = b5 + c5 - e5
  BY ONLY b5 \in {0, 1}, c5 \in {0, 1}
<1> PICK b6 \in {0, 1}, c6 \in {0, 1} : b6 = BitOf(x, 6) /\ c6 = BitOf(y, 6)
  BY ONLY <1>1, 6 \in 0 .. 7
<1> PICK d6 \in {0, 1}, e6 \in {0, 1} : e6 = b6 * c6 /\ d6 = bit(b6, c6) /\ d6 = b6 + c6 - e6
  BY ONLY b6 \in {0, 1}, c6 \in {0, 1}
<1> PICK b7 \in {0, 1}, c7 \in {0, 1} : b7 = BitOf(x, 7) /\ c7 = BitOf(y, 7)
  BY ONLY <1>1, 7 \in 0 .. 7
<1> PICK d7 \in {0, 1}, e7 \in {0, 1} : e7 = b7 * c7 /\ d7 = bit(b7, c7) /\ d7 = b7 + c7 - e7
  BY ONLY b7 \in {0, 1}, c7 \in {0, 1}
<1>3. x = b0 + (2 * b1) + (4 * b2) + (8 * b3) + (16 * b4) + (32 * b5) + (64 * b6) + (128 * b7)
  BY ONLY <1>2, b0 = BitOf(x, 0), b1 = BitOf(x, 1), b2 = BitOf(x, 2), b3 = BitOf(x, 3), b4 = BitOf(x, 4), b5 = BitOf(x, 5), b6 = BitOf(x, 6), b7 = BitOf(x, 7) DEF OfBits, Row
<1>6. y = c0 + (2 * c1) + (4 * c2) + (8 * c3) + (16 * c4) + (32 * c5) + (64 * c6) + (128 * c7)
  BY ONLY <1>2, c0 = BitOf(y, 0), c1 = BitOf(y, 1), c2 = BitOf(y, 2), c3 = BitOf(y, 3), c4 = BitOf(y, 4), c5 = BitOf(y, 5), c6 = BitOf(y, 6), c7 = BitOf(y, 7) DEF OfBits, Row
<1>4. And(x, y) = e0 + (2 * e1) + (4 * e2) + (8 * e3) + (16 * e4) + (32 * e5) + (64 * e6) + (128 * e7)
  BY ONLY e0 = b0 * c0, b0 = BitOf(x, 0), c0 = BitOf(y, 0), e1 = b1 * c1, b1 = BitOf(x, 1), c1 = BitOf(y, 1), e2 = b2 * c2, b2 = BitOf(x, 2), c2 = BitOf(y, 2), e3 = b3 * c3, b3 = BitOf(x, 3), c3 = BitOf(y, 3), e4 = b4 * c4, b4 = BitOf(x, 4), c4 = BitOf(y, 4), e5 = b5 * c5, b5 = BitOf(x, 5), c5 = BitOf(y, 5), e6 = b6 * c6, b6 = BitOf(x, 6), c6 = BitOf(y, 6), e7 = b7 * c7, b7 = BitOf(x, 7), c7 = BitOf(y, 7) DEF OfBits, And
<1>5. Or(x, y) = d0 + (2 * d1) + (4 * d2) + (8 * d3) + (16 * d4) + (32 * d5) + (64 * d6) + (128 * d7)
  BY ONLY d0 = bit(b0, c0), b0 = BitOf(x, 0), c0 = BitOf(y, 0), d1 = bit(b1, c1), b1 = BitOf(x, 1), c1 = BitOf(y, 1), d2 = bit(b2, c2), b2 = BitOf(x, 2), c2 = BitOf(y, 2), d3 = bit(b3, c3), b3 = BitOf(x, 3), c3 = BitOf(y, 3), d4 = bit(b4, c4), b4 = BitOf(x, 4), c4 = BitOf(y, 4), d5 = bit(b5, c5), b5 = BitOf(x, 5), c5 = BitOf(y, 5), d6 = bit(b6, c6), b6 = BitOf(x, 6), c6 = BitOf(y, 6), d7 = bit(b7, c7), b7 = BitOf(x, 7), c7 = BitOf(y, 7) DEF OfBits, Or
<1> QED BY ONLY <1>3, <1>4, <1>5, <1>6, b0 \in {0, 1}, c0 \in {0, 1}, e0 \in {0, 1}, d0 = b0 + c0 - e0, b1 \in {0, 1}, c1 \in {0, 1}, e1 \in {0, 1}, d1 = b1 + c1 - e1, b2 \in {0, 1}, c2 \in {0, 1}, e2 \in {0, 1}, d2 = b2 + c2 - e2, b3 \in {0, 1}, c3 \in {0, 1}, e3 \in {0, 1}, d3 = b3 + c3 - e3, b4 \in {0, 1}, c4 \in {0, 1}, e4 \in {0, 1}, d4 = b4 + c4 - e4, b5 \in {0, 1}, c5 \in {0, 1}, e5 \in {0, 1}, d5 = b5 + c5 - e5, b6 \in {0, 1}, c6 \in {0, 1}, e6 \in {0, 1}, d6 = b6 + c6 - e6, b7 \in {0, 1}, c7 \in {0, 1}, e7 \in {0, 1}, d7 = b7 + c7 - e7

LEMMA OneBit ==
  ASSUME NEW x \in Eight, NEW n \in Place
  PROVE  And(x, 2 ^ n) = (2 ^ n) * BitOf(x, n) /\ 2 ^ n \in 1 .. 128
<1> x \in 0 .. 255 /\ n \in 0 .. 7
  BY DEF Eight, Place
<1> DEFINE Goal(m, w) == And(x, w) = w * BitOf(x, m)
<1>1. \A k \in 0 .. 7 : BitOf(x, k) \in {0, 1}
  BY BitType
<1>2. Goal(0, 1)
  <2>1. BitOf(1, 0) = 1 /\ BitOf(1, 1) = 0 /\ BitOf(1, 2) = 0 /\ BitOf(1, 3) = 0 /\ BitOf(1, 4) = 0 /\ BitOf(1, 5) = 0 /\ BitOf(1, 6) = 0 /\ BitOf(1, 7) = 0
    BY ONLY TRUE DEF BitOf
  <2>2. And(x, 1) = (BitOf(x, 0) * 1) + (2 * (BitOf(x, 1) * 0)) + (4 * (BitOf(x, 2) * 0)) + (8 * (BitOf(x, 3) * 0)) + (16 * (BitOf(x, 4) * 0)) + (32 * (BitOf(x, 5) * 0)) + (64 * (BitOf(x, 6) * 0)) + (128 * (BitOf(x, 7) * 0))
    BY ONLY <2>1 DEF And, OfBits
  <2> QED BY ONLY <1>1, <2>2
<1>3. Goal(1, 2)
  <2>1. BitOf(2, 0) = 0 /\ BitOf(2, 1) = 1 /\ BitOf(2, 2) = 0 /\ BitOf(2, 3) = 0 /\ BitOf(2, 4) = 0 /\ BitOf(2, 5) = 0 /\ BitOf(2, 6) = 0 /\ BitOf(2, 7) = 0
    BY ONLY TRUE DEF BitOf
  <2>2. And(x, 2) = (BitOf(x, 0) * 0) + (2 * (BitOf(x, 1) * 1)) + (4 * (BitOf(x, 2) * 0)) + (8 * (BitOf(x, 3) * 0)) + (16 * (BitOf(x, 4) * 0)) + (32 * (BitOf(x, 5) * 0)) + (64 * (BitOf(x, 6) * 0)) + (128 * (BitOf(x, 7) * 0))
    BY ONLY <2>1 DEF And, OfBits
  <2> QED BY ONLY <1>1, <2>2
<1>4. Goal(2, 4)
  <2>1. BitOf(4, 0) = 0 /\ BitOf(4, 1) = 0 /\ BitOf(4, 2) = 1 /\ BitOf(4, 3) = 0 /\ BitOf(4, 4) = 0 /\ BitOf(4, 5) = 0 /\ BitOf(4, 6) = 0 /\ BitOf(4, 7) = 0
    BY ONLY TRUE DEF BitOf
  <2>2. And(x, 4) = (BitOf(x, 0) * 0) + (2 * (BitOf(x, 1) * 0)) + (4 * (BitOf(x, 2) * 1)) + (8 * (BitOf(x, 3) * 0)) + (16 * (BitOf(x, 4) * 0)) + (32 * (BitOf(x, 5) * 0)) + (64 * (BitOf(x, 6) * 0)) + (128 * (BitOf(x, 7) * 0))
    BY ONLY <2>1 DEF And, OfBits
  <2> QED BY ONLY <1>1, <2>2
<1>5. Goal(3, 8)
  <2>1. BitOf(8, 0) = 0 /\ BitOf(8, 1) = 0 /\ BitOf(8, 2) = 0 /\ BitOf(8, 3) = 1 /\ BitOf(8, 4) = 0 /\ BitOf(8, 5) = 0 /\ BitOf(8, 6) = 0 /\ BitOf(8, 7) = 0
    BY ONLY TRUE DEF BitOf
  <2>2. And(x, 8) = (BitOf(x, 0) * 0) + (2 * (BitOf(x, 1) * 0)) + (4 * (BitOf(x, 2) * 0)) + (8 * (BitOf(x, 3) * 1)) + (16 * (BitOf(x, 4) * 0)) + (32 * (BitOf(x, 5) * 0)) + (64 * (BitOf(x, 6) * 0)) + (128 * (BitOf(x, 7) * 0))
    BY ONLY <2>1 DEF And, OfBits
  <2> QED BY ONLY <1>1, <2>2
<1>6. Goal(4, 16)
  <2>1. BitOf(16, 0) = 0 /\ BitOf(16, 1) = 0 /\ BitOf(16, 2) = 0 /\ BitOf(16, 3) = 0 /\ BitOf(16, 4) = 1 /\ BitOf(16, 5) = 0 /\ BitOf(16, 6) = 0 /\ BitOf(16, 7) = 0
    BY ONLY TRUE DEF BitOf
  <2>2. And(x, 16) = (BitOf(x, 0) * 0) + (2 * (BitOf(x, 1) * 0)) + (4 * (BitOf(x, 2) * 0)) + (8 * (BitOf(x, 3) * 0)) + (16 * (BitOf(x, 4) * 1)) + (32 * (BitOf(x, 5) * 0)) + (64 * (BitOf(x, 6) * 0)) + (128 * (BitOf(x, 7) * 0))
    BY ONLY <2>1 DEF And, OfBits
  <2> QED BY ONLY <1>1, <2>2
<1>7. Goal(5, 32)
  <2>1. BitOf(32, 0) = 0 /\ BitOf(32, 1) = 0 /\ BitOf(32, 2) = 0 /\ BitOf(32, 3) = 0 /\ BitOf(32, 4) = 0 /\ BitOf(32, 5) = 1 /\ BitOf(32, 6) = 0 /\ BitOf(32, 7) = 0
    BY ONLY TRUE DEF BitOf
  <2>2. And(x, 32) = (BitOf(x, 0) * 0) + (2 * (BitOf(x, 1) * 0)) + (4 * (BitOf(x, 2) * 0)) + (8 * (BitOf(x, 3) * 0)) + (16 * (BitOf(x, 4) * 0)) + (32 * (BitOf(x, 5) * 1)) + (64 * (BitOf(x, 6) * 0)) + (128 * (BitOf(x, 7) * 0))
    BY ONLY <2>1 DEF And, OfBits
  <2> QED BY ONLY <1>1, <2>2
<1>8. Goal(6, 64)
  <2>1. BitOf(64, 0) = 0 /\ BitOf(64, 1) = 0 /\ BitOf(64, 2) = 0 /\ BitOf(64, 3) = 0 /\ BitOf(64, 4) = 0 /\ BitOf(64, 5) = 0 /\ BitOf(64, 6) = 1 /\ BitOf(64, 7) = 0
    BY ONLY TRUE DEF BitOf
  <2>2. And(x, 64) = (BitOf(x, 0) * 0) + (2 * (BitOf(x, 1) * 0)) + (4 * (BitOf(x, 2) * 0)) + (8 * (BitOf(x, 3) * 0)) + (16 * (BitOf(x, 4) * 0)) + (32 * (BitOf(x, 5) * 0)) + (64 * (BitOf(x, 6) * 1)) + (128 * (BitOf(x, 7) * 0))
    BY ONLY <2>1 DEF And, OfBits
  <2> QED BY ONLY <1>1, <2>2
<1>9. Goal(7, 128)
  <2>1. BitOf(128, 0) = 0 /\ BitOf(128, 1) = 0 /\ BitOf(128, 2) = 0 /\ BitOf(128, 3) = 0 /\ BitOf(128, 4) = 0 /\ BitOf(128, 5) = 0 /\ BitOf(128, 6) = 0 /\ BitOf(128, 7) = 1
    BY ONLY TRUE DEF BitOf
  <2>2. And(x, 128) = (BitOf(x, 0) * 0) + (2 * (BitOf(x, 1) * 0)) + (4 * (BitOf(x, 2) * 0)) + (8 * (BitOf(x, 3) * 0)) + (16 * (BitOf(x, 4) * 0)) + (32 * (BitOf(x, 5) * 0)) + (64 * (BitOf(x, 6) * 0)) + (128 * (BitOf(x, 7) * 1))
    BY ONLY <2>1 DEF And, OfBits
  <2> QED BY ONLY <1>1, <2>2
<1> HIDE DEF Goal
<1>10. 2 ^ 0 = 1 /\ 2 ^ 1 = 2 /\ 2 ^ 2 = 4 /\ 2 ^ 3 = 8 /\ 2 ^ 4 = 16 /\ 2 ^ 5 = 32 /\ 2 ^ 6 = 64 /\ 2 ^ 7 = 128
  OBVIOUS
<1>11. n = 0 \/ n = 1 \/ n = 2 \/ n = 3 \/ n = 4 \/ n = 5 \/ n = 6 \/ n = 7
  OBVIOUS
<1> PICK w : w = 2 ^ n
  OBVIOUS
<1>20. n = 0 => w = 1
  BY ONLY <1>10, w = 2 ^ n
<1>21. n = 1 => w = 2
  BY ONLY <1>10, w = 2 ^ n
<1>22. n = 2 => w = 4
  BY ONLY <1>10, w = 2 ^ n
<1>23. n = 3 => w = 8
  BY ONLY <1>10, w = 2 ^ n
<1>24. n = 4 => w = 16
  BY ONLY <1>10, w = 2 ^ n
<1>25. n = 5 => w = 32
  BY ONLY <1>10, w = 2 ^ n
<1>26. n = 6 => w = 64
  BY ONLY <1>10, w = 2 ^ n
<1>27. n = 7 => w = 128
  BY ONLY <1>10, w = 2 ^ n
<1>12. (n = 0 /\ w = 1) \/ (n = 1 /\ w = 2) \/ (n = 2 /\ w = 4) \/ (n = 3 /\ w = 8) \/ (n = 4 /\ w = 16) \/ (n = 5 /\ w = 32) \/ (n = 6 /\ w = 64) \/ (n = 7 /\ w = 128)
  BY ONLY <1>11, <1>20, <1>21, <1>22, <1>23, <1>24, <1>25, <1>26, <1>27
<1>13. Goal(n, w) /\ w \in 1 .. 128
  BY ONLY <1>12, <1>2, <1>3, <1>4, <1>5, <1>6, <1>7, <1>8, <1>9
<1> QED BY ONLY <1>13, w = 2 ^ n DEF Goal

(* Numbers of a few bits have an exclusive or of as many.                  *)
LEMMA XorFits ==
  ASSUME NEW n \in 1 .. 4, NEW x \in 0 .. (2 ^ n) - 1, NEW y \in 0 .. (2 ^ n) - 1
  PROVE  Xor(x, y) \in 0 .. (2 ^ n) - 1
<1> PICK p : p = 2 ^ n
  OBVIOUS
<1>1. p = 2 \/ p = 4 \/ p = 8 \/ p = 16
  <2>1. 2 ^ 1 = 2 /\ 2 ^ 2 = 4 /\ 2 ^ 3 = 8 /\ 2 ^ 4 = 16
    OBVIOUS
  <2>2. n = 1 \/ n = 2 \/ n = 3 \/ n = 4
    OBVIOUS
  <2>3. n = 1 => p = 2
    BY ONLY <2>1, p = 2 ^ n
  <2>4. n = 2 => p = 4
    BY ONLY <2>1, p = 2 ^ n
  <2>5. n = 3 => p = 8
    BY ONLY <2>1, p = 2 ^ n
  <2>6. n = 4 => p = 16
    BY ONLY <2>1, p = 2 ^ n
  <2> QED BY ONLY <2>2, <2>3, <2>4, <2>5, <2>6
<1>2. x \in 0 .. p - 1 /\ y \in 0 .. p - 1
  BY p = 2 ^ n
<1>3. x \in Nat /\ y \in Nat
  BY ONLY <1>1, <1>2
<1> PICK d0 \in {0, 1} : d0 = (BitOf(x, 0) + BitOf(y, 0)) % 2
  BY ONLY <1>3, BitType, 0 \in 0 .. 7
<1> PICK d1 \in {0, 1} : d1 = (BitOf(x, 1) + BitOf(y, 1)) % 2
  BY ONLY <1>3, BitType, 1 \in 0 .. 7
<1> PICK d2 \in {0, 1} : d2 = (BitOf(x, 2) + BitOf(y, 2)) % 2
  BY ONLY <1>3, BitType, 2 \in 0 .. 7
<1> PICK d3 \in {0, 1} : d3 = (BitOf(x, 3) + BitOf(y, 3)) % 2
  BY ONLY <1>3, BitType, 3 \in 0 .. 7
<1> PICK d4 \in {0, 1} : d4 = (BitOf(x, 4) + BitOf(y, 4)) % 2
  BY ONLY <1>3, BitType, 4 \in 0 .. 7
<1> PICK d5 \in {0, 1} : d5 = (BitOf(x, 5) + BitOf(y, 5)) % 2
  BY ONLY <1>3, BitType, 5 \in 0 .. 7
<1> PICK d6 \in {0, 1} : d6 = (BitOf(x, 6) + BitOf(y, 6)) % 2
  BY ONLY <1>3, BitType, 6 \in 0 .. 7
<1> PICK d7 \in {0, 1} : d7 = (BitOf(x, 7) + BitOf(y, 7)) % 2
  BY ONLY <1>3, BitType, 7 \in 0 .. 7
<1>4. Xor(x, y) = d0 + (2 * d1) + (4 * d2) + (8 * d3) + (16 * d4) + (32 * d5) + (64 * d6) + (128 * d7)
  BY ONLY d0 = (BitOf(x, 0) + BitOf(y, 0)) % 2, d1 = (BitOf(x, 1) + BitOf(y, 1)) % 2, d2 = (BitOf(x, 2) + BitOf(y, 2)) % 2, d3 = (BitOf(x, 3) + BitOf(y, 3)) % 2, d4 = (BitOf(x, 4) + BitOf(y, 4)) % 2, d5 = (BitOf(x, 5) + BitOf(y, 5)) % 2, d6 = (BitOf(x, 6) + BitOf(y, 6)) % 2, d7 = (BitOf(x, 7) + BitOf(y, 7)) % 2 DEF Xor, OfBits
<1>5. p <= 2 => d1 = 0
  <2> HAVE p <= 2
  <2>1. (x \div 2) % 2 = 0 /\ (y \div 2) % 2 = 0
    BY ONLY <1>1, <1>2, p <= 2
  <2>2. BitOf(x, 1) = 0 /\ BitOf(y, 1) = 0
    BY ONLY <2>1 DEF BitOf
  <2> QED BY ONLY <2>2, d1 = (BitOf(x, 1) + BitOf(y, 1)) % 2
<1>6. p <= 4 => d2 = 0
  <2> HAVE p <= 4
  <2>1. (x \div 4) % 2 = 0 /\ (y \div 4) % 2 = 0
    BY ONLY <1>1, <1>2, p <= 4
  <2>2. BitOf(x, 2) = 0 /\ BitOf(y, 2) = 0
    BY ONLY <2>1 DEF BitOf
  <2> QED BY ONLY <2>2, d2 = (BitOf(x, 2) + BitOf(y, 2)) % 2
<1>7. p <= 8 => d3 = 0
  <2> HAVE p <= 8
  <2>1. (x \div 8) % 2 = 0 /\ (y \div 8) % 2 = 0
    BY ONLY <1>1, <1>2, p <= 8
  <2>2. BitOf(x, 3) = 0 /\ BitOf(y, 3) = 0
    BY ONLY <2>1 DEF BitOf
  <2> QED BY ONLY <2>2, d3 = (BitOf(x, 3) + BitOf(y, 3)) % 2
<1>8. p <= 16 => d4 = 0
  <2> HAVE p <= 16
  <2>1. (x \div 16) % 2 = 0 /\ (y \div 16) % 2 = 0
    BY ONLY <1>1, <1>2, p <= 16
  <2>2. BitOf(x, 4) = 0 /\ BitOf(y, 4) = 0
    BY ONLY <2>1 DEF BitOf
  <2> QED BY ONLY <2>2, d4 = (BitOf(x, 4) + BitOf(y, 4)) % 2
<1>9. p <= 32 => d5 = 0
  <2> HAVE p <= 32
  <2>1. (x \div 32) % 2 = 0 /\ (y \div 32) % 2 = 0
    BY ONLY <1>1, <1>2, p <= 32
  <2>2. BitOf(x, 5) = 0 /\ BitOf(y, 5) = 0
    BY ONLY <2>1 DEF BitOf
  <2> QED BY ONLY <2>2, d5 = (BitOf(x, 5) + BitOf(y, 5)) % 2
<1>10. p <= 64 => d6 = 0
  <2> HAVE p <= 64
  <2>1. (x \div 64) % 2 = 0 /\ (y \div 64) % 2 = 0
    BY ONLY <1>1, <1>2, p <= 64
  <2>2. BitOf(x, 6) = 0 /\ BitOf(y, 6) = 0
    BY ONLY <2>1 DEF BitOf
  <2> QED BY ONLY <2>2, d6 = (BitOf(x, 6) + BitOf(y, 6)) % 2
<1>11. p <= 128 => d7 = 0
  <2> HAVE p <= 128
  <2>1. (x \div 128) % 2 = 0 /\ (y \div 128) % 2 = 0
    BY ONLY <1>1, <1>2, p <= 128
  <2>2. BitOf(x, 7) = 0 /\ BitOf(y, 7) = 0
    BY ONLY <2>1 DEF BitOf
  <2> QED BY ONLY <2>2, d7 = (BitOf(x, 7) + BitOf(y, 7)) % 2
<1>12. Xor(x, y) \in 0 .. p - 1
  BY ONLY <1>1, <1>4, <1>5, <1>6, <1>7, <1>8, <1>9, <1>10, <1>11, d0 \in {0, 1}, d1 \in {0, 1}, d2 \in {0, 1}, d3 \in {0, 1}, d4 \in {0, 1}, d5 \in {0, 1}, d6 \in {0, 1}, d7 \in {0, 1}
<1> QED BY ONLY <1>12, p = 2 ^ n

(* The laws of the operators on bits, for every two bytes.                 *)
LEMMA ByteAnd ==
  ASSUME NEW x \in Eight, NEW y \in Eight
  PROVE  And(x, y) \in Eight
<1> PICK b : b = [k \in 0 .. 7 |-> BitOf(x, k) * BitOf(y, k)]
  OBVIOUS
<1>1. x \in Nat /\ y \in Nat
  BY DEF Eight
<1>2. \A k \in 0 .. 7 : BitOf(x, k) \in {0, 1} /\ BitOf(y, k) \in {0, 1}
  BY <1>1, BitType
<1>3. b \in BitRow
  BY <1>2 DEF BitRow
<1> QED BY <1>3, ByteOfRow DEF And, Eight

LEMMA MaskLaw ==
  ASSUME NEW x \in Eight, NEW y \in Eight, NEW z, z = 255 - y
  PROVE  And(x, z) = x - And(x, y)
BY MaskedOut

LEMMA BitLaw ==
  ASSUME NEW x \in Eight, NEW n \in Place
  PROVE  BitOf(x, n) \in {0, 1}
BY BitType DEF Eight, Place

-----------------------------------------------------------------------------
(* The processor.                                                          *)

Regs == [a : 0 .. 255, x : 0 .. 255, y : 0 .. 255, s : 0 .. 255,
         n : {0, 1}, v : {0, 1}, d : {0, 1}, i : {0, 1}, z : {0, 1}, c : {0, 1}]

Agree(m, r, v) == emit_insn(m, r, v) = interp_op(m, r, v)

(* A value moved into a register, with its flags.                          *)
LoadA(r, w) == Quiet(lynx_set_nz([r EXCEPT !.a = w], w))
LoadX(r, w) == Quiet(lynx_set_nz([r EXCEPT !.x = w], w))
LoadY(r, w) == Quiet(lynx_set_nz([r EXCEPT !.y = w], w))

LEMMA SameFlags ==
  ASSUME NEW r, NEW w
  PROVE  /\ setnz(r, w) = lynx_set_nz(r, w)
         /\ Assign(r, "a", w) = LoadA(r, w)
         /\ Assign(r, "x", w) = LoadX(r, w)
         /\ Assign(r, "y", w) = LoadY(r, w)
BY DEF setnz, lynx_set_nz, Assign, LoadA, LoadX, LoadY

LEMMA BranchesAgree ==
  ASSUME NEW m \in Branches, NEW r \in Regs, NEW v
  PROVE  Agree(m, r, v)
<1>1. /\ emit_insn("BPL", r, v) = Out(r, 1 - r.n)
      /\ emit_insn("BMI", r, v) = Out(r, r.n)
      /\ emit_insn("BVC", r, v) = Out(r, 1 - r.v)
      /\ emit_insn("BVS", r, v) = Out(r, r.v)
      /\ emit_insn("BCC", r, v) = Out(r, 1 - r.c)
      /\ emit_insn("BCS", r, v) = Out(r, r.c)
      /\ emit_insn("BNE", r, v) = Out(r, 1 - r.z)
      /\ emit_insn("BEQ", r, v) = Out(r, r.z)
  <2>1. /\ emit_insn("BPL", r, v) = Out(r, branch_cond("BPL", r))
        /\ emit_insn("BMI", r, v) = Out(r, branch_cond("BMI", r))
        /\ emit_insn("BVC", r, v) = Out(r, branch_cond("BVC", r))
        /\ emit_insn("BVS", r, v) = Out(r, branch_cond("BVS", r))
        /\ emit_insn("BCC", r, v) = Out(r, branch_cond("BCC", r))
        /\ emit_insn("BCS", r, v) = Out(r, branch_cond("BCS", r))
        /\ emit_insn("BNE", r, v) = Out(r, branch_cond("BNE", r))
        /\ emit_insn("BEQ", r, v) = Out(r, branch_cond("BEQ", r))
    BY DEF emit_insn, Branches, Modifies, OnA, FlagOps
  <2>2. /\ branch_cond("BPL", r) = 1 - r.n
        /\ branch_cond("BMI", r) = r.n
        /\ branch_cond("BVC", r) = 1 - r.v
        /\ branch_cond("BVS", r) = r.v
        /\ branch_cond("BCC", r) = 1 - r.c
        /\ branch_cond("BCS", r) = r.c
        /\ branch_cond("BNE", r) = 1 - r.z
        /\ branch_cond("BEQ", r) = r.z
    BY DEF branch_cond
  <2> QED BY ONLY <2>1, <2>2
<1>2. /\ interp_op("BPL", r, v) = Out(r, AsBit(r.n = 0))
      /\ interp_op("BMI", r, v) = Out(r, AsBit(r.n = 1))
      /\ interp_op("BVC", r, v) = Out(r, AsBit(r.v = 0))
      /\ interp_op("BVS", r, v) = Out(r, AsBit(r.v = 1))
      /\ interp_op("BCC", r, v) = Out(r, AsBit(r.c = 0))
      /\ interp_op("BCS", r, v) = Out(r, AsBit(r.c = 1))
      /\ interp_op("BNE", r, v) = Out(r, AsBit(r.z = 0))
      /\ interp_op("BEQ", r, v) = Out(r, AsBit(r.z = 1))
  BY DEF interp_op, FlagOps
<1>3. /\ AsBit(r.n = 1) = r.n /\ AsBit(r.n = 0) = 1 - r.n
      /\ AsBit(r.v = 1) = r.v /\ AsBit(r.v = 0) = 1 - r.v
      /\ AsBit(r.c = 1) = r.c /\ AsBit(r.c = 0) = 1 - r.c
      /\ AsBit(r.z = 1) = r.z /\ AsBit(r.z = 0) = 1 - r.z
  BY DEF AsBit, Regs
<1> QED BY <1>1, <1>2, <1>3 DEF Agree, Branches

LEMMA LoadsAgree ==
  ASSUME NEW m \in {"LDA", "LDX", "LDY", "ORA", "AND", "EOR", "TAX", "TAY", "TXA", "TYA", "TSX"}, NEW r, NEW v
  PROVE  Agree(m, r, v)
<1>1. /\ emit_insn("LDA", r, v) = LoadA(r, v)
      /\ emit_insn("LDX", r, v) = LoadX(r, v)
      /\ emit_insn("LDY", r, v) = LoadY(r, v)
      /\ emit_insn("ORA", r, v) = LoadA(r, Or(r.a, v))
      /\ emit_insn("AND", r, v) = LoadA(r, And(r.a, v))
      /\ emit_insn("EOR", r, v) = LoadA(r, Xor(r.a, v))
      /\ emit_insn("TAX", r, v) = LoadX(r, r.a)
      /\ emit_insn("TAY", r, v) = LoadY(r, r.a)
      /\ emit_insn("TXA", r, v) = LoadA(r, r.x)
      /\ emit_insn("TYA", r, v) = LoadA(r, r.y)
      /\ emit_insn("TSX", r, v) = LoadX(r, r.s)
  BY DEF emit_insn, Branches, Modifies, OnA, FlagOps, LoadA, LoadX, LoadY
<1>2. /\ interp_op("LDA", r, v) = Assign(r, "a", v)
      /\ interp_op("LDX", r, v) = Assign(r, "x", v)
      /\ interp_op("LDY", r, v) = Assign(r, "y", v)
      /\ interp_op("ORA", r, v) = Assign(r, "a", Or(r.a, v))
      /\ interp_op("AND", r, v) = Assign(r, "a", And(r.a, v))
      /\ interp_op("EOR", r, v) = Assign(r, "a", Xor(r.a, v))
      /\ interp_op("TAX", r, v) = Assign(r, "x", r.a)
      /\ interp_op("TAY", r, v) = Assign(r, "y", r.a)
      /\ interp_op("TXA", r, v) = Assign(r, "a", r.x)
      /\ interp_op("TYA", r, v) = Assign(r, "a", r.y)
      /\ interp_op("TSX", r, v) = Assign(r, "x", r.s)
  BY DEF interp_op, FlagOps
<1> QED BY <1>1, <1>2, SameFlags DEF Agree

LEMMA StoresAgree ==
  ASSUME NEW m \in {"STA", "STX", "STY", "STZ", "TXS"}, NEW r, NEW v
  PROVE  Agree(m, r, v)
<1>1. /\ emit_insn("STA", r, v) = Out(r, r.a)
      /\ emit_insn("STX", r, v) = Out(r, r.x)
      /\ emit_insn("STY", r, v) = Out(r, r.y)
      /\ emit_insn("STZ", r, v) = Out(r, 0)
      /\ emit_insn("TXS", r, v) = Quiet([r EXCEPT !.s = r.x])
  BY DEF emit_insn, Branches, Modifies, OnA, FlagOps
<1>2. /\ interp_op("STA", r, v) = Out(r, r.a)
      /\ interp_op("STX", r, v) = Out(r, r.x)
      /\ interp_op("STY", r, v) = Out(r, r.y)
      /\ interp_op("STZ", r, v) = Out(r, 0)
      /\ interp_op("TXS", r, v) = Quiet([r EXCEPT !.s = r.x])
  BY DEF interp_op, FlagOps
<1> QED BY <1>1, <1>2 DEF Agree

LEMMA Down == \A n \in Int : Byte8(n - 1) = Byte8(n + 255)
BY DEF Byte8

LEMMA CountsAgree ==
  ASSUME NEW m \in {"INX", "INY", "DEX", "DEY", "INC", "DEC"}, NEW r \in Regs, NEW v \in 0 .. 255
  PROVE  Agree(m, r, v)
<1> DEFINE modify(w) == Out(lynx_set_nz(r, w), w)
<1>0. r.x \in Int /\ r.y \in Int /\ v \in Int
  BY DEF Regs
<1>1. /\ emit_insn("INX", r, v) = LoadX(r, Byte8(r.x + 1))
      /\ emit_insn("INY", r, v) = LoadY(r, Byte8(r.y + 1))
      /\ emit_insn("DEX", r, v) = LoadX(r, Byte8(r.x - 1))
      /\ emit_insn("DEY", r, v) = LoadY(r, Byte8(r.y - 1))
      /\ emit_insn("INC", r, v) = modify(Byte8(v + 1))
      /\ emit_insn("DEC", r, v) = modify(Byte8(v - 1))
  BY DEF emit_insn, Branches, Modifies, OnA, FlagOps, LoadX, LoadY, lynx_alu
<1>2. /\ interp_op("INX", r, v) = Assign(r, "x", Byte8(r.x + 1))
      /\ interp_op("INY", r, v) = Assign(r, "y", Byte8(r.y + 1))
      /\ interp_op("DEX", r, v) = Assign(r, "x", Byte8(r.x + 255))
      /\ interp_op("DEY", r, v) = Assign(r, "y", Byte8(r.y + 255))
      /\ interp_op("INC", r, v) = Out(setnz(r, Byte8(v + 1)), Byte8(v + 1))
      /\ interp_op("DEC", r, v) = Out(setnz(r, Byte8(v + 255)), Byte8(v + 255))
  BY DEF interp_op, FlagOps
<1> QED BY <1>0, <1>1, <1>2, SameFlags, Down DEF Agree

LEMMA ComparesAgree ==
  ASSUME NEW m \in {"CMP", "CPX", "CPY"}, NEW r, NEW v
  PROVE  Agree(m, r, v)
<1>0. \A reg : lynx_cmp_reg(r, reg, v) = cmp_(r, reg, v)
  BY SameFlags DEF lynx_cmp_reg, cmp_
<1>1. /\ emit_insn("CMP", r, v) = Quiet(lynx_cmp_reg(r, r.a, v))
      /\ emit_insn("CPX", r, v) = Quiet(lynx_cmp_reg(r, r.x, v))
      /\ emit_insn("CPY", r, v) = Quiet(lynx_cmp_reg(r, r.y, v))
  BY DEF emit_insn, Branches, Modifies, OnA, FlagOps
<1>2. /\ interp_op("CMP", r, v) = Quiet(cmp_(r, r.a, v))
      /\ interp_op("CPX", r, v) = Quiet(cmp_(r, r.x, v))
      /\ interp_op("CPY", r, v) = Quiet(cmp_(r, r.y, v))
  BY DEF interp_op, FlagOps
<1>3. Agree("CMP", r, v) /\ Agree("CPX", r, v) /\ Agree("CPY", r, v)
  BY ONLY <1>0, <1>1, <1>2 DEF Agree
<1> QED BY ONLY <1>3, m \in {"CMP", "CPX", "CPY"}

LEMMA TestsAgree ==
  ASSUME NEW m \in {"BIT", "BIT #"}, NEW r, NEW v
  PROVE  Agree(m, r, v)
<1> DEFINE masked == [r EXCEPT !.z = AsBit(And(r.a, v) = 0)]
<1>1. emit_insn("BIT #", r, v) = Quiet(masked)
  BY DEF emit_insn, Branches, Modifies, OnA, FlagOps
<1>2. interp_op("BIT #", r, v) = Quiet(masked)
  BY DEF interp_op, FlagOps
<1>3. emit_insn("BIT", r, v) = Quiet([masked EXCEPT !.n = Bit7(v), !.v = (v \div 64) % 2])
  BY DEF emit_insn, Branches, Modifies, OnA, FlagOps
<1>4. interp_op("BIT", r, v) = Quiet([masked EXCEPT !.n = Bit7(v), !.v = (v \div 64) % 2])
  BY DEF interp_op, FlagOps
<1> HIDE DEF masked
<1>5. Agree("BIT", r, v) /\ Agree("BIT #", r, v)
  BY ONLY <1>1, <1>2, <1>3, <1>4 DEF Agree
<1> QED BY ONLY <1>5, m \in {"BIT", "BIT #"}

LEMMA BitsAgree ==
  ASSUME NEW m \in {"RMB", "SMB", "BBR", "BBS", "TSB", "TRB"}, NEW r \in Regs, NEW v \in 0 .. 255
  PROVE  Agree(m, r, v)
<1> PICK n \in 0 .. 7 : n = TheBit
  BY AluAssumption
<1>b. v \in Eight /\ n \in Place
  BY DEF Eight, Place
<1>a. 2 ^ n \in 1 .. 128 /\ BitOf(v, n) \in {0, 1} /\ And(v, 2 ^ n) = (2 ^ n) * BitOf(v, n)
  BY ONLY OneBit, BitLaw, <1>b
<1> PICK p \in 1 .. 128 : p = 2 ^ n
  BY ONLY <1>a, Zenon
<1> PICK b \in {0, 1} : b = BitOf(v, n)
  BY ONLY <1>a, Zenon
<1> PICK a \in 0 .. 255 : a = r.a
  BY DEF Regs
<1>0. And(v, p) = p * b
  BY ONLY <1>a, p = 2 ^ n, b = BitOf(v, n), Zenon
<1> PICK test : test = [r EXCEPT !.z = AsBit(And(a, v) = 0)]
  OBVIOUS
<1> PICK p1 \in 0 .. 255 : p1 = 255 - p
  OBVIOUS
<1> PICK a1 \in 0 .. 255 : a1 = 255 - a
  OBVIOUS
<1>1. /\ emit_insn("RMB", r, v) = Out(r, IF b = 1 THEN v - p ELSE v)
      /\ emit_insn("SMB", r, v) = Out(r, (IF b = 1 THEN v - p ELSE v) + p)
      /\ emit_insn("BBR", r, v) = Out(r, AsBit(b = 0))
      /\ emit_insn("BBS", r, v) = Out(r, AsBit(b # 0))
      /\ emit_insn("TSB", r, v) = Out(test, Or(v, a))
      /\ emit_insn("TRB", r, v) = Out(test, v - And(v, a))
  BY DEF emit_insn, Branches, Modifies, OnA, FlagOps, lynx_alu, Clear, Set
<1>2. /\ interp_op("RMB", r, v) = Out(r, And(v, p1))
      /\ interp_op("SMB", r, v) = Out(r, Or(v, p))
      /\ interp_op("BBR", r, v) = Out(r, AsBit(And(v, p) = 0))
      /\ interp_op("BBS", r, v) = Out(r, AsBit(And(v, p) # 0))
      /\ interp_op("TSB", r, v) = Out(test, Or(v, a))
      /\ interp_op("TRB", r, v) = Out(test, And(v, a1))
  BY DEF interp_op, FlagOps
<1>3. And(v, p1) = v - p * b /\ Or(v, p) = v + p - p * b
  <2>1. p \in Eight
    BY DEF Eight
  <2>2. And(v, p1) = v - And(v, p) /\ Or(v, p) = v + p - And(v, p)
    BY ONLY <2>1, <1>b, p1 = 255 - p, MaskLaw, OrIs
  <2> QED BY ONLY <2>2, <1>0
<1>4. And(v, a1) = v - And(v, a)
  <2>1. a \in Eight
    BY DEF Eight
  <2> QED BY ONLY <2>1, <1>b, a1 = 255 - a, MaskLaw
<1>5. /\ (IF b = 1 THEN v - p ELSE v) = v - p * b
      /\ (IF b = 1 THEN v - p ELSE v) + p = v + p - p * b
      /\ p * b = 0 <=> b = 0
  <2>1. CASE b = 0
    BY ONLY <2>1, p \in 1 .. 128, v \in 0 .. 255
  <2>2. CASE b = 1
    BY ONLY <2>2, p \in 1 .. 128, v \in 0 .. 255
  <2> QED BY <2>1, <2>2
<1>6. AsBit(b = 0) = AsBit(p * b = 0) /\ AsBit(b # 0) = AsBit(p * b # 0)
  BY ONLY <1>5 DEF AsBit
<1>7. /\ Agree("RMB", r, v) /\ Agree("SMB", r, v) /\ Agree("BBR", r, v)
      /\ Agree("BBS", r, v) /\ Agree("TSB", r, v) /\ Agree("TRB", r, v)
  <2>1. Agree("RMB", r, v)
    BY ONLY <1>1, <1>2, <1>3, <1>5 DEF Agree
  <2>2. Agree("SMB", r, v)
    BY ONLY <1>1, <1>2, <1>3, <1>5 DEF Agree
  <2>3. Agree("BBR", r, v) /\ Agree("BBS", r, v)
    BY ONLY <1>0, <1>1, <1>2, <1>6 DEF Agree
  <2>4. Agree("TSB", r, v) /\ Agree("TRB", r, v)
    BY ONLY <1>1, <1>2, <1>4 DEF Agree
  <2> QED BY <2>1, <2>2, <2>3, <2>4
<1> QED BY ONLY <1>7, m \in {"RMB", "SMB", "BBR", "BBS", "TSB", "TRB"}

(* Shifts: the bit shifted in is added to an even number, or is bit 7.     *)
LEMMA ShiftedSame ==
  ASSUME NEW v \in 0 .. 255, NEW c \in {0, 1}
  PROVE  /\ Byte8(v * 2) = Byte8(2 * v + 0) /\ Byte8(v * 2) + c = Byte8(2 * v + c)
         /\ v \div 2 = 128 * 0 + (v \div 2) /\ (v \div 2) + (128 * c) = 128 * c + (v \div 2)
BY DEF Byte8

LEMMA ShiftsAgree ==
  ASSUME NEW m \in {"ASL", "LSR", "ROL", "ROR"}, NEW r \in Regs, NEW v \in 0 .. 255
  PROVE  lynx_alu(m, r, v) = Shift(m, r, v)
<1> DEFINE ToLeft(w) == Out(lynx_set_nz([r EXCEPT !.c = Bit7(v)], w), w)
<1> DEFINE ToRight(w) == Out(lynx_set_nz([r EXCEPT !.c = v % 2], w), w)
<1>0. r.c \in {0, 1}
  BY DEF Regs
<1>1. /\ lynx_alu("ASL", r, v) = ToLeft(Byte8(v * 2))
      /\ lynx_alu("LSR", r, v) = ToRight(v \div 2)
      /\ lynx_alu("ROL", r, v) = ToLeft(Byte8(v * 2) + r.c)
      /\ lynx_alu("ROR", r, v) = ToRight((v \div 2) + (128 * r.c))
  BY DEF lynx_alu
<1>2. /\ Shift("ASL", r, v) = ToLeft(Byte8(2 * v + 0))
      /\ Shift("LSR", r, v) = ToRight(128 * 0 + (v \div 2))
      /\ Shift("ROL", r, v) = ToLeft(Byte8(2 * v + r.c))
      /\ Shift("ROR", r, v) = ToRight(128 * r.c + (v \div 2))
  BY SameFlags DEF Shift
<1> HIDE DEF ToLeft, ToRight
<1> QED BY <1>0, <1>1, <1>2, ShiftedSame

LEMMA ModifiesAgree ==
  ASSUME NEW m \in {"ASL", "LSR", "ROL", "ROR"}, NEW r \in Regs, NEW v \in 0 .. 255
  PROVE  Agree(m, r, v)
<1>1. /\ emit_insn("ASL", r, v) = lynx_alu("ASL", r, v)
      /\ emit_insn("LSR", r, v) = lynx_alu("LSR", r, v)
      /\ emit_insn("ROL", r, v) = lynx_alu("ROL", r, v)
      /\ emit_insn("ROR", r, v) = lynx_alu("ROR", r, v)
  BY DEF emit_insn, Branches, Modifies, OnA, FlagOps
<1>2. /\ interp_op("ASL", r, v) = Shift("ASL", r, v)
      /\ interp_op("LSR", r, v) = Shift("LSR", r, v)
      /\ interp_op("ROL", r, v) = Shift("ROL", r, v)
      /\ interp_op("ROR", r, v) = Shift("ROR", r, v)
  BY DEF interp_op, FlagOps
<1> QED BY <1>1, <1>2, ShiftsAgree DEF Agree

LEMMA OnAAgree ==
  ASSUME NEW m \in OnA, NEW r \in Regs, NEW v \in 0 .. 255
  PROVE  Agree(m, r, v)
<1> DEFINE Into(res) == Quiet([res.cpu EXCEPT !.a = res.out])
<1>0. r.a \in 0 .. 255
  BY DEF Regs
<1>1. /\ emit_insn("INC A", r, v) = Into(lynx_alu("INC", r, r.a))
      /\ emit_insn("DEC A", r, v) = Into(lynx_alu("DEC", r, r.a))
      /\ emit_insn("ASL A", r, v) = Into(lynx_alu("ASL", r, r.a))
      /\ emit_insn("LSR A", r, v) = Into(lynx_alu("LSR", r, r.a))
      /\ emit_insn("ROL A", r, v) = Into(lynx_alu("ROL", r, r.a))
      /\ emit_insn("ROR A", r, v) = Into(lynx_alu("ROR", r, r.a))
  BY DEF emit_insn, Branches, Modifies, OnA, OfA, FlagOps
<1>2. /\ interp_op("ASL A", r, v) = Into(Shift("ASL", r, r.a))
      /\ interp_op("LSR A", r, v) = Into(Shift("LSR", r, r.a))
      /\ interp_op("ROL A", r, v) = Into(Shift("ROL", r, r.a))
      /\ interp_op("ROR A", r, v) = Into(Shift("ROR", r, r.a))
      /\ interp_op("INC A", r, v) = Assign(r, "a", Byte8(r.a + 1))
      /\ interp_op("DEC A", r, v) = Assign(r, "a", Byte8(r.a + 255))
  BY DEF interp_op, OfA, FlagOps
<1>3. /\ lynx_alu("ASL", r, r.a) = Shift("ASL", r, r.a)
      /\ lynx_alu("LSR", r, r.a) = Shift("LSR", r, r.a)
      /\ lynx_alu("ROL", r, r.a) = Shift("ROL", r, r.a)
      /\ lynx_alu("ROR", r, r.a) = Shift("ROR", r, r.a)
  BY <1>0, ShiftsAgree
<1>4. CASE m \in {"ASL A", "LSR A", "ROL A", "ROR A"}
  <2> HIDE DEF Into
  <2>1. Agree("ASL A", r, v) /\ Agree("LSR A", r, v) /\ Agree("ROL A", r, v) /\ Agree("ROR A", r, v)
    BY ONLY <1>1, <1>2, <1>3 DEF Agree
  <2> QED BY ONLY <2>1, <1>4
<1>5. CASE m \in {"INC A", "DEC A"}
  <2>1. /\ lynx_alu("INC", r, r.a) = Out(lynx_set_nz(r, Byte8(r.a + 1)), Byte8(r.a + 1))
        /\ lynx_alu("DEC", r, r.a) = Out(lynx_set_nz(r, Byte8(r.a - 1)), Byte8(r.a - 1))
    BY DEF lynx_alu
  <2>2. \A w : Into(Out(lynx_set_nz(r, w), w)) = LoadA(r, w)
    <3> TAKE w
    <3>1. Into(Out(lynx_set_nz(r, w), w)) = Quiet([lynx_set_nz(r, w) EXCEPT !.a = w])
      BY DEF Out
    <3>2. [lynx_set_nz(r, w) EXCEPT !.a = w] = lynx_set_nz([r EXCEPT !.a = w], w)
      BY DEF lynx_set_nz, Regs
    <3> QED BY <3>1, <3>2 DEF LoadA
  <2> PICK a \in Int : a = r.a
    BY <1>0
  <2>3. Byte8(r.a - 1) = Byte8(r.a + 255)
    BY Down
  <2> HIDE DEF Into
  <2>4. emit_insn("INC A", r, v) = LoadA(r, Byte8(r.a + 1)) /\ emit_insn("DEC A", r, v) = LoadA(r, Byte8(r.a - 1))
    BY <1>1, <2>1, <2>2
  <2>5. Agree("INC A", r, v) /\ Agree("DEC A", r, v)
    <3>1. /\ interp_op("INC A", r, v) = LoadA(r, Byte8(r.a + 1))
          /\ interp_op("DEC A", r, v) = LoadA(r, Byte8(r.a + 255))
      <4>1. \A w : Assign(r, "a", w) = LoadA(r, w)
        BY SameFlags
      <4> QED BY ONLY <1>2, <4>1
    <3> QED BY ONLY <3>1, <2>3, <2>4 DEF Agree
  <2> QED BY ONLY <2>5, <1>5
<1> QED BY <1>4, <1>5 DEF OnA

(* The seven instructions that set or clear a flag.                        *)
LEMMA Places ==
  ASSUME NEW ms, ms = <<"CLC", "SEC", "CLI", "SEI", "CLD", "SED", "CLV">>
  PROVE  /\ IndexOf("CLC", ms) = 1
         /\ IndexOf("SEC", ms) = 2
         /\ IndexOf("CLI", ms) = 3
         /\ IndexOf("SEI", ms) = 4
         /\ IndexOf("CLD", ms) = 5
         /\ IndexOf("SED", ms) = 6
         /\ IndexOf("CLV", ms) = 7
<1>1. DOMAIN ms = 1 .. 7
  BY ONLY ms = <<"CLC", "SEC", "CLI", "SEI", "CLD", "SED", "CLV">>
<1>2. /\ ms[1] = "CLC"
      /\ ms[2] = "SEC"
      /\ ms[3] = "CLI"
      /\ ms[4] = "SEI"
      /\ ms[5] = "CLD"
      /\ ms[6] = "SED"
      /\ ms[7] = "CLV"
  BY ONLY ms = <<"CLC", "SEC", "CLI", "SEI", "CLD", "SED", "CLV">>
<1>3. \A j, k \in 1 .. 7 : ms[j] = ms[k] => j = k
  BY ONLY <1>2
<1>4. \A k \in 1 .. 7 : IndexOf(ms[k], ms) = k
  <2> TAKE k \in 1 .. 7
  <2>1. k \in DOMAIN ms /\ ms[k] = ms[k]
    BY <1>1
  <2>2. IndexOf(ms[k], ms) \in DOMAIN ms /\ ms[IndexOf(ms[k], ms)] = ms[k]
    BY <2>1 DEF IndexOf
  <2> QED BY <2>2, <1>1, <1>3
<1> QED BY <1>2, <1>4

LEMMA FlagOpsAgree ==
  ASSUME NEW m \in FlagOps, NEW r \in Regs, NEW v
  PROVE  Agree(m, r, v)
<1> PICK ms : ms = <<"CLC", "SEC", "CLI", "SEI", "CLD", "SED", "CLV">>
  OBVIOUS
<1> PICK fs : fs = <<"c", "c", "i", "i", "d", "d", "v">>
  OBVIOUS
<1>1. /\ emit_insn("CLC", r, v) = Quiet(FlagOp("CLC", r))
      /\ emit_insn("SEC", r, v) = Quiet(FlagOp("SEC", r))
      /\ emit_insn("CLI", r, v) = Quiet(FlagOp("CLI", r))
      /\ emit_insn("SEI", r, v) = Quiet(FlagOp("SEI", r))
      /\ emit_insn("CLD", r, v) = Quiet(FlagOp("CLD", r))
      /\ emit_insn("SED", r, v) = Quiet(FlagOp("SED", r))
      /\ emit_insn("CLV", r, v) = Quiet(FlagOp("CLV", r))
  BY DEF emit_insn, Branches, Modifies, OnA, FlagOps
<1>2. /\ FlagOp("CLC", r) = [r EXCEPT !.c = 0]
      /\ FlagOp("SEC", r) = [r EXCEPT !.c = 1]
      /\ FlagOp("CLI", r) = [r EXCEPT !.i = 0]
      /\ FlagOp("SEI", r) = [r EXCEPT !.i = 1]
      /\ FlagOp("CLD", r) = [r EXCEPT !.d = 0]
      /\ FlagOp("SED", r) = [r EXCEPT !.d = 1]
      /\ FlagOp("CLV", r) = [r EXCEPT !.v = 0]
  BY DEF FlagOp
<1>3. /\ interp_op("CLC", r, v) = Quiet([r EXCEPT ![fs[IndexOf("CLC", ms)]] = 0])
      /\ interp_op("SEC", r, v) = Quiet([r EXCEPT ![fs[IndexOf("SEC", ms)]] = 1])
      /\ interp_op("CLI", r, v) = Quiet([r EXCEPT ![fs[IndexOf("CLI", ms)]] = 0])
      /\ interp_op("SEI", r, v) = Quiet([r EXCEPT ![fs[IndexOf("SEI", ms)]] = 1])
      /\ interp_op("CLD", r, v) = Quiet([r EXCEPT ![fs[IndexOf("CLD", ms)]] = 0])
      /\ interp_op("SED", r, v) = Quiet([r EXCEPT ![fs[IndexOf("SED", ms)]] = 1])
      /\ interp_op("CLV", r, v) = Quiet([r EXCEPT ![fs[IndexOf("CLV", ms)]] = 0])
  BY DEF interp_op, FlagOps, AsBit
<1>4. /\ fs[IndexOf("CLC", ms)] = "c"
      /\ fs[IndexOf("SEC", ms)] = "c"
      /\ fs[IndexOf("CLI", ms)] = "i"
      /\ fs[IndexOf("SEI", ms)] = "i"
      /\ fs[IndexOf("CLD", ms)] = "d"
      /\ fs[IndexOf("SED", ms)] = "d"
      /\ fs[IndexOf("CLV", ms)] = "v"
  BY Places
<1>5. /\ interp_op("CLC", r, v) = Quiet([r EXCEPT !.c = 0])
      /\ interp_op("SEC", r, v) = Quiet([r EXCEPT !.c = 1])
      /\ interp_op("CLI", r, v) = Quiet([r EXCEPT !.i = 0])
      /\ interp_op("SEI", r, v) = Quiet([r EXCEPT !.i = 1])
      /\ interp_op("CLD", r, v) = Quiet([r EXCEPT !.d = 0])
      /\ interp_op("SED", r, v) = Quiet([r EXCEPT !.d = 1])
      /\ interp_op("CLV", r, v) = Quiet([r EXCEPT !.v = 0])
  BY ONLY <1>3, <1>4
<1>6. /\ Agree("CLC", r, v)
      /\ Agree("SEC", r, v)
      /\ Agree("CLI", r, v)
      /\ Agree("SEI", r, v)
      /\ Agree("CLD", r, v)
      /\ Agree("SED", r, v)
      /\ Agree("CLV", r, v)
  BY ONLY <1>1, <1>2, <1>5 DEF Agree
<1> QED BY ONLY <1>6, m \in FlagOps DEF FlagOps

(* The stack pointer moves by one, modulo 256, and the status byte that is *)
(* pushed has its B bit set already.                                       *)
LEMMA PushesAgree ==
  ASSUME NEW m \in {"PHA", "PHX", "PHY", "PHP"}, NEW r \in Regs, NEW v
  PROVE  Agree(m, r, v)
<1> PICK down : down = [r EXCEPT !.s = Byte8(r.s + 255)]
  OBVIOUS
<1>0. [r EXCEPT !.s = Byte8(r.s - 1)] = down
  <2> PICK sp \in Int : sp = r.s
    BY DEF Regs
  <2>1. Byte8(sp - 1) = Byte8(sp + 255)
    BY Down
  <2> QED BY <2>1
<1>1. /\ emit_insn("PHA", r, v) = lynx_push(r, r.a)
      /\ emit_insn("PHX", r, v) = lynx_push(r, r.x)
      /\ emit_insn("PHY", r, v) = lynx_push(r, r.y)
      /\ emit_insn("PHP", r, v) = lynx_push(r, lynx_p_pack(r))
  BY DEF emit_insn, Branches, Modifies, OnA, FlagOps
<1>2. \A w : lynx_push(r, w) = Out(down, w)
  BY <1>0 DEF lynx_push
<1>3. /\ interp_op("PHA", r, v) = Out(down, r.a)
      /\ interp_op("PHX", r, v) = Out(down, r.x)
      /\ interp_op("PHY", r, v) = Out(down, r.y)
      /\ interp_op("PHP", r, v) = Out(down, Or(pack_p(r), 16))
  BY DEF interp_op, FlagOps
<1>4. Or(pack_p(r), 16) = lynx_p_pack(r)
  <2> PICK p : p = lynx_p_pack(r)
    OBVIOUS
  <2> PICK fn \in {0, 1} : fn = r.n
    BY DEF Regs
  <2> PICK fv \in {0, 1} : fv = r.v
    BY DEF Regs
  <2> PICK fd \in {0, 1} : fd = r.d
    BY DEF Regs
  <2> PICK fi \in {0, 1} : fi = r.i
    BY DEF Regs
  <2> PICK fz \in {0, 1} : fz = r.z
    BY DEF Regs
  <2> PICK fc \in {0, 1} : fc = r.c
    BY DEF Regs
  <2>1. p = fn * 128 + fv * 64 + 48 + fd * 8 + fi * 4 + fz * 2 + fc /\ pack_p(r) = p
    <3>1. p = fn * 128 + fv * 64 + 48 + fd * 8 + fi * 4 + fz * 2 + fc
      BY ONLY p = lynx_p_pack(r), fn = r.n, fv = r.v, fd = r.d, fi = r.i, fz = r.z, fc = r.c DEF lynx_p_pack
    <3>2. pack_p(r) = fn * 128 + fv * 64 + 16 * 3 + fd * 8 + fi * 4 + fz * 2 + fc
      BY ONLY fn = r.n, fv = r.v, fd = r.d, fi = r.i, fz = r.z, fc = r.c DEF pack_p
    <3> QED BY ONLY <3>1, <3>2
  <2>2. p \in 0 .. 255 /\ (p \div 16) % 2 = 1 /\ pack_p(r) = p
    <3>1. p = 16 * (fn * 8 + fv * 4 + 3) + (fd * 8 + fi * 4 + fz * 2 + fc)
      BY ONLY <2>1, fn \in {0, 1}, fv \in {0, 1}, fd \in {0, 1}, fi \in {0, 1}, fz \in {0, 1}, fc \in {0, 1}
    <3> PICK q \in 3 .. 15 : q = fn * 8 + fv * 4 + 3
      BY ONLY fn \in {0, 1}, fv \in {0, 1}
    <3> PICK w \in 0 .. 15 : w = fd * 8 + fi * 4 + fz * 2 + fc
      BY ONLY fd \in {0, 1}, fi \in {0, 1}, fz \in {0, 1}, fc \in {0, 1}
    <3>2. q % 2 = 1
      BY ONLY fn \in {0, 1}, fv \in {0, 1}, q = fn * 8 + fv * 4 + 3
    <3>3. p = 16 * q + w
      BY ONLY <3>1, q = fn * 8 + fv * 4 + 3, w = fd * 8 + fi * 4 + fz * 2 + fc
    <3>4. p \in 0 .. 255 /\ p \div 16 = q
      BY ONLY <3>3, q \in 3 .. 15, w \in 0 .. 15
    <3> QED BY ONLY <3>2, <3>4, <2>1
  <2>3. 2 ^ 4 = 16 /\ BitOf(p, 4) = 1
    BY <2>2 DEF BitOf
  <2>4. p \in Eight /\ 4 \in Place /\ 16 \in Eight
    BY <2>2 DEF Eight, Place
  <2>5. And(p, 2 ^ 4) = (2 ^ 4) * BitOf(p, 4)
    BY ONLY <2>4, OneBit
  <2>6. And(p, 16) = 16
    BY ONLY <2>3, <2>5
  <2>7. Or(p, 16) = p + 16 - And(p, 16)
    BY ONLY <2>4, OrIs
  <2> QED BY ONLY <2>2, <2>6, <2>7, p = lynx_p_pack(r)
<1>5. Agree("PHA", r, v) /\ Agree("PHX", r, v) /\ Agree("PHY", r, v) /\ Agree("PHP", r, v)
  BY ONLY <1>1, <1>2, <1>3, <1>4 DEF Agree
<1> QED BY ONLY <1>5, m \in {"PHA", "PHX", "PHY", "PHP"}

LEMMA PullsAgree ==
  ASSUME NEW m \in {"PLA", "PLX", "PLY", "PLP"}, NEW r, NEW v \in 0 .. 255
  PROVE  Agree(m, r, v)
<1> PICK up : up = [r EXCEPT !.s = Byte8(r.s + 1)]
  OBVIOUS
<1>0. lynx_pull(r) = up
  BY DEF lynx_pull
<1>1. /\ emit_insn("PLA", r, v) = LoadA(up, v)
      /\ emit_insn("PLX", r, v) = LoadX(up, v)
      /\ emit_insn("PLY", r, v) = LoadY(up, v)
      /\ emit_insn("PLP", r, v) = Quiet(lynx_p_unpack(up, v))
  BY <1>0 DEF emit_insn, Branches, Modifies, OnA, FlagOps, LoadA, LoadX, LoadY
<1>2. /\ interp_op("PLA", r, v) = Assign(up, "a", v)
      /\ interp_op("PLX", r, v) = Assign(up, "x", v)
      /\ interp_op("PLY", r, v) = Assign(up, "y", v)
      /\ interp_op("PLP", r, v) = Quiet(unpack_p(up, v))
  BY DEF interp_op, FlagOps
<1>3. /\ Assign(up, "a", v) = LoadA(up, v)
      /\ Assign(up, "x", v) = LoadX(up, v)
      /\ Assign(up, "y", v) = LoadY(up, v)
  BY SameFlags
<1>4. lynx_p_unpack(up, v) = unpack_p(up, v)
  <2>1. /\ BitOf(v, 7) = (v \div 128) % 2 /\ BitOf(v, 6) = (v \div 64) % 2 /\ BitOf(v, 3) = (v \div 8) % 2
        /\ BitOf(v, 2) = (v \div 4) % 2 /\ BitOf(v, 1) = (v \div 2) % 2 /\ BitOf(v, 0) = v % 2
    BY DEF BitOf
  <2> QED BY ONLY <2>1 DEF lynx_p_unpack, unpack_p, Bit7
<1>5. Agree("PLA", r, v) /\ Agree("PLX", r, v) /\ Agree("PLY", r, v) /\ Agree("PLP", r, v)
  BY ONLY <1>1, <1>2, <1>3, <1>4 DEF Agree
<1> QED BY ONLY <1>5, m \in {"PLA", "PLX", "PLY", "PLP"}

(* Two hexadecimal digits, the higher one modulo 16.                       *)
LEMMA TwoDigits ==
  ASSUME NEW h \in Int, NEW u \in 0 .. 15
  PROVE  Byte8(h * 16 + u) = ((h % 16) * 16) + u
BY DEF Byte8

LEMMA SumsAgree ==
  ASSUME NEW r \in Regs, NEW w \in 0 .. 255
  PROVE  lynx_adc(r, w) = op_adc(r, w)
<1> DEFINE sum == r.a + w + r.c
<1> DEFINE over == AsBit(Bit7(r.a) = Bit7(w) /\ Bit7(sum) # Bit7(r.a))
<1> DEFINE lo == (r.a % 16) + (w % 16) + r.c
<1> DEFINE hi == (r.a \div 16) + (w \div 16) + AsBit(lo > 9)
<1> DEFINE low == IF lo > 9 THEN lo + 6 ELSE lo
<1> DEFINE high == IF hi > 9 THEN hi + 6 ELSE hi
<1> DEFINE res == IF r.d = 0 THEN Byte8(sum) ELSE Byte8(high * 16 + (low % 16))
<1> DEFINE carry == AsBit(IF r.d = 0 THEN sum > 255 ELSE high > 15)
<1>1. lynx_adc(r, w) = lynx_set_nz([r EXCEPT !.v = over, !.a = res, !.c = carry], res)
  BY DEF lynx_adc
<1> DEFINE adjust == IF lo > 9 THEN 6 ELSE 0
<1> DEFINE tensum == (r.a \div 16) + (w \div 16) + (adjust \div 6)
<1> DEFINE tens == IF tensum > 9 THEN tensum + 6 ELSE tensum
<1> DEFINE result == IF r.d = 1 THEN ((tens % 16) * 16) + ((lo + adjust) % 16) ELSE Byte8(sum)
<1> DEFINE carried == AsBit(IF r.d = 1 THEN tens > 15 ELSE sum > 255)
<1>2. op_adc(r, w) = setnz([r EXCEPT !.a = result, !.v = over, !.c = carried], result)
  BY DEF op_adc
<1>3. r.a \in 0 .. 255 /\ r.c \in {0, 1} /\ r.d \in {0, 1}
  BY DEF Regs
<1> PICK a \in 0 .. 255 : a = r.a
  BY <1>3
<1> PICK c \in {0, 1} : c = r.c
  BY <1>3
<1>s. sum = a + w + c /\ sum \in Int /\ (sum <= 511)
  BY ONLY a = r.a, c = r.c, w \in 0 .. 255, a \in 0 .. 255, c \in {0, 1}
<1>l. lo = (a % 16) + (w % 16) + c /\ lo \in Int
  BY ONLY a = r.a, c = r.c, w \in 0 .. 255, a \in 0 .. 255, c \in {0, 1}
<1> HIDE DEF lo, sum
<1>4. lo \in Int /\ adjust \in {0, 6} /\ adjust \div 6 = AsBit(lo > 9) /\ low = lo + adjust
  BY ONLY <1>l DEF AsBit
<1>5. hi \in Int /\ tensum = hi
  BY ONLY <1>3, <1>4, w \in 0 .. 255 DEF AsBit
<1>6. high \in Int /\ tens = high
  BY ONLY <1>5
<1> HIDE DEF hi, low, high, adjust, tensum, tens
<1>7. res = result
  <2>1. low \in Int /\ low % 16 \in 0 .. 15
    BY ONLY <1>4
  <2> PICK u \in 0 .. 15 : u = low % 16
    BY <2>1
  <2>2. Byte8(high * 16 + u) = ((high % 16) * 16) + u
    BY ONLY <1>6, u \in 0 .. 15, TwoDigits
  <2>3. result = IF r.d = 1 THEN ((high % 16) * 16) + u ELSE Byte8(sum)
    BY ONLY <1>4, <1>6, u = low % 16
  <2>4. res = IF r.d = 0 THEN Byte8(sum) ELSE Byte8(high * 16 + u)
    BY ONLY u = low % 16
  <2> HIDE DEF res, result
  <2> QED BY ONLY <2>2, <2>3, <2>4, <1>3
<1>8. carry = carried
  BY ONLY <1>3, <1>6, <1>s DEF AsBit
<1> HIDE DEF over, res, result, carry, carried
<1>9. [r EXCEPT !.v = over, !.a = res, !.c = carry] = [r EXCEPT !.a = res, !.v = over, !.c = carry]
  BY ONLY r \in Regs DEF Regs
<1> QED BY ONLY <1>1, <1>2, <1>7, <1>8, <1>9, SameFlags

LEMMA DifferencesAgree ==
  ASSUME NEW r \in Regs, NEW w \in 0 .. 255
  PROVE  lynx_sbc(r, w) = op_sbc(r, w)
<1> DEFINE sum == r.a - w - (1 - r.c)
<1> DEFINE over == AsBit(Bit7(r.a) # Bit7(w) /\ Bit7(sum) # Bit7(r.a))
<1> DEFINE lo == (r.a % 16) - (w % 16) - (1 - r.c)
<1> DEFINE hi == (r.a \div 16) - (w \div 16) - AsBit(lo < 0)
<1> DEFINE low == IF lo < 0 THEN lo - 6 ELSE lo
<1> DEFINE high == IF hi < 0 THEN hi - 6 ELSE hi
<1> DEFINE res == IF r.d = 0 THEN Byte8(sum) ELSE Byte8(high * 16 + (low % 16))
<1> DEFINE carry == AsBit(sum >= 0)
<1>1. lynx_sbc(r, w) = lynx_set_nz([r EXCEPT !.v = over, !.a = res, !.c = carry], res)
  BY DEF lynx_sbc
<1> DEFINE adjust == IF lo < 0 THEN 6 ELSE 0
<1> DEFINE tensum == (r.a \div 16) - (w \div 16) - (adjust \div 6)
<1> DEFINE tens == IF tensum < 0 THEN tensum - 6 ELSE tensum
<1> DEFINE result == IF r.d = 1 THEN ((tens % 16) * 16) + ((lo - adjust) % 16) ELSE Byte8(sum)
<1> DEFINE carried == AsBit(sum \in 0 .. 255)
<1>2. op_sbc(r, w) = setnz([r EXCEPT !.a = result, !.v = over, !.c = carried], result)
  BY DEF op_sbc
<1>3. r.a \in 0 .. 255 /\ r.c \in {0, 1} /\ r.d \in {0, 1}
  BY DEF Regs
<1> PICK a \in 0 .. 255 : a = r.a
  BY <1>3
<1> PICK c \in {0, 1} : c = r.c
  BY <1>3
<1>s. sum = a - w - (1 - c) /\ sum \in Int /\ (sum >= 0 <=> sum \in 0 .. 255)
  <2> PICK n \in Int : n = a - w - (1 - c)
    OBVIOUS
  <2>1. n >= 0 <=> n \in 0 .. 255
    BY ONLY n = a - w - (1 - c), n \in Int, w \in 0 .. 255, a \in 0 .. 255, c \in {0, 1}
  <2>2. sum = n
    BY ONLY n = a - w - (1 - c), a = r.a, c = r.c
  <2> QED BY ONLY <2>1, <2>2, n \in Int, n = a - w - (1 - c)
<1>l. lo = (a % 16) - (w % 16) - (1 - c) /\ lo \in Int
  BY ONLY a = r.a, c = r.c, w \in 0 .. 255, a \in 0 .. 255, c \in {0, 1}
<1> HIDE DEF lo, sum
<1>4. lo \in Int /\ adjust \in {0, 6} /\ adjust \div 6 = AsBit(lo < 0) /\ low = lo - adjust
  BY ONLY <1>l DEF AsBit
<1>5. hi \in Int /\ tensum = hi
  BY ONLY <1>3, <1>4, w \in 0 .. 255 DEF AsBit
<1>6. high \in Int /\ tens = high
  BY ONLY <1>5
<1> HIDE DEF hi, low, high, adjust, tensum, tens
<1>7. res = result
  <2>1. low \in Int /\ low % 16 \in 0 .. 15
    BY ONLY <1>4
  <2> PICK u \in 0 .. 15 : u = low % 16
    BY <2>1
  <2>2. Byte8(high * 16 + u) = ((high % 16) * 16) + u
    BY ONLY <1>6, u \in 0 .. 15, TwoDigits
  <2>3. result = IF r.d = 1 THEN ((high % 16) * 16) + u ELSE Byte8(sum)
    BY ONLY <1>4, <1>6, u = low % 16
  <2>4. res = IF r.d = 0 THEN Byte8(sum) ELSE Byte8(high * 16 + u)
    BY ONLY u = low % 16
  <2> HIDE DEF res, result
  <2> QED BY ONLY <2>2, <2>3, <2>4, <1>3
<1>8. carry = carried
  BY ONLY <1>3, <1>6, <1>s DEF AsBit
<1> HIDE DEF over, res, result, carry, carried
<1>9. [r EXCEPT !.v = over, !.a = res, !.c = carry] = [r EXCEPT !.a = res, !.v = over, !.c = carry]
  BY ONLY r \in Regs DEF Regs
<1> QED BY ONLY <1>1, <1>2, <1>7, <1>8, <1>9, SameFlags

LEMMA ArithmeticAgrees ==
  ASSUME NEW m \in {"ADC", "SBC"}, NEW r \in Regs, NEW v \in 0 .. 255
  PROVE  Agree(m, r, v)
<1>1. emit_insn("ADC", r, v) = Quiet(lynx_adc(r, v)) /\ emit_insn("SBC", r, v) = Quiet(lynx_sbc(r, v))
  BY DEF emit_insn, Branches, Modifies, OnA, FlagOps
<1>2. interp_op("ADC", r, v) = Quiet(op_adc(r, v)) /\ interp_op("SBC", r, v) = Quiet(op_sbc(r, v))
  BY DEF interp_op, FlagOps
<1>3. lynx_adc(r, v) = op_adc(r, v) /\ lynx_sbc(r, v) = op_sbc(r, v)
  BY SumsAgree, DifferencesAgree
<1>4. Agree("ADC", r, v) /\ Agree("SBC", r, v)
  BY ONLY <1>1, <1>2, <1>3 DEF Agree
<1> QED BY ONLY <1>4, m \in {"ADC", "SBC"}

(* Every instruction leaves the same processor behind on both sides.       *)
LEMMA InstructionsAgree ==
  ASSUME NEW m \in Mnemonic, NEW r \in Regs, NEW v \in 0 .. 255
  PROVE  Agree(m, r, v)
<1>1. \/ m \in Branches
      \/ m \in OnA
      \/ m \in FlagOps
      \/ m \in {"LDA", "LDX", "LDY", "ORA", "AND", "EOR", "TAX", "TAY", "TXA", "TYA", "TSX"}
      \/ m \in {"STA", "STX", "STY", "STZ", "TXS"}
      \/ m \in {"INX", "INY", "DEX", "DEY", "INC", "DEC"}
      \/ m \in {"CMP", "CPX", "CPY"}
      \/ m \in {"BIT", "BIT #"}
      \/ m \in {"RMB", "SMB", "BBR", "BBS", "TSB", "TRB"}
      \/ m \in {"ASL", "LSR", "ROL", "ROR"}
      \/ m \in {"PHA", "PHX", "PHY", "PHP"}
      \/ m \in {"PLA", "PLX", "PLY", "PLP"}
      \/ m \in {"ADC", "SBC"}
  BY DEF Mnemonic, Modifies, Others
<1>2. CASE m \in Branches
  BY <1>2, BranchesAgree
<1>3. CASE m \in OnA
  BY <1>3, OnAAgree
<1>4. CASE m \in FlagOps
  BY <1>4, FlagOpsAgree
<1>5. CASE m \in {"LDA", "LDX", "LDY", "ORA", "AND", "EOR", "TAX", "TAY", "TXA", "TYA", "TSX"}
  BY <1>5, LoadsAgree
<1>6. CASE m \in {"STA", "STX", "STY", "STZ", "TXS"}
  BY <1>6, StoresAgree
<1>7. CASE m \in {"INX", "INY", "DEX", "DEY", "INC", "DEC"}
  BY <1>7, CountsAgree
<1>8. CASE m \in {"CMP", "CPX", "CPY"}
  BY <1>8, ComparesAgree
<1>14. CASE m \in {"BIT", "BIT #"}
  BY <1>14, TestsAgree
<1>9. CASE m \in {"RMB", "SMB", "BBR", "BBS", "TSB", "TRB"}
  BY <1>9, BitsAgree
<1>10. CASE m \in {"ASL", "LSR", "ROL", "ROR"}
  BY <1>10, ModifiesAgree
<1>11. CASE m \in {"PHA", "PHX", "PHY", "PHP"}
  BY <1>11, PushesAgree
<1>12. CASE m \in {"PLA", "PLX", "PLY", "PLP"}
  BY <1>12, PullsAgree
<1>13. CASE m \in {"ADC", "SBC"}
  BY <1>13, ArithmeticAgrees
<1> QED BY ONLY <1>1, <1>2, <1>3, <1>4, <1>5, <1>6, <1>7, <1>8, <1>9, <1>10, <1>11, <1>12, <1>13, <1>14

AluInv ==
  /\ before \in Regs
  /\ done = <<>> => helped = Quiet(before) /\ stepped_cpu = Quiet(before)
  /\ done # <<>> => /\ done \in Mnemonic \X Value
                    /\ helped = emit_insn(done[1], before, done[2])
                    /\ stepped_cpu = interp_op(done[1], before, done[2])

LEMMA AluStart ==
  ASSUME NEW starts, starts \subseteq CpuStart, AluInit(starts)
  PROVE  AluInv
<1>1. CpuStart \subseteq Regs
  BY AluAssumption DEF CpuStart, Regs, AsBit
<1> QED BY <1>1 DEF AluInit, AluInv

LEMMA AluStep ==
  ASSUME AluInv, Execute \/ UNCHANGED aluVars
  PROVE  AluInv'
<1>1. CASE UNCHANGED aluVars
  BY <1>1 DEF aluVars, AluInv
<1>2. CASE Execute
  <2> PICK m \in Mnemonic, w \in Value :
        done' = <<m, w>> /\ helped' = emit_insn(m, before, w) /\ stepped_cpu' = interp_op(m, before, w)
    BY <1>2 DEF Execute
  <2>1. before' = before
    BY <1>2 DEF Execute
  <2>2. <<m, w>> # <<>> /\ <<m, w>>[1] = m /\ <<m, w>>[2] = w /\ <<m, w>> \in Mnemonic \X Value
    OBVIOUS
  <2> QED BY <2>1, <2>2 DEF AluInv
<1> QED BY <1>1, <1>2

LEMMA AluSame ==
  ASSUME AluInv
  PROVE  SameProcessor
<1>1. CASE done = <<>>
  BY <1>1 DEF AluInv, SameProcessor
<1>2. CASE done # <<>>
  <2>1. done[1] \in Mnemonic /\ done[2] \in 0 .. 255 /\ before \in Regs
    BY <1>2, AluAssumption DEF AluInv
  <2>2. Agree(done[1], before, done[2])
    BY <2>1, InstructionsAgree
  <2> QED BY <1>2, <2>2 DEF AluInv, SameProcessor, Agree
<1> QED BY <1>1, <1>2

LEMMA SumParts ==
  ASSUME NEW r \in Regs, NEW w \in Eight
  PROVE  \E sum, lo, hi, low, high, res :
           /\ {sum, lo, hi, low, high, res} \subseteq Int
           /\ sum = r.a + w + r.c
           /\ lo = (r.a % 16) + (w % 16) + r.c
           /\ hi = (r.a \div 16) + (w \div 16) + AsBit(lo > 9)
           /\ low = IF lo > 9 THEN lo + 6 ELSE lo
           /\ high = IF hi > 9 THEN hi + 6 ELSE hi
           /\ res = IF r.d = 0 THEN Byte8(sum) ELSE Byte8(high * 16 + (low % 16))
           /\ lynx_adc(r, w).a = res
           /\ lynx_adc(r, w).c = AsBit(IF r.d = 0 THEN sum > 255 ELSE high > 15)
           /\ lynx_adc(r, w).v = AsBit(Bit7(r.a) = Bit7(w) /\ Bit7(sum) # Bit7(r.a))
<1> DEFINE sum == r.a + w + r.c
<1> DEFINE lo == (r.a % 16) + (w % 16) + r.c
<1> DEFINE hi == (r.a \div 16) + (w \div 16) + AsBit(lo > 9)
<1> DEFINE low == IF lo > 9 THEN lo + 6 ELSE lo
<1> DEFINE high == IF hi > 9 THEN hi + 6 ELSE hi
<1> DEFINE res == IF r.d = 0 THEN Byte8(sum) ELSE Byte8(high * 16 + (low % 16))
<1> DEFINE over == AsBit(Bit7(r.a) = Bit7(w) /\ Bit7(sum) # Bit7(r.a))
<1> DEFINE carry == AsBit(IF r.d = 0 THEN sum > 255 ELSE high > 15)
<1>1. lynx_adc(r, w) = lynx_set_nz([r EXCEPT !.v = over, !.a = res, !.c = carry], res)
  BY DEF lynx_adc
<1>0. r.a \in 0 .. 255 /\ r.c \in {0, 1} /\ w \in 0 .. 255
  BY DEF Regs, Eight
<1>2. sum \in Int /\ lo \in Int
  BY ONLY <1>0
<1>3. hi \in Int
  BY ONLY <1>0 DEF AsBit
<1>4. low \in Int
  BY ONLY <1>2
<1>5. high \in Int
  BY ONLY <1>3
<1> HIDE DEF sum, lo, hi, low, high
<1>6. res \in Int
  BY ONLY <1>2, <1>4, <1>5 DEF Byte8
<1> HIDE DEF res, over, carry
<1>7. lynx_adc(r, w).a = res /\ lynx_adc(r, w).c = carry /\ lynx_adc(r, w).v = over
  BY ONLY <1>1, r \in Regs DEF Regs, lynx_set_nz
<1>8sum. sum = r.a + w + r.c
  BY ONLY TRUE DEF sum
<1>8lo. lo = (r.a % 16) + (w % 16) + r.c
  BY ONLY TRUE DEF lo
<1>8hi. hi = (r.a \div 16) + (w \div 16) + AsBit(lo > 9)
  BY ONLY TRUE DEF hi
<1>8low. low = IF lo > 9 THEN lo + 6 ELSE lo
  BY ONLY TRUE DEF low
<1>8high. high = IF hi > 9 THEN hi + 6 ELSE hi
  BY ONLY TRUE DEF high
<1>8res. res = IF r.d = 0 THEN Byte8(sum) ELSE Byte8(high * 16 + (low % 16))
  BY ONLY TRUE DEF res
<1>8over. over = AsBit(Bit7(r.a) = Bit7(w) /\ Bit7(sum) # Bit7(r.a))
  BY ONLY TRUE DEF over
<1>8carry. carry = AsBit(IF r.d = 0 THEN sum > 255 ELSE high > 15)
  BY ONLY TRUE DEF carry
<1>9. {sum, lo, hi, low, high, res} \subseteq Int
  BY ONLY <1>2, <1>3, <1>4, <1>5, <1>6
<1> WITNESS sum, lo, hi, low, high, res
<1> QED BY ONLY <1>9, <1>7, <1>8sum, <1>8lo, <1>8hi, <1>8low, <1>8high, <1>8res, <1>8over, <1>8carry

LEMMA DifferenceParts ==
  ASSUME NEW r \in Regs, NEW w \in Eight
  PROVE  \E sum, lo, hi, low, high, res :
           /\ {sum, lo, hi, low, high, res} \subseteq Int
           /\ sum = r.a - w - (1 - r.c)
           /\ lo = (r.a % 16) - (w % 16) - (1 - r.c)
           /\ hi = (r.a \div 16) - (w \div 16) - AsBit(lo < 0)
           /\ low = IF lo < 0 THEN lo - 6 ELSE lo
           /\ high = IF hi < 0 THEN hi - 6 ELSE hi
           /\ res = IF r.d = 0 THEN Byte8(sum) ELSE Byte8(high * 16 + (low % 16))
           /\ lynx_sbc(r, w).a = res
           /\ lynx_sbc(r, w).c = AsBit(sum >= 0)
           /\ lynx_sbc(r, w).v = AsBit(Bit7(r.a) # Bit7(w) /\ Bit7(sum) # Bit7(r.a))
<1> DEFINE sum == r.a - w - (1 - r.c)
<1> DEFINE lo == (r.a % 16) - (w % 16) - (1 - r.c)
<1> DEFINE hi == (r.a \div 16) - (w \div 16) - AsBit(lo < 0)
<1> DEFINE low == IF lo < 0 THEN lo - 6 ELSE lo
<1> DEFINE high == IF hi < 0 THEN hi - 6 ELSE hi
<1> DEFINE res == IF r.d = 0 THEN Byte8(sum) ELSE Byte8(high * 16 + (low % 16))
<1> DEFINE over == AsBit(Bit7(r.a) # Bit7(w) /\ Bit7(sum) # Bit7(r.a))
<1> DEFINE carry == AsBit(sum >= 0)
<1>1. lynx_sbc(r, w) = lynx_set_nz([r EXCEPT !.v = over, !.a = res, !.c = carry], res)
  BY DEF lynx_sbc
<1>0. r.a \in 0 .. 255 /\ r.c \in {0, 1} /\ w \in 0 .. 255
  BY DEF Regs, Eight
<1>2. sum \in Int /\ lo \in Int
  BY ONLY <1>0
<1>3. hi \in Int
  BY ONLY <1>0 DEF AsBit
<1>4. low \in Int
  BY ONLY <1>2
<1>5. high \in Int
  BY ONLY <1>3
<1> HIDE DEF sum, lo, hi, low, high
<1>6. res \in Int
  BY ONLY <1>2, <1>4, <1>5 DEF Byte8
<1> HIDE DEF res, over, carry
<1>7. lynx_sbc(r, w).a = res /\ lynx_sbc(r, w).c = carry /\ lynx_sbc(r, w).v = over
  BY ONLY <1>1, r \in Regs DEF Regs, lynx_set_nz
<1>8sum. sum = r.a - w - (1 - r.c)
  BY ONLY TRUE DEF sum
<1>8lo. lo = (r.a % 16) - (w % 16) - (1 - r.c)
  BY ONLY TRUE DEF lo
<1>8hi. hi = (r.a \div 16) - (w \div 16) - AsBit(lo < 0)
  BY ONLY TRUE DEF hi
<1>8low. low = IF lo < 0 THEN lo - 6 ELSE lo
  BY ONLY TRUE DEF low
<1>8high. high = IF hi < 0 THEN hi - 6 ELSE hi
  BY ONLY TRUE DEF high
<1>8res. res = IF r.d = 0 THEN Byte8(sum) ELSE Byte8(high * 16 + (low % 16))
  BY ONLY TRUE DEF res
<1>8over. over = AsBit(Bit7(r.a) # Bit7(w) /\ Bit7(sum) # Bit7(r.a))
  BY ONLY TRUE DEF over
<1>8carry. carry = AsBit(sum >= 0)
  BY ONLY TRUE DEF carry
<1>9. {sum, lo, hi, low, high, res} \subseteq Int
  BY ONLY <1>2, <1>3, <1>4, <1>5, <1>6
<1> WITNESS sum, lo, hi, low, high, res
<1> QED BY ONLY <1>9, <1>7, <1>8sum, <1>8lo, <1>8hi, <1>8low, <1>8high, <1>8res, <1>8over, <1>8carry

\* What an addition, and a subtraction, of w has made of r.
Summed(r, w, now) ==
  /\ Worth(r.d, now.a) + (IF r.d = 1 THEN 100 ELSE 256) * now.c = Worth(r.d, r.a) + Worth(r.d, w) + r.c
  /\ r.d = 0 => (now.v = 1 <=> Signed(r.a) + Signed(w) + r.c \notin -128 .. 127)
Reduced(r, w, now) ==
  /\ Worth(r.d, now.a) - (IF r.d = 1 THEN 100 ELSE 256) * (1 - now.c) = Worth(r.d, r.a) - Worth(r.d, w) - (1 - r.c)
  /\ r.d = 0 => (now.v = 1 <=> Signed(r.a) - Signed(w) - (1 - r.c) \notin -128 .. 127)

LEMMA SumsExact ==
  ASSUME NEW r \in Regs, NEW w \in Eight, r.d = 1 => IsDecimal(r.a) /\ IsDecimal(w),
         NEW now, now = lynx_adc(r, w)
  PROVE  Summed(r, w, now)
<1> SUFFICES /\ Worth(r.d, now.a) + (IF r.d = 1 THEN 100 ELSE 256) * now.c = Worth(r.d, r.a) + Worth(r.d, w) + r.c
             /\ r.d = 0 => (now.v = 1 <=> Signed(r.a) + Signed(w) + r.c \notin -128 .. 127)
  BY DEF Summed
<1> w \in 0 .. 255
  BY DEF Eight
<1> PICK a \in 0 .. 255 : a = r.a
  BY DEF Regs
<1> PICK c \in {0, 1} : c = r.c
  BY DEF Regs
<1>0. r.d \in {0, 1}
  BY DEF Regs
<1> PICK sum, lo, hi, low, high, res :
           /\ {sum, lo, hi, low, high, res} \subseteq Int
           /\ sum = r.a + w + r.c
           /\ lo = (r.a % 16) + (w % 16) + r.c
           /\ hi = (r.a \div 16) + (w \div 16) + AsBit(lo > 9)
           /\ low = IF lo > 9 THEN lo + 6 ELSE lo
           /\ high = IF hi > 9 THEN hi + 6 ELSE hi
           /\ res = IF r.d = 0 THEN Byte8(sum) ELSE Byte8(high * 16 + (low % 16))
           /\ lynx_adc(r, w).a = res
           /\ lynx_adc(r, w).c = AsBit(IF r.d = 0 THEN sum > 255 ELSE high > 15)
           /\ lynx_adc(r, w).v = AsBit(Bit7(r.a) = Bit7(w) /\ Bit7(sum) # Bit7(r.a))
  BY ONLY SumParts, r \in Regs, w \in Eight
<1> sum \in Int /\ lo \in Int /\ hi \in Int /\ low \in Int /\ high \in Int /\ res \in Int
  BY {sum, lo, hi, low, high, res} \subseteq Int
<1> sum = a + w + c
  BY a = r.a, c = r.c
<1> lo = (a % 16) + (w % 16) + c
  BY a = r.a, c = r.c
<1> hi = (a \div 16) + (w \div 16) + AsBit(lo > 9)
  BY a = r.a, c = r.c
<1> low = IF lo > 9 THEN lo + 6 ELSE lo
  BY a = r.a, c = r.c
<1> high = IF hi > 9 THEN hi + 6 ELSE hi
  BY a = r.a, c = r.c
<1> res = IF r.d = 0 THEN Byte8(sum) ELSE Byte8(high * 16 + (low % 16))
  BY a = r.a, c = r.c
<1> now.a = res
  BY a = r.a, c = r.c
<1> now.c = AsBit(IF r.d = 0 THEN sum > 255 ELSE high > 15)
  BY a = r.a, c = r.c
<1> now.v = AsBit(Bit7(a) = Bit7(w) /\ Bit7(sum) # Bit7(a))
  BY a = r.a, c = r.c
<1>1. CASE r.d = 0
  <2> PICK carry \in {0, 1} : carry = AsBit(sum > 255)
    BY DEF AsBit
  <2>1. now.c = carry /\ res = sum % 256
    BY ONLY <1>1, carry = AsBit(sum > 255), now.c = AsBit(IF r.d = 0 THEN sum > 255 ELSE high > 15), res = IF r.d = 0 THEN Byte8(sum) ELSE Byte8(high * 16 + (low % 16)) DEF AsBit, Byte8
  <2>2. res + 256 * carry = a + w + c
    BY ONLY <2>1, sum = a + w + c, carry = AsBit(sum > 255), a \in 0 .. 255, w \in 0 .. 255, c \in {0, 1} DEF AsBit
  <2>3. Worth(r.d, now.a) + (IF r.d = 1 THEN 100 ELSE 256) * now.c = Worth(r.d, r.a) + Worth(r.d, w) + r.c
    BY ONLY <1>1, <2>1, <2>2, now.a = res, a = r.a, c = r.c DEF Worth
  <2> PICK sa \in Int : sa = Signed(a)
    BY ONLY a \in 0 .. 255 DEF Signed
  <2> PICK sw \in Int : sw = Signed(w)
    BY ONLY w \in 0 .. 255 DEF Signed
  <2> PICK a7 \in {0, 1} : a7 = Bit7(a)
    BY ONLY a \in 0 .. 255 DEF Bit7
  <2> PICK w7 \in {0, 1} : w7 = Bit7(w)
    BY ONLY w \in 0 .. 255 DEF Bit7
  <2> PICK s7 \in {0, 1} : s7 = Bit7(sum)
    BY ONLY sum \in Int DEF Bit7
  <2>4. sa = a - 256 * a7 /\ sw = w - 256 * w7 /\ a \in 128 * a7 .. 127 + 128 * a7 /\ w \in 128 * w7 .. 127 + 128 * w7
    BY ONLY sa = Signed(a), sw = Signed(w), a7 = Bit7(a), w7 = Bit7(w), a \in 0 .. 255, w \in 0 .. 255 DEF Signed, Bit7
  <2>5. s7 = (sum \div 128) % 2
    BY ONLY s7 = Bit7(sum) DEF Bit7
  <2> PICK q \in Int : q = sum \div 128
    BY ONLY sum \in Int
  <2>6. 128 * q <= sum /\ sum < 128 * q + 128
    BY ONLY q = sum \div 128, sum \in Int
  <2>7. q \in -2 .. 3 /\ s7 = q % 2
    BY ONLY <2>5, <2>6, q = sum \div 128, sum = a + w + c, a \in 0 .. 255, w \in 0 .. 255, c \in {0, 1}, q \in Int
  <2>8. (q = -2 => s7 = 0) /\ (q = -1 => s7 = 1) /\ (q = 0 => s7 = 0) /\ (q = 1 => s7 = 1) /\ (q = 2 => s7 = 0) /\ (q = 3 => s7 = 1)
    BY ONLY <2>7
  <2>9. (a7 = w7 /\ s7 # a7) <=> sa + sw + c \notin -128 .. 127
    BY ONLY <2>4, <2>6, <2>7, <2>8, sum = a + w + c, a \in 0 .. 255, w \in 0 .. 255, c \in {0, 1}, a7 \in {0, 1}, w7 \in {0, 1},
       sa \in Int, sw \in Int, sum \in Int
  <2>10. now.v = 1 <=> (a7 = w7 /\ s7 # a7)
    BY ONLY now.v = AsBit(Bit7(a) = Bit7(w) /\ Bit7(sum) # Bit7(a)), a7 = Bit7(a), w7 = Bit7(w), s7 = Bit7(sum) DEF AsBit
  <2>11. now.v = 1 <=> Signed(r.a) + Signed(w) + r.c \notin -128 .. 127
    BY ONLY <2>9, <2>10, sa = Signed(a), sw = Signed(w), a = r.a, c = r.c
  <2> QED BY ONLY <2>3, <2>11
<1>2. CASE r.d = 1
  <2> PICK h1 \in Int : h1 = a \div 16
    BY ONLY a \in 0 .. 255
  <2> PICK l1 \in Int : l1 = a % 16
    BY ONLY a \in 0 .. 255
  <2> PICK h2 \in Int : h2 = w \div 16
    BY ONLY w \in 0 .. 255
  <2> PICK l2 \in Int : l2 = w % 16
    BY ONLY w \in 0 .. 255
  <2>1. h1 \in 0 .. 9 /\ l1 \in 0 .. 9 /\ h2 \in 0 .. 9 /\ l2 \in 0 .. 9
    <3>1. IsDecimal(a) /\ IsDecimal(w)
      BY <1>2
    <3>2. h1 < 10 /\ l1 < 10 /\ h2 < 10 /\ l2 < 10
      BY ONLY <3>1, h1 = a \div 16, l1 = a % 16, h2 = w \div 16, l2 = w % 16 DEF IsDecimal
    <3>3. h1 >= 0 /\ l1 >= 0 /\ h2 >= 0 /\ l2 >= 0
      BY ONLY h1 = a \div 16, l1 = a % 16, h2 = w \div 16, l2 = w % 16, a \in 0 .. 255, w \in 0 .. 255
    <3> QED BY ONLY <3>2, <3>3, h1 \in Int, l1 \in Int, h2 \in Int, l2 \in Int
  <2>2. a = 16 * h1 + l1 /\ w = 16 * h2 + l2
    BY ONLY h1 = a \div 16, l1 = a % 16, h2 = w \div 16, l2 = w % 16, a \in 0 .. 255, w \in 0 .. 255
  <2>3. lo = l1 + l2 + c
    BY ONLY lo = (a % 16) + (w % 16) + c, l1 = a % 16, l2 = w % 16
  <2>4. hi = h1 + h2 + AsBit(lo > 9)
    BY ONLY hi = (a \div 16) + (w \div 16) + AsBit(lo > 9), h1 = a \div 16, h2 = w \div 16
  <2> PICK u \in Int : u = IF lo > 9 THEN lo - 10 ELSE lo
    BY ONLY lo \in Int
  <2> PICK z \in Int : z = IF hi > 9 THEN hi - 10 ELSE hi
    BY ONLY hi \in Int
  <2>5. u \in 0 .. 9 /\ low % 16 = u
    BY ONLY <2>1, <2>3, u = IF lo > 9 THEN lo - 10 ELSE lo, low = IF lo > 9 THEN lo + 6 ELSE lo, c \in {0, 1}, lo \in Int
  <2>6. hi = h1 + h2 + (IF lo > 9 THEN 1 ELSE 0)
    BY ONLY <2>4 DEF AsBit
  <2>7. z \in 0 .. 9 /\ high % 16 = z
    BY ONLY <2>1, <2>6, z = IF hi > 9 THEN hi - 10 ELSE hi, high = IF hi > 9 THEN hi + 6 ELSE hi, hi \in Int
  <2>8. high > 15 <=> hi > 9
    BY ONLY <2>1, <2>2, <2>3, <2>6, high = IF hi > 9 THEN hi + 6 ELSE hi, hi \in Int, sum = a + w + c, c \in {0, 1}
  <2> PICK carry \in {0, 1} : carry = AsBit(hi > 9)
    BY DEF AsBit
  <2>9. now.c = carry
    BY ONLY <1>2, <2>8, carry = AsBit(hi > 9), now.c = AsBit(IF r.d = 0 THEN sum > 255 ELSE high > 15) DEF AsBit
  <2>10. 10 * z + u + 100 * carry = (10 * h1 + l1) + (10 * h2 + l2) + c
    BY ONLY <2>3, <2>6, carry = AsBit(hi > 9), u = IF lo > 9 THEN lo - 10 ELSE lo, z = IF hi > 9 THEN hi - 10 ELSE hi, h1 \in Int, h2 \in Int, l1 \in Int, l2 \in Int, c \in {0, 1} DEF AsBit
  <2>11. res = 16 * z + u
    <3>1. res = Byte8(high * 16 + u)
      BY ONLY <1>2, <2>5, res = IF r.d = 0 THEN Byte8(sum) ELSE Byte8(high * 16 + (low % 16))
    <3>2. u \in 0 .. 15
      BY ONLY <2>5
    <3>3. Byte8(high * 16 + u) = ((high % 16) * 16) + u
      BY ONLY <3>2, high \in Int, TwoDigits
    <3> QED BY ONLY <3>1, <3>3, <2>5, <2>7
  <2>12. res \div 16 = z /\ res % 16 = u
    BY ONLY <2>5, <2>7, <2>11
  <2>13. Worth(1, res) = 10 * z + u /\ Worth(1, a) = 10 * h1 + l1 /\ Worth(1, w) = 10 * h2 + l2
    BY ONLY <2>12, h1 = a \div 16, l1 = a % 16, h2 = w \div 16, l2 = w % 16 DEF Worth
  <2> QED BY ONLY <1>2, <2>9, <2>10, <2>13, now.a = res, a = r.a, c = r.c
<1> QED BY ONLY <1>0, <1>1, <1>2

LEMMA DifferencesExact ==
  ASSUME NEW r \in Regs, NEW w \in Eight, r.d = 1 => IsDecimal(r.a) /\ IsDecimal(w),
         NEW now, now = lynx_sbc(r, w)
  PROVE  Reduced(r, w, now)
<1> SUFFICES /\ Worth(r.d, now.a) - (IF r.d = 1 THEN 100 ELSE 256) * (1 - now.c) = Worth(r.d, r.a) - Worth(r.d, w) - (1 - r.c)
             /\ r.d = 0 => (now.v = 1 <=> Signed(r.a) - Signed(w) - (1 - r.c) \notin -128 .. 127)
  BY DEF Reduced
<1> w \in 0 .. 255
  BY DEF Eight
<1> PICK a \in 0 .. 255 : a = r.a
  BY DEF Regs
<1> PICK c \in {0, 1} : c = r.c
  BY DEF Regs
<1>0. r.d \in {0, 1}
  BY DEF Regs
<1> PICK sum, lo, hi, low, high, res :
           /\ {sum, lo, hi, low, high, res} \subseteq Int
           /\ sum = r.a - w - (1 - r.c)
           /\ lo = (r.a % 16) - (w % 16) - (1 - r.c)
           /\ hi = (r.a \div 16) - (w \div 16) - AsBit(lo < 0)
           /\ low = IF lo < 0 THEN lo - 6 ELSE lo
           /\ high = IF hi < 0 THEN hi - 6 ELSE hi
           /\ res = IF r.d = 0 THEN Byte8(sum) ELSE Byte8(high * 16 + (low % 16))
           /\ lynx_sbc(r, w).a = res
           /\ lynx_sbc(r, w).c = AsBit(sum >= 0)
           /\ lynx_sbc(r, w).v = AsBit(Bit7(r.a) # Bit7(w) /\ Bit7(sum) # Bit7(r.a))
  BY ONLY DifferenceParts, r \in Regs, w \in Eight
<1> sum \in Int /\ lo \in Int /\ hi \in Int /\ low \in Int /\ high \in Int /\ res \in Int
  BY {sum, lo, hi, low, high, res} \subseteq Int
<1> sum = a - w - (1 - c)
  BY a = r.a, c = r.c
<1> lo = (a % 16) - (w % 16) - (1 - c)
  BY a = r.a, c = r.c
<1> hi = (a \div 16) - (w \div 16) - AsBit(lo < 0)
  BY a = r.a, c = r.c
<1> low = IF lo < 0 THEN lo - 6 ELSE lo
  BY a = r.a, c = r.c
<1> high = IF hi < 0 THEN hi - 6 ELSE hi
  BY a = r.a, c = r.c
<1> res = IF r.d = 0 THEN Byte8(sum) ELSE Byte8(high * 16 + (low % 16))
  BY a = r.a, c = r.c
<1> now.a = res
  BY a = r.a, c = r.c
<1> now.c = AsBit(sum >= 0)
  BY a = r.a, c = r.c
<1> now.v = AsBit(Bit7(a) # Bit7(w) /\ Bit7(sum) # Bit7(a))
  BY a = r.a, c = r.c
<1>1. CASE r.d = 0
  <2> PICK carry \in {0, 1} : carry = AsBit(sum >= 0)
    BY DEF AsBit
  <2>1. now.c = carry /\ res = sum % 256
    BY ONLY <1>1, carry = AsBit(sum >= 0), now.c = AsBit(sum >= 0), res = IF r.d = 0 THEN Byte8(sum) ELSE Byte8(high * 16 + (low % 16)) DEF AsBit, Byte8
  <2>2. res - 256 * (1 - carry) = a - w - (1 - c)
    BY ONLY <2>1, sum = a - w - (1 - c), carry = AsBit(sum >= 0), a \in 0 .. 255, w \in 0 .. 255, c \in {0, 1} DEF AsBit
  <2>3. Worth(r.d, now.a) - (IF r.d = 1 THEN 100 ELSE 256) * (1 - now.c) = Worth(r.d, r.a) - Worth(r.d, w) - (1 - r.c)
    BY ONLY <1>1, <2>1, <2>2, now.a = res, a = r.a, c = r.c DEF Worth
  <2> PICK sa \in Int : sa = Signed(a)
    BY ONLY a \in 0 .. 255 DEF Signed
  <2> PICK sw \in Int : sw = Signed(w)
    BY ONLY w \in 0 .. 255 DEF Signed
  <2> PICK a7 \in {0, 1} : a7 = Bit7(a)
    BY ONLY a \in 0 .. 255 DEF Bit7
  <2> PICK w7 \in {0, 1} : w7 = Bit7(w)
    BY ONLY w \in 0 .. 255 DEF Bit7
  <2> PICK s7 \in {0, 1} : s7 = Bit7(sum)
    BY ONLY sum \in Int DEF Bit7
  <2>4. sa = a - 256 * a7 /\ sw = w - 256 * w7 /\ a \in 128 * a7 .. 127 + 128 * a7 /\ w \in 128 * w7 .. 127 + 128 * w7
    BY ONLY sa = Signed(a), sw = Signed(w), a7 = Bit7(a), w7 = Bit7(w), a \in 0 .. 255, w \in 0 .. 255 DEF Signed, Bit7
  <2>5. s7 = (sum \div 128) % 2
    BY ONLY s7 = Bit7(sum) DEF Bit7
  <2> PICK q \in Int : q = sum \div 128
    BY ONLY sum \in Int
  <2>6. 128 * q <= sum /\ sum < 128 * q + 128
    BY ONLY q = sum \div 128, sum \in Int
  <2>7. q \in -2 .. 3 /\ s7 = q % 2
    BY ONLY <2>5, <2>6, q = sum \div 128, sum = a - w - (1 - c), a \in 0 .. 255, w \in 0 .. 255, c \in {0, 1}, q \in Int
  <2>8. (q = -2 => s7 = 0) /\ (q = -1 => s7 = 1) /\ (q = 0 => s7 = 0) /\ (q = 1 => s7 = 1) /\ (q = 2 => s7 = 0) /\ (q = 3 => s7 = 1)
    BY ONLY <2>7
  <2>9. (a7 # w7 /\ s7 # a7) <=> sa - sw - (1 - c) \notin -128 .. 127
    BY ONLY <2>4, <2>6, <2>7, <2>8, sum = a - w - (1 - c), a \in 0 .. 255, w \in 0 .. 255, c \in {0, 1}, a7 \in {0, 1}, w7 \in {0, 1},
       sa \in Int, sw \in Int, sum \in Int
  <2>10. now.v = 1 <=> (a7 # w7 /\ s7 # a7)
    BY ONLY now.v = AsBit(Bit7(a) # Bit7(w) /\ Bit7(sum) # Bit7(a)), a7 = Bit7(a), w7 = Bit7(w), s7 = Bit7(sum) DEF AsBit
  <2>11. now.v = 1 <=> Signed(r.a) - Signed(w) - (1 - r.c) \notin -128 .. 127
    BY ONLY <2>9, <2>10, sa = Signed(a), sw = Signed(w), a = r.a, c = r.c
  <2> QED BY ONLY <2>3, <2>11
<1>2. CASE r.d = 1
  <2> PICK h1 \in Int : h1 = a \div 16
    BY ONLY a \in 0 .. 255
  <2> PICK l1 \in Int : l1 = a % 16
    BY ONLY a \in 0 .. 255
  <2> PICK h2 \in Int : h2 = w \div 16
    BY ONLY w \in 0 .. 255
  <2> PICK l2 \in Int : l2 = w % 16
    BY ONLY w \in 0 .. 255
  <2>1. h1 \in 0 .. 9 /\ l1 \in 0 .. 9 /\ h2 \in 0 .. 9 /\ l2 \in 0 .. 9
    <3>1. IsDecimal(a) /\ IsDecimal(w)
      BY <1>2
    <3>2. h1 < 10 /\ l1 < 10 /\ h2 < 10 /\ l2 < 10
      BY ONLY <3>1, h1 = a \div 16, l1 = a % 16, h2 = w \div 16, l2 = w % 16 DEF IsDecimal
    <3>3. h1 >= 0 /\ l1 >= 0 /\ h2 >= 0 /\ l2 >= 0
      BY ONLY h1 = a \div 16, l1 = a % 16, h2 = w \div 16, l2 = w % 16, a \in 0 .. 255, w \in 0 .. 255
    <3> QED BY ONLY <3>2, <3>3, h1 \in Int, l1 \in Int, h2 \in Int, l2 \in Int
  <2>2. a = 16 * h1 + l1 /\ w = 16 * h2 + l2
    BY ONLY h1 = a \div 16, l1 = a % 16, h2 = w \div 16, l2 = w % 16, a \in 0 .. 255, w \in 0 .. 255
  <2>3. lo = l1 - l2 - (1 - c)
    BY ONLY lo = (a % 16) - (w % 16) - (1 - c), l1 = a % 16, l2 = w % 16
  <2>4. hi = h1 - h2 - AsBit(lo < 0)
    BY ONLY hi = (a \div 16) - (w \div 16) - AsBit(lo < 0), h1 = a \div 16, h2 = w \div 16
  <2> PICK u \in Int : u = IF lo < 0 THEN lo + 10 ELSE lo
    BY ONLY lo \in Int
  <2> PICK z \in Int : z = IF hi < 0 THEN hi + 10 ELSE hi
    BY ONLY hi \in Int
  <2>5. u \in 0 .. 9 /\ low % 16 = u
    BY ONLY <2>1, <2>3, u = IF lo < 0 THEN lo + 10 ELSE lo, low = IF lo < 0 THEN lo - 6 ELSE lo, c \in {0, 1}, lo \in Int
  <2>6. hi = h1 - h2 - (IF lo < 0 THEN 1 ELSE 0)
    BY ONLY <2>4 DEF AsBit
  <2>7. z \in 0 .. 9 /\ high % 16 = z
    BY ONLY <2>1, <2>6, z = IF hi < 0 THEN hi + 10 ELSE hi, high = IF hi < 0 THEN hi - 6 ELSE hi, hi \in Int
  <2>8. sum >= 0 <=> hi >= 0
    BY ONLY <2>1, <2>2, <2>3, <2>6, high = IF hi < 0 THEN hi - 6 ELSE hi, hi \in Int, sum = a - w - (1 - c), c \in {0, 1}
  <2> PICK carry \in {0, 1} : carry = AsBit(hi >= 0)
    BY DEF AsBit
  <2>9. now.c = carry
    BY ONLY <1>2, <2>8, carry = AsBit(hi >= 0), now.c = AsBit(sum >= 0) DEF AsBit
  <2>10. 10 * z + u - 100 * (1 - carry) = (10 * h1 + l1) - (10 * h2 + l2) - (1 - c)
    BY ONLY <2>3, <2>6, carry = AsBit(hi >= 0), u = IF lo < 0 THEN lo + 10 ELSE lo, z = IF hi < 0 THEN hi + 10 ELSE hi, h1 \in Int, h2 \in Int, l1 \in Int, l2 \in Int, c \in {0, 1} DEF AsBit
  <2>11. res = 16 * z + u
    <3>1. res = Byte8(high * 16 + u)
      BY ONLY <1>2, <2>5, res = IF r.d = 0 THEN Byte8(sum) ELSE Byte8(high * 16 + (low % 16))
    <3>2. u \in 0 .. 15
      BY ONLY <2>5
    <3>3. Byte8(high * 16 + u) = ((high % 16) * 16) + u
      BY ONLY <3>2, high \in Int, TwoDigits
    <3> QED BY ONLY <3>1, <3>3, <2>5, <2>7
  <2>12. res \div 16 = z /\ res % 16 = u
    BY ONLY <2>5, <2>7, <2>11
  <2>13. Worth(1, res) = 10 * z + u /\ Worth(1, a) = 10 * h1 + l1 /\ Worth(1, w) = 10 * h2 + l2
    BY ONLY <2>12, h1 = a \div 16, l1 = a % 16, h2 = w \div 16, l2 = w % 16 DEF Worth
  <2> QED BY ONLY <1>2, <2>9, <2>10, <2>13, now.a = res, a = r.a, c = r.c
<1> QED BY ONLY <1>0, <1>1, <1>2

LEMMA AluExact ==
  ASSUME AluInv
  PROVE  ArithmeticIsExact
<1> SUFFICES ASSUME done # <<>>, done[1] \in {"ADC", "SBC"},
                    before.d = 1 => IsDecimal(before.a) /\ IsDecimal(done[2])
             PROVE  ArithmeticIsExact
  BY DEF ArithmeticIsExact
<1> PICK w \in 0 .. 255 : w = done[2]
  BY AluAssumption DEF AluInv
<1>5. w \in Eight
  BY DEF Eight
<1>1. before \in Regs /\ helped = emit_insn(done[1], before, w)
  BY DEF AluInv
<1>2. emit_insn("ADC", before, w).cpu = lynx_adc(before, w) /\ emit_insn("SBC", before, w).cpu = lynx_sbc(before, w)
  BY DEF emit_insn, Branches, Modifies, OnA, FlagOps, Quiet, Out
<1>3. CASE done[1] = "ADC"
  <2>1. helped.cpu = lynx_adc(before, w)
    BY <1>1, <1>2, <1>3
  <2>2. Summed(before, w, helped.cpu)
    BY ONLY <1>1, <2>1, <1>5, before.d = 1 => IsDecimal(before.a) /\ IsDecimal(w), SumsExact
  <2> QED BY <1>3, <2>2 DEF Summed, ArithmeticIsExact
<1>4. CASE done[1] = "SBC"
  <2>1. helped.cpu = lynx_sbc(before, w)
    BY <1>1, <1>2, <1>4
  <2>2. Reduced(before, w, helped.cpu)
    BY ONLY <1>1, <2>1, <1>5, before.d = 1 => IsDecimal(before.a) /\ IsDecimal(w), DifferencesExact
  <2> QED BY <1>4, <2>2 DEF Reduced, ArithmeticIsExact
<1> QED BY <1>3, <1>4

-----------------------------------------------------------------------------
(* The blitter.                                                            *)

PenValues == 0 .. Pens - 1
Cells == 0 .. Byte - 1
Addresses == 0 .. RamSize - 1

LEMMA ScreenTypes ==
  /\ Width \in Nat \ {0} /\ Height \in Nat \ {0} /\ RamSize \in Nat \ {0}
  /\ MaxSprites \in Nat \ {0} /\ Radix \in Nat \ {0}
  /\ PenBits \in 1 .. 4 /\ CountBits \in 1 .. 4
  /\ Width % 2 = 0 /\ Height * (Width \div 2) <= RamSize
BY SuzyAssumption

\* The powers of two that the bounds allow.
IsPower(n, p) == (n = 1 /\ p = 2) \/ (n = 2 /\ p = 4) \/ (n = 3 /\ p = 8) \/ (n = 4 /\ p = 16)

LEMMA FourPowers ==
  ASSUME NEW n \in 1 .. 4
  PROVE  \E p : p = 2 ^ n /\ IsPower(n, p)
<1>0. PICK p : p = 2 ^ n
  OBVIOUS
<1>1. n = 1 \/ n = 2 \/ n = 3 \/ n = 4
  OBVIOUS
<1>2. CASE n = 1
  <2>1. p = 2
    BY <1>0, <1>2, 2 ^ 1 = 2
  <2>2. IsPower(n, p)
    BY ONLY <1>2, <2>1 DEF IsPower
  <2>. QED
    BY <1>0, <2>2
<1>3. CASE n = 2
  <2>1. p = 4
    BY <1>0, <1>3, 2 ^ 2 = 4
  <2>2. IsPower(n, p)
    BY ONLY <1>3, <2>1 DEF IsPower
  <2>. QED
    BY <1>0, <2>2
<1>4. CASE n = 3
  <2>1. p = 8
    BY <1>0, <1>4, 2 ^ 3 = 8
  <2>2. IsPower(n, p)
    BY ONLY <1>4, <2>1 DEF IsPower
  <2>. QED
    BY <1>0, <2>2
<1>5. CASE n = 4
  <2>1. p = 16
    BY <1>0, <1>5, 2 ^ 4 = 16
  <2>2. IsPower(n, p)
    BY ONLY <1>5, <2>1 DEF IsPower
  <2>. QED
    BY <1>0, <2>2
<1>. QED
  BY <1>1, <1>2, <1>3, <1>4, <1>5

LEMMA SmallPowers ==
  ASSUME NEW n \in 1 .. 4
  PROVE  /\ 2 ^ n \in {2, 4, 8, 16}
         /\ 2 ^ (2 * n) = (2 ^ n) * (2 ^ n)
<1>1. n = 1 \/ n = 2 \/ n = 3 \/ n = 4
  OBVIOUS
<1>2. ASSUME n = 1 PROVE 2 ^ n = 2 /\ 2 ^ (2 * n) = 4
  BY <1>2, 2 * 1 = 2, 2 ^ 1 = 2, 2 ^ 2 = 4
<1>3. ASSUME n = 2 PROVE 2 ^ n = 4 /\ 2 ^ (2 * n) = 16
  BY <1>3, 2 * 2 = 4, 2 ^ 2 = 4, 2 ^ 4 = 16
<1>4. ASSUME n = 3 PROVE 2 ^ n = 8 /\ 2 ^ (2 * n) = 64
  BY <1>4, 2 * 3 = 6, 2 ^ 3 = 8, 2 ^ 6 = 64
<1>5. ASSUME n = 4 PROVE 2 ^ n = 16 /\ 2 ^ (2 * n) = 256
  BY <1>5, 2 * 4 = 8, 2 ^ 4 = 16, 2 ^ 8 = 256
<1>. QED
  BY <1>1, <1>2, <1>3, <1>4, <1>5

LEMMA PenTypes ==
  /\ Pens \in {2, 4, 8, 16} /\ Byte = Pens * Pens
  /\ Bits \in {2, 4, 6, 8} /\ PenBits \in 1 .. 4 /\ 2 ^ PenBits = Pens
<1>1. PenBits \in 1 .. 4
  BY ScreenTypes
<1>2. 2 ^ PenBits \in {2, 4, 8, 16} /\ 2 ^ (2 * PenBits) = (2 ^ PenBits) * (2 ^ PenBits)
  BY <1>1, SmallPowers
<1>3. 2 * PenBits \in {2, 4, 6, 8}
  BY <1>1
<1>. QED
  BY <1>1, <1>2, <1>3 DEF Pens, Byte, Bits

\* A byte is two pens, and back.
LEMMA Nibbles ==
  ASSUME NEW b \in Cells
  PROVE  /\ HighNibble(b) \in PenValues /\ LowNibble(b) \in PenValues
         /\ b = HighNibble(b) * Pens + LowNibble(b)
<1>1. PICK p \in {2, 4, 8, 16} : p = Pens /\ Byte = p * p
  BY PenTypes
<1>2. b \in 0 .. p * p - 1
  BY <1>1 DEF Cells
<1>3. b \div p \in 0 .. p - 1 /\ b % p \in 0 .. p - 1 /\ b = (b \div p) * p + (b % p)
  BY ONLY <1>2
<1>. QED
  BY <1>1, <1>3 DEF HighNibble, LowNibble, PenValues

LEMMA Joined ==
  ASSUME NEW h \in PenValues, NEW l \in PenValues
  PROVE  /\ h * Pens + l \in Cells
         /\ HighNibble(h * Pens + l) = h /\ LowNibble(h * Pens + l) = l
<1>1. PICK p \in {2, 4, 8, 16} : p = Pens /\ Byte = p * p
  BY PenTypes
<1>2. h \in 0 .. p - 1 /\ l \in 0 .. p - 1
  BY <1>1 DEF PenValues
<1>3. h * p + l \in 0 .. p * p - 1 /\ (h * p + l) \div p = h /\ (h * p + l) % p = l
  BY ONLY <1>2
<1>. QED
  BY <1>1, <1>3 DEF HighNibble, LowNibble, Cells

LEMMA XorPens ==
  ASSUME NEW x \in PenValues, NEW y \in PenValues
  PROVE  Xor(x, y) \in PenValues
<1>1. PICK n \in 1 .. 4 : n = PenBits
  BY PenTypes
<1>2. x \in 0 .. 2 ^ n - 1 /\ y \in 0 .. 2 ^ n - 1
  BY <1>1, PenTypes DEF PenValues
<1>3. Xor(x, y) \in 0 .. 2 ^ n - 1
  BY ONLY <1>2, XorFits
<1>. QED
  BY <1>1, <1>3, PenTypes DEF PenValues

\* The memory the blitter reads.
Memories == [Addresses -> Cells]

\* The bit at a place of the memory.
BitAt(p) == (ram[(p \div Bits) % RamSize] \div (2 ^ (Bits - 1 - (p % Bits)))) % 2

LEMMA BitAtType ==
  ASSUME ram \in Memories, NEW p \in Nat
  PROVE  BitAt(p) \in {0, 1}
<1>1. PICK b \in {2, 4, 6, 8} : b = Bits
  BY PenTypes
<1>2. b \in Nat \ {0} /\ RamSize \in Nat \ {0}
  BY ScreenTypes
<1>3. p \div b \in Nat /\ p % b \in 0 .. b - 1
  BY <1>2, Division
<1>4. (p \div b) % RamSize \in 0 .. RamSize - 1
  BY <1>2, <1>3, Division
<1>5. ram[(p \div b) % RamSize] \in Cells
  BY <1>4 DEF Memories, Addresses
<1>6. PICK d \in 0 .. 7 : d = b - 1 - (p % b)
  BY ONLY <1>3
<1>7. 2 ^ d \in Nat \ {0}
  BY Double
<1>8. PICK c \in Nat : c = ram[(p \div b) % RamSize]
  BY <1>5, PenTypes DEF Cells
<1>9. (c \div (2 ^ d)) \in Nat
  BY <1>7, Division
<1>10. (c \div (2 ^ d)) % 2 \in {0, 1}
  BY <1>9
<1>. QED
  BY <1>1, <1>6, <1>8, <1>10 DEF BitAt

\* A number of n bits is below 2 ^ n.
LEMMA BitsGet ==
  ASSUME ram \in Memories, NEW p \in Nat, NEW n \in 1 .. 4
  PROVE  bits_get(p, n) \in 0 .. 2 ^ n - 1
<1>. DEFINE bit(q) == (ram[(q \div Bits) % RamSize] \div (2 ^ (Bits - 1 - (q % Bits)))) % 2
            IsFirst(f) == f = [k \in 0 .. n |-> IF k = 0 THEN 0 ELSE 2 * f[k - 1] + bit(p + k - 1)]
            first == CHOOSE f : IsFirst(f)
            G == [q \in (1 .. n) \X Nat |-> 2 * q[2] + bit(p + q[1] - 1)]
<1>1. bits_get(p, n) = first[n]
  BY DEF bits_get
<1>2. \A q \in Nat : bit(q) \in {0, 1}
  BY BitAtType DEF BitAt
<1>. HIDE DEF bit
<1>3. \A k \in 1 .. n : bit(p + k - 1) \in {0, 1}
  BY <1>2
<1>4. \A k \in 1 .. n, y \in Nat : G[<<k, y>>] = 2 * y + bit(p + k - 1)
  OBVIOUS
<1>5. ASSUME NEW k \in 1 .. n, NEW y \in Nat PROVE G[<<k, y>>] \in Nat
  <2>1. PICK t \in {0, 1} : t = bit(p + k - 1)
    BY <1>3
  <2>2. 2 * y + t \in Nat
    OBVIOUS
  <2>. QED
    BY <1>4, <2>1, <2>2
<1>. HIDE DEF G
<1>6. PICK gr : Over(gr, G, 0, n) /\ \A k \in 0 .. n : gr[k] \in Nat
  <2>1. PICK S : S = Nat
    OBVIOUS
  <2>2. 0 \in S /\ n \in Nat /\ \A k \in 1 .. n, y \in S : G[<<k, y>>] \in S
    BY <1>5, <2>1
  <2>3. \E gr : Over(gr, G, 0, n) /\ \A k \in 0 .. n : gr[k] \in S
    BY <2>2, OverExists
  <2>. QED
    BY <2>1, <2>3
<1>7. gr = [k \in 0 .. n |-> IF k = 0 THEN 0 ELSE G[<<k, gr[k - 1]>>]]
  BY <1>6 DEF Over
<1>8. \A k \in 0 .. n : k # 0 => G[<<k, gr[k - 1]>>] = 2 * gr[k - 1] + bit(p + k - 1)
  BY <1>4, <1>6
<1>9. IsFirst(gr)
  BY <1>7, <1>8
<1>10. IsFirst(first)
  BY <1>9
<1>. HIDE DEF first
<1>11. \A k \in 0 .. n : first[k] = IF k = 0 THEN 0 ELSE 2 * first[k - 1] + bit(p + k - 1)
  BY <1>10
<1>. HIDE DEF IsFirst
<1>. DEFINE At(k) == first[k] \in 0 .. 2 ^ k - 1
<1>12. 2 ^ 0 = 1 /\ 2 ^ 1 = 2 /\ 2 ^ 2 = 4 /\ 2 ^ 3 = 8 /\ 2 ^ 4 = 16
  OBVIOUS
<1>13. first[0] = 0
  BY <1>11
<1>14. first[1] \in 0 .. 1
  <2>1. bit(p + 1 - 1) \in {0, 1}
    BY <1>3
  <2>2. first[1] = 2 * first[1 - 1] + bit(p + 1 - 1)
    BY <1>11
  <2>. QED
    BY <1>13, <2>1, <2>2
<1>15. n >= 2 => first[2] \in 0 .. 3
  <2>1. n >= 2 => bit(p + 2 - 1) \in {0, 1}
    BY <1>3
  <2>2. n >= 2 => first[2] = 2 * first[2 - 1] + bit(p + 2 - 1)
    BY <1>11
  <2>. QED
    BY <1>14, <2>1, <2>2
<1>16. n >= 3 => first[3] \in 0 .. 7
  <2>1. n >= 3 => bit(p + 3 - 1) \in {0, 1}
    BY <1>3
  <2>2. n >= 3 => first[3] = 2 * first[3 - 1] + bit(p + 3 - 1)
    BY <1>11
  <2>. QED
    BY <1>15, <2>1, <2>2
<1>17. n >= 4 => first[4] \in 0 .. 15
  <2>1. n >= 4 => bit(p + 4 - 1) \in {0, 1}
    BY <1>3
  <2>2. n >= 4 => first[4] = 2 * first[4 - 1] + bit(p + 4 - 1)
    BY <1>11
  <2>. QED
    BY <1>16, <2>1, <2>2
<1>18. n = 1 \/ n = 2 \/ n = 3 \/ n = 4
  OBVIOUS
<1>19. CASE n = 1
  BY <1>1, <1>12, <1>14, <1>19
<1>20. CASE n = 2
  BY <1>1, <1>12, <1>15, <1>20
<1>21. CASE n = 3
  BY <1>1, <1>12, <1>16, <1>21
<1>22. CASE n = 4
  BY <1>1, <1>12, <1>17, <1>22
<1>. QED
  BY <1>18, <1>19, <1>20, <1>21, <1>22

Palettes == [0 .. Pens - 1 -> PenValues]
Packets == [left : 0 .. 2 ^ CountBits, px : PenValues]
BlitPlaces == {"idle", "sprite", "line", "literal", "packet", "literals", "copies"}
LinePlaces == {"line", "literal", "packet", "literals", "copies"}
DrawPlaces == {"literal", "packet", "literals", "copies"}

GoodChain ==
  /\ Len(scbs) \in Nat /\ DOMAIN scbs = 1 .. Len(scbs)
  /\ \A k \in 1 .. Len(scbs) : IsBlock(scbs[k], Len(scbs))

Registers == [VIDBAS : Nat, HOFF : Int, VOFF : Int, SCBNEXT : 0 .. Len(scbs)]

\* What the blitter works on.
BlitData ==
  /\ ram \in Memories /\ pen \in Palettes /\ run \in Packets
  /\ GoodChain /\ video \in Registers

\* The bit reader is where what is left of the line says.
InStep == (br + line_bits) % (Bits * RamSize) = Bits * dp

BlitCounts ==
  /\ line \in 0 .. 2 * Height /\ col \in Nat /\ br \in Nat
  /\ line_bits \in Int /\ line_bits >= -1 - CountBits

OnChain == scb \in 0 .. Len(scbs) /\ sprites \in 0 .. MaxSprites
OnLine == scb \in 1 .. Len(scbs) /\ dp \in Addresses
OnPixels == line < 2 * Height /\ InStep

BlitInv ==
  /\ BlitData /\ BlitCounts
  /\ pc \in BlitPlaces
  /\ busy = Blitting
  /\ Blitting => OnChain
  /\ pc \in LinePlaces => OnLine
  /\ pc \in DrawPlaces => OnPixels

LEMMA PowersGrow ==
  ASSUME NEW n \in 1 .. 4, NEW m \in 1 .. 4, n <= m
  PROVE  2 ^ n <= 2 ^ m
<1>1. PICK p : p = 2 ^ n /\ IsPower(n, p)
  BY FourPowers
<1>2. PICK q : q = 2 ^ m /\ IsPower(m, q)
  BY FourPowers
<1>3. p <= q
  BY <1>1, <1>2 DEF IsPower
<1>. QED
  BY <1>1, <1>2, <1>3

\* The pen of the bits at a place.
LEMMA PenType ==
  ASSUME ram \in Memories, pen \in Palettes, NEW p \in Nat, NEW n \in 1 .. PenBits
  PROVE  pen[bits_get(p, n)] \in PenValues
<1>1. n \in 1 .. 4 /\ PenBits \in 1 .. 4 /\ n <= PenBits
  BY PenTypes
<1>2. PICK x : x = bits_get(p, n)
  OBVIOUS
<1>3. x \in 0 .. 2 ^ n - 1
  BY <1>1, <1>2, BitsGet
<1>4. 2 ^ n <= 2 ^ PenBits /\ 2 ^ n \in {2, 4, 8, 16} /\ 2 ^ PenBits = Pens
  BY <1>1, PowersGrow, SmallPowers, PenTypes
<1>5. Pens \in {2, 4, 8, 16}
  BY PenTypes
<1>6. x \in 0 .. Pens - 1
  BY <1>3, <1>4, <1>5
<1>. QED
  BY <1>2, <1>6 DEF Palettes

LEMMA ThisBlock ==
  ASSUME GoodChain, scb \in 1 .. Len(scbs)
  PROVE  IsBlock(This, Len(scbs))
BY DEF GoodChain, This

\* Where a pixel is in memory.
LEMMA PixelAddress ==
  ASSUME NEW base \in Nat, NEW x \in 0 .. Width - 1, NEW y \in 0 .. Height - 1
  PROVE  /\ y * Pitch + x \div 2 \in 0 .. RamSize - 1
         /\ x \div 2 \in 0 .. Pitch - 1
         /\ PixelAt(base, x, y) \in Addresses
<1>1. PICK w \in Nat : w = Width \div 2 /\ Width = 2 * w
  <2>1. Width \in Nat /\ Width % 2 = 0
    BY ScreenTypes
  <2>2. Width \div 2 \in Nat /\ Width = 2 * (Width \div 2)
    BY <2>1
  <2>. QED
    BY <2>2
<1>2. PICK h \in Nat \ {0}, r \in Nat \ {0} : h = Height /\ r = RamSize
  BY ScreenTypes
<1>3. h * w <= r
  BY <1>1, <1>2, ScreenTypes
<1>4. x \div 2 \in 0 .. w - 1
  BY <1>1
<1>5. PICK c \in 0 .. w - 1 : c = x \div 2
  BY <1>4
<1>6. y \in 0 .. h - 1
  BY <1>2
<1>7. y * w + c \in Nat /\ y * w + c < h * w
  <2>1. y * w \in Nat /\ h * w \in Nat /\ (h - 1) * w = h * w - w
    BY <1>6
  <2>2. y * w <= (h - 1) * w
    BY <1>6
  <2>. QED
    BY <1>5, <2>1, <2>2
<1>8. y * w + c \in 0 .. r - 1
  BY <1>3, <1>7
<1>9. PICK a \in Nat : a = base + y * w + c
  BY <1>6, <1>5
<1>10. a % r \in 0 .. r - 1
  BY Division
<1>. QED
  BY <1>1, <1>2, <1>4, <1>5, <1>8, <1>9, <1>10 DEF PixelAt, Pitch, Addresses

LEMMA DrawnMemory ==
  ASSUME ram \in Memories, video \in Registers, NEW x \in Int, NEW y \in Int,
         NEW p \in PenValues, NEW type
  PROVE  blit_pixel(x, y, p, type) \in Memories
<1>. DEFINE a == PixelAt(video.VIDBAS, x, y)
            cur == ram[a]
            old == IF x % 2 = 1 THEN LowNibble(cur) ELSE HighNibble(cur)
            nw == IF type = 7 THEN Xor(old, p) ELSE p
            byte == IF x % 2 = 1 THEN HighNibble(cur) * Pens + nw ELSE nw * Pens + LowNibble(cur)
<1>1. blit_pixel(x, y, p, type) = IF Transparent(p, type) \/ Clipped(x, y) THEN ram ELSE [ram EXCEPT ![a] = byte]
  BY DEF blit_pixel
<1>2. CASE Clipped(x, y)
  BY <1>1, <1>2
<1>3. CASE ~Clipped(x, y)
  <2>1. x \in 0 .. Width - 1 /\ y \in 0 .. Height - 1
    BY <1>3 DEF Clipped, OnScreen
  <2>2. a \in Addresses
    BY <2>1, PixelAddress DEF Registers
  <2>3. cur \in Cells
    BY <2>2 DEF Memories
  <2>4. old \in PenValues /\ HighNibble(cur) \in PenValues /\ LowNibble(cur) \in PenValues
    BY <2>3, Nibbles
  <2>5. nw \in PenValues
    BY <2>4, XorPens
  <2>6. byte \in Cells
    BY <2>4, <2>5, Joined
  <2>. HIDE DEF a, byte
  <2>7. [ram EXCEPT ![a] = byte] \in Memories
    BY <2>2, <2>6 DEF Memories
  <2>. QED
    BY <1>1, <2>7
<1>. QED
  BY <1>2, <1>3

LEMMA BlitStart ==
  ASSUME lynx_suzy_init, NEW p, IsPicture(p), ram = p.ram, scbs = p.scbs, video = p.video
  PROVE  BlitInv /\ pc = "idle"
<1>0. CountBits \in 1 .. 4
  BY ScreenTypes
<1>1. Pens \in Nat \ {0} /\ 2 ^ CountBits \in {2, 4, 8, 16} /\ CountBits \in 1 .. 4
  <2>1. Pens \in Nat \ {0}
    BY PenTypes
  <2>2. 2 ^ CountBits \in {2, 4, 8, 16}
    BY <1>0, SmallPowers
  <2>. QED
    BY <1>0, <2>1, <2>2
<1>2. ram \in Memories /\ GoodChain /\ video \in Registers
  BY DEF IsPicture, Memories, Addresses, Cells, GoodChain, Registers
<1>3. pen \in Palettes
  BY <1>1 DEF lynx_suzy_init, Palettes, PenValues
<1>4. run \in Packets
  <2>1. 0 \in 0 .. 2 ^ CountBits /\ 0 \in PenValues
    BY <1>1 DEF PenValues
  <2>. QED
    BY <2>1 DEF lynx_suzy_init, Packets
<1>5. BlitCounts
  BY <1>1, ScreenTypes DEF lynx_suzy_init, BlitCounts
<1>. QED
  BY <1>2, <1>3, <1>4, <1>5 DEF lynx_suzy_init, BlitInv, BlitData, Blitting, BlitPlaces, LinePlaces, DrawPlaces

LEMMA GoKeeps ==
  ASSUME BlitInv, write_SPRGO
  PROVE  BlitInv'
<1>1. BlitData'
  <2>1. pen' \in Palettes
    BY PenTypes DEF write_SPRGO, Palettes, PenValues
  <2>2. GoodChain' /\ ram' \in Memories /\ run' \in Packets /\ video' \in Registers'
    BY DEF write_SPRGO, BlitInv, BlitData, GoodChain, Registers
  <2>. QED
    BY <2>1, <2>2 DEF BlitData
<1>2. BlitCounts'
  BY DEF write_SPRGO, BlitInv, BlitCounts
<1>3. OnChain'
  <2>1. scb' \in 0 .. Len(scbs) /\ sprites' = 0 /\ scbs' = scbs
    BY DEF write_SPRGO, BlitInv, BlitData, Registers
  <2>. QED
    BY <2>1, ScreenTypes DEF OnChain
<1>. QED
  BY <1>1, <1>2, <1>3 DEF write_SPRGO, BlitInv, Blitting, BlitPlaces, LinePlaces, DrawPlaces

LEMMA VideoKeeps ==
  ASSUME BlitInv, NEW v \in 0 .. Len(scbs), write_video("SCBNEXT", v)
  PROVE  BlitInv'
<1>1. video' \in Registers
  BY DEF write_video, BlitInv, BlitData, Registers
<1>2. UNCHANGED <<math, busy, ram, scbs, blitVars>> /\ pc = "idle"
  BY DEF write_video, Blitting
<1>3. BlitData'
  BY <1>1, <1>2 DEF BlitInv, BlitData, blitVars, GoodChain, Registers
<1>4. BlitCounts'
  BY <1>2 DEF BlitInv, BlitCounts, blitVars
<1>. QED
  BY <1>2, <1>3, <1>4 DEF BlitInv, Blitting, LinePlaces, DrawPlaces, blitVars

\* A write to memory, or to a math register, leaves the blitter as it was.
LEMMA MemoryKeeps ==
  ASSUME BlitInv, ram' \in Memories, UNCHANGED <<video, busy, scbs, blitVars>>
  PROVE  BlitInv'
<1>1. BlitData'
  BY DEF BlitInv, BlitData, blitVars, GoodChain, Registers
<1>2. BlitCounts'
  BY DEF BlitInv, BlitCounts, blitVars
<1>3. /\ OnChain => OnChain'
      /\ OnLine => OnLine'
      /\ OnPixels => OnPixels'
  BY DEF OnChain, OnLine, OnPixels, InStep, blitVars
<1>4. pc' = pc /\ busy' = busy
  BY DEF blitVars
<1>5. busy' = Blitting'
  BY <1>4 DEF BlitInv, Blitting
<1>6. Blitting' => OnChain'
  BY <1>3, <1>4 DEF Blitting, BlitInv
<1>7. pc' \in LinePlaces => OnLine'
  BY <1>3, <1>4 DEF BlitInv
<1>8. pc' \in DrawPlaces => OnPixels'
  BY <1>3, <1>4 DEF BlitInv
<1>9. pc' \in BlitPlaces
  BY <1>4 DEF BlitInv
<1>. QED
  BY ONLY <1>1, <1>2, <1>5, <1>6, <1>7, <1>8, <1>9 DEF BlitInv, LinePlaces, DrawPlaces, BlitPlaces

-----------------------------------------------------------------------------
\* The steps of the blitter.

LEMMA PaletteLoads ==
  ASSUME pen \in Palettes, NEW s, NEW n, IsBlock(s, n)
  PROVE  load_palette(s) \in Palettes
<1>. DEFINE byte(i) == s.tail[skipped(s.reload) + i \div 2 + 1]
            to(i) == IF s.nopal \/ i >= (2 ^ s.bpp) THEN pen[i]
                     ELSE IF i % 2 = 1 THEN LowNibble(byte(i)) ELSE HighNibble(byte(i))
<1>1. load_palette(s) = [i \in 0 .. Pens - 1 |-> to(i)]
  BY DEF load_palette
<1>2. PICK p \in {2, 4, 8, 16} : p = Pens
  BY PenTypes
<1>3. PICK k \in Nat : k = skipped(s.reload)
  BY DEF IsBlock, skipped
<1>4. s.tail \in Seq(Cells) /\ Len(s.tail) >= k + Pens \div 2
  BY <1>3 DEF IsBlock, Cells
<1>5. ASSUME NEW i \in 0 .. Pens - 1 PROVE to(i) \in PenValues
  <2>1. i \div 2 + 1 \in 1 .. p \div 2
    BY <1>2
  <2>2. k + i \div 2 + 1 \in 1 .. Len(s.tail)
    <3>1. PICK j \in Nat : j = i \div 2
      BY <1>2
    <3>2. PICK l \in Nat : l = Len(s.tail)
      BY <1>4
    <3>3. k + j + 1 \in 1 .. l
      BY <3>1, <3>2, <2>1, <1>2, <1>4
    <3>. QED
      BY <3>1, <3>2, <3>3
  <2>3. byte(i) \in Cells
    BY <2>2, <1>3, <1>4
  <2>4. LowNibble(byte(i)) \in PenValues /\ HighNibble(byte(i)) \in PenValues
    BY <2>3, Nibbles
  <2>5. pen[i] \in PenValues
    BY DEF Palettes
  <2>. QED
    BY <2>4, <2>5
<1>. HIDE DEF to
<1>. QED
  BY <1>1, <1>5 DEF Palettes

LEMMA SpriteKeeps ==
  ASSUME BlitInv, SpriteStep
  PROVE  BlitInv'
<1>1. pc = "sprite" /\ OnChain /\ BlitData /\ BlitCounts
  BY DEF SpriteStep, BlitInv, Blitting
<1>2. UNCHANGED <<math, video, ram, scbs, br, line_bits, col, run>>
  BY DEF SpriteStep
<1>3. Len(scbs) \in Nat
  BY <1>1 DEF BlitData, GoodChain
<1>4. CASE ChainLeft
  <2>1. scb \in 1 .. Len(scbs) /\ sprites + 1 \in 0 .. MaxSprites
    BY <1>1, <1>3, <1>4, ScreenTypes DEF OnChain, ChainLeft
  <2>2. IsBlock(This, Len(scbs))
    BY <1>1, <2>1, ThisBlock DEF BlitData
  <2>3. pen' \in Palettes
    <3>1. pen' = load_palette(This)
      BY <1>4 DEF SpriteStep
    <3>. QED
      BY <1>1, <2>2, <3>1, PaletteLoads DEF BlitData
  <2>4. BlitData'
    BY <1>1, <1>2, <2>3 DEF BlitData, GoodChain, Registers
  <2>5. sprites' = sprites + 1 /\ busy' = busy
    BY <1>4 DEF SpriteStep
  <2>6. CASE This.skip
    <3>1. scb' = This.next /\ pc' = pc /\ UNCHANGED <<dp, line>>
      BY <1>4, <2>6 DEF SpriteStep
    <3>2. scb' \in 0 .. Len(scbs)
      BY <2>2, <3>1 DEF IsBlock
    <3>3. OnChain'
      BY <1>2, <2>1, <2>5, <3>2 DEF OnChain
    <3>4. BlitCounts'
      BY <1>1, <1>2, <3>1 DEF BlitCounts
    <3>. QED
      BY <1>1, <2>4, <2>5, <3>1, <3>3, <3>4 DEF BlitInv, Blitting, LinePlaces, DrawPlaces
  <2>7. CASE ~This.skip
    <3>1. pc' = "line" /\ dp' = This.data /\ line' = 0 /\ scb' = scb
      BY <1>4, <2>7 DEF SpriteStep
    <3>2. OnLine'
      BY <1>2, <2>1, <2>2, <3>1 DEF OnLine, IsBlock, Addresses
    <3>3. OnChain'
      BY <1>1, <1>2, <2>1, <2>5, <3>1 DEF OnChain
    <3>4. BlitCounts'
      BY <1>1, <1>2, <3>1, ScreenTypes DEF BlitCounts
    <3>. QED
      BY <1>1, <2>4, <2>5, <3>1, <3>2, <3>3, <3>4 DEF BlitInv, Blitting, BlitPlaces, DrawPlaces
  <2>. QED
    BY <2>6, <2>7
<1>5. CASE ~ChainLeft
  <2>1. pc' = "idle" /\ busy' = FALSE /\ UNCHANGED <<scb, sprites, pen, dp, line>>
    BY <1>5 DEF SpriteStep
  <2>2. BlitData' /\ BlitCounts'
    BY <1>1, <1>2, <2>1 DEF BlitData, GoodChain, Registers, BlitCounts
  <2>. QED
    BY <2>1, <2>2 DEF BlitInv, Blitting, BlitPlaces, LinePlaces, DrawPlaces
<1>. QED
  BY <1>4, <1>5

LEMMA ScaledRemainder ==
  ASSUME NEW p \in Nat \ {0}, NEW n \in Nat \ {0}, NEW t \in Nat
  PROVE  (p * t) % (p * n) = p * (t % n)
<1>1. PICK q \in Nat : q = t \div n
  BY Division
<1>2. PICK r \in 0 .. n - 1 : r = t % n
  BY Division
<1>3. t = q * n + r
  BY <1>1, <1>2, Division
<1>4. PICK m \in Nat \ {0} : m = p * n
  <2>1. p * n \in Nat /\ p * n >= p
    OBVIOUS
  <2>. QED
    BY <2>1
<1>5. PICK u \in Nat : u = p * t
  OBVIOUS
<1>6. PICK e \in Int : e = p * r
  OBVIOUS
<1>7. e \in 0 .. m - 1
  <2>1. p * r >= 0 /\ p * r <= p * (n - 1)
    OBVIOUS
  <2>2. p * (n - 1) = p * n - p
    OBVIOUS
  <2>. QED
    BY <1>4, <1>6, <2>1, <2>2
<1>8. u = q * m + e
  <2>1. p * (q * n + r) = q * (p * n) + p * r
    OBVIOUS
  <2>. QED
    BY <1>3, <1>4, <1>5, <1>6, <2>1
<1>9. u \div m \in Nat /\ u % m \in 0 .. m - 1 /\ u = (u \div m) * m + (u % m)
  BY Division
<1>10. PICK j \in Int, s \in 0 .. m - 1 : j = u \div m /\ s = u % m
  BY <1>9
<1>11. q * m + e = j * m + s
  BY <1>8, <1>9, <1>10
<1>12. e = s
  BY <1>7, <1>11, Quotient
<1>. QED
  BY <1>2, <1>4, <1>5, <1>6, <1>10, <1>12

LEMMA LineKeeps ==
  ASSUME BlitInv, LineStep
  PROVE  BlitInv'
<1>1. pc = "line" /\ OnChain /\ OnLine /\ BlitData /\ BlitCounts
  BY DEF LineStep, BlitInv, Blitting, LinePlaces
<1>2. UNCHANGED <<math, video, busy, ram, scbs, sprites, pen, run>>
  BY DEF LineStep
<1>3. IsBlock(This, Len(scbs)) /\ Len(scbs) \in Nat
  BY <1>1, ThisBlock DEF BlitData, OnLine, GoodChain
<1>4. BlitData'
  BY <1>1, <1>2 DEF BlitData, GoodChain, Registers
<1>5. busy = TRUE
  BY <1>1 DEF BlitInv, Blitting
<1>6. PICK o \in Nat : o = ram[dp]
  BY <1>1, PenTypes DEF OnLine, BlitData, Memories, Cells
<1>7. CASE line >= 2 * Height \/ o = 0
  <2>1. pc' = "sprite" /\ scb' = This.next /\ UNCHANGED <<dp, line, br, line_bits, col>>
    BY <1>6, <1>7 DEF LineStep
  <2>2. BlitCounts'
    BY <1>1, <2>1 DEF BlitCounts
  <2>3. OnChain'
    BY <1>1, <1>2, <1>3, <2>1 DEF OnChain, IsBlock
  <2>. QED
    BY <1>2, <1>4, <1>5, <2>1, <2>2, <2>3 DEF BlitInv, Blitting, BlitPlaces, LinePlaces, DrawPlaces
<1>8. CASE ~(line >= 2 * Height \/ o = 0)
  <2>1. dp' = (dp + o) % RamSize /\ scb' = scb
    BY <1>6, <1>8 DEF LineStep
  <2>2. dp \in Nat /\ RamSize \in Nat \ {0} /\ dp + o \in Nat
    BY <1>1, ScreenTypes DEF OnLine, Addresses
  <2>3. dp' \in Addresses
    BY <2>1, <2>2, Division DEF Addresses
  <2>4. OnLine' /\ OnChain'
    BY <1>1, <1>2, <2>1, <2>3 DEF OnLine, OnChain
  <2>5. line \in Nat /\ line < 2 * Height /\ Height \in Nat \ {0}
    BY <1>1, <1>8, ScreenTypes DEF BlitCounts
  <2>6. CASE o = 1
    <3>1. line' = line + 1 /\ UNCHANGED <<pc, br, line_bits, col>>
      BY <1>6, <1>8, <2>6 DEF LineStep, BlankLine
    <3>2. BlitCounts'
      BY <1>1, <2>5, <3>1 DEF BlitCounts
    <3>. QED
      BY <1>1, <1>2, <1>4, <1>5, <2>4, <3>1, <3>2 DEF BlitInv, Blitting, BlitPlaces, DrawPlaces
  <2>7. CASE o # 1
    <3>1. /\ pc' = IF This.literal THEN "literal" ELSE "packet"
          /\ br' = Bits * (dp + 1) /\ line_bits' = Bits * (o - 1)
          /\ col' = 0 /\ line' = line
      BY <1>6, <1>8, <2>7 DEF LineStep
    <3>2. PICK b \in {2, 4, 6, 8} : b = Bits
      BY PenTypes
    <3>3. br' \in Nat /\ line_bits' \in Nat
      BY <1>8, <2>2, <3>1, <3>2
    <3>4. BlitCounts'
      BY <1>1, <3>1, <3>3, ScreenTypes DEF BlitCounts
    <3>5. InStep'
      <4>1. PICK t \in Nat, n \in Nat \ {0} : t = dp + o /\ n = RamSize
        BY <2>2
      <4>2. br' + line_bits' = b * t
        BY <2>2, <3>1, <3>2, <4>1
      <4>3. (b * t) % (b * n) = b * (t % n)
        <5>1. b \in Nat \ {0}
          OBVIOUS
        <5>. QED
          BY <5>1, ScaledRemainder
      <4>. QED
        BY <2>1, <3>2, <4>1, <4>2, <4>3 DEF InStep
    <3>6. OnPixels'
      BY <2>5, <3>1, <3>5 DEF OnPixels
    <3>7. pc' \in {"literal", "packet"}
      BY <3>1
    <3>. QED
      BY <1>2, <1>4, <1>5, <2>4, <3>4, <3>6, <3>7 DEF BlitInv, Blitting, BlitPlaces, LinePlaces, DrawPlaces
  <2>. QED
    BY <2>6, <2>7
<1>. QED
  BY <1>7, <1>8

\* What holds in a line of pixels.
LEMMA PixelPlace ==
  ASSUME BlitInv, pc \in DrawPlaces
  PROVE  /\ OnChain /\ OnLine /\ OnPixels /\ BlitData /\ BlitCounts /\ busy = TRUE
         /\ IsBlock(This, Len(scbs)) /\ This.bpp \in 1 .. 4 /\ This.bpp <= PenBits
         /\ This.hpos \in Int /\ This.vpos \in Int
<1>1. pc \in LinePlaces /\ Blitting
  BY DEF DrawPlaces, LinePlaces, Blitting
<1>2. OnChain /\ OnLine /\ OnPixels /\ BlitData /\ BlitCounts /\ busy = TRUE
  BY <1>1 DEF BlitInv
<1>3. IsBlock(This, Len(scbs))
  BY <1>2, ThisBlock DEF BlitData, OnLine
<1>4. This.bpp \in 1 .. PenBits /\ This.hpos \in Int /\ This.vpos \in Int
  BY <1>3 DEF IsBlock
<1>5. This.bpp \in 1 .. 4 /\ This.bpp <= PenBits
  BY <1>4, ScreenTypes
<1>. QED
  BY <1>2, <1>3, <1>4, <1>5

LEMMA DrawKeeps ==
  ASSUME BlitInv, pc \in DrawPlaces, NEW p \in PenValues, Draw(p)
  PROVE  ram' \in Memories /\ col' \in Nat
<1>1. BlitData /\ BlitCounts /\ This.hpos \in Int /\ This.vpos \in Int
  BY PixelPlace
<1>2. video \in Registers /\ ram \in Memories /\ col \in Nat /\ line \in Int
  BY <1>1, ScreenTypes DEF BlitData, BlitCounts
<1>3. video.HOFF \in Int /\ video.VOFF \in Int
  BY <1>2 DEF Registers
<1>4. PICK x \in Int : x = IF This.hflip THEN This.hpos - video.HOFF - col ELSE This.hpos - video.HOFF + col
  BY <1>1, <1>2, <1>3
<1>5. PICK y \in Int : y = IF This.vflip THEN This.vpos - video.VOFF - line ELSE This.vpos - video.VOFF + line
  BY <1>1, <1>2, <1>3
<1>6. ram' = blit_pixel(x, y, p, This.type) /\ col' = col + 1
  BY <1>4, <1>5 DEF Draw
<1>. QED
  BY <1>2, <1>6, DrawnMemory

LEMMA PixelKeeps ==
  ASSUME BlitInv, pc \in DrawPlaces, UNCHANGED <<video, busy, scbs, scb, sprites, pen, dp>>,
         ram' \in Memories, run' \in Packets, col' \in Nat, br' \in Nat,
         line_bits' \in Int, line_bits' >= -1 - CountBits, br' + line_bits' = br + line_bits,
         (pc' \in DrawPlaces /\ line' = line) \/ (pc' = "line" /\ line' = line + 1)
  PROVE  BlitInv'
<1>1. OnChain /\ OnLine /\ OnPixels /\ BlitData /\ BlitCounts /\ busy = TRUE
  BY PixelPlace
<1>2. BlitData'
  BY <1>1 DEF BlitData, GoodChain, Registers
<1>3. OnChain' /\ OnLine'
  BY <1>1 DEF OnChain, OnLine
<1>4. line' \in 0 .. 2 * Height
  BY <1>1, ScreenTypes DEF OnPixels, BlitCounts
<1>5. BlitCounts'
  BY <1>4 DEF BlitCounts
<1>6. pc' \in DrawPlaces => OnPixels'
  <2>1. InStep'
    BY <1>1 DEF OnPixels, InStep
  <2>2. pc' \in DrawPlaces => line' = line
    BY DEF DrawPlaces
  <2>. QED
    BY <1>1, <2>1, <2>2 DEF OnPixels
<1>7. pc' \in BlitPlaces /\ pc' \in LinePlaces /\ pc' # "idle"
  BY DEF DrawPlaces, BlitPlaces, LinePlaces
<1>. QED
  BY <1>1, <1>2, <1>3, <1>5, <1>6, <1>7 DEF BlitInv, Blitting

LEMMA FetchType ==
  ASSUME BlitInv, pc \in DrawPlaces
  PROVE  Fetch \in PenValues
<1>1. BlitData /\ BlitCounts /\ This.bpp \in 1 .. PenBits
  BY PixelPlace, PenTypes
<1>2. ram \in Memories /\ pen \in Palettes /\ br \in Nat
  BY <1>1 DEF BlitData, BlitCounts
<1>. QED
  BY <1>1, <1>2, PenType DEF Fetch

LEMMA LiteralKeeps ==
  ASSUME BlitInv, LiteralStep
  PROVE  BlitInv'
<1>1. pc = "literal" /\ UNCHANGED <<math, video, busy, scbs, scb, sprites, pen, dp, run>>
  BY DEF LiteralStep
<1>2. pc \in DrawPlaces
  BY <1>1 DEF DrawPlaces
<1>3. BlitData /\ BlitCounts /\ This.bpp \in 1 .. 4
  BY <1>2, PixelPlace
<1>4. ram \in Memories /\ run' \in Packets /\ CountBits \in 1 .. 4
  BY <1>1, <1>3, ScreenTypes DEF BlitData
<1>5. CASE line_bits >= This.bpp
  <2>1. Draw(Fetch) /\ Consume(This.bpp) /\ UNCHANGED <<pc, line>>
    BY <1>5 DEF LiteralStep
  <2>2. ram' \in Memories /\ col' \in Nat
    BY <1>2, <2>1, FetchType, DrawKeeps
  <2>3. /\ br' \in Nat /\ line_bits' \in Int /\ line_bits' >= -1 - CountBits
        /\ br' + line_bits' = br + line_bits
    BY <1>3, <1>4, <1>5, <2>1 DEF Consume, BlitCounts
  <2>. QED
    BY <1>1, <1>2, <1>4, <2>1, <2>2, <2>3, PixelKeeps
<1>6. CASE ~(line_bits >= This.bpp)
  <2>1. EndLine /\ UNCHANGED <<ram, col, br, line_bits>>
    BY <1>6 DEF LiteralStep
  <2>2. /\ col' \in Nat /\ br' \in Nat /\ line_bits' \in Int /\ line_bits' >= -1 - CountBits
        /\ br' + line_bits' = br + line_bits
    BY <1>3, <2>1 DEF BlitCounts
  <2>. QED
    BY <1>1, <1>2, <1>4, <2>1, <2>2, PixelKeeps DEF EndLine
<1>. QED
  BY <1>5, <1>6

\* The number in a packet's header.
LEMMA CountType ==
  ASSUME ram \in Memories, NEW p \in Nat
  PROVE  bits_get(p, CountBits) \in 0 .. 2 ^ CountBits - 1
<1>1. PICK n \in 1 .. 4 : n = CountBits
  BY ScreenTypes
<1>. QED
  BY <1>1, BitsGet

LEMMA PacketKeeps ==
  ASSUME BlitInv, PacketStep
  PROVE  BlitInv'
<1>. DEFINE literal == bits_get(br, 1) = 1
            count == bits_get(br + 1, CountBits)
            header == 1 + CountBits
            px == pen[bits_get(br + header, This.bpp)]
<1>1. pc = "packet" /\ UNCHANGED <<math, video, busy, ram, scbs, scb, sprites, pen, dp, col>>
  BY DEF PacketStep
<1>2. pc \in DrawPlaces
  BY <1>1 DEF DrawPlaces
<1>3. BlitData /\ BlitCounts /\ This.bpp \in 1 .. PenBits /\ This.bpp \in 1 .. 4
  BY <1>2, PixelPlace, PenTypes
<1>4. ram' \in Memories /\ ram \in Memories /\ pen \in Palettes /\ run \in Packets
  BY <1>1, <1>3 DEF BlitData
<1>5. CountBits \in 1 .. 4 /\ col' \in Nat /\ br \in Nat /\ line_bits \in Int /\ line_bits >= -1 - CountBits
  BY <1>1, <1>3, ScreenTypes DEF BlitCounts
<1>6. count \in 0 .. 2 ^ CountBits - 1
  BY <1>4, <1>5, CountType
<1>7. px \in PenValues
  BY <1>3, <1>4, <1>5, PenType
<1>8. 0 \in PenValues
  BY PenTypes DEF PenValues
<1>9. PICK c : c = count
  OBVIOUS
<1>10. PICK w : w = px
  OBVIOUS
<1>11. c + 1 \in 0 .. 2 ^ CountBits
  <2>1. PICK t \in {2, 4, 8, 16} : t = 2 ^ CountBits
    BY <1>5, SmallPowers
  <2>2. c \in 0 .. t - 1
    BY <1>6, <1>9, <2>1
  <2>. QED
    BY <2>1, <2>2
<1>12. \/ /\ line_bits <= 0
          /\ EndLine /\ UNCHANGED <<br, line_bits, run>>
       \/ /\ line_bits > 0
          /\ Consume(header)
          /\ run' = [left |-> c + 1, px |-> 0]
          /\ pc' = "literals" /\ UNCHANGED line
       \/ /\ line_bits > 0
          /\ Consume(header)
          /\ EndLine /\ UNCHANGED run
       \/ /\ line_bits > 0 /\ PenLeft
          /\ Consume(header + This.bpp)
          /\ run' = [left |-> c + 1, px |-> w]
          /\ pc' = "copies" /\ UNCHANGED line
  BY <1>9, <1>10 DEF PacketStep
<1>13. run' \in Packets
  <2>1. c + 1 \in 0 .. 2 ^ CountBits /\ w \in PenValues /\ 0 \in PenValues
    BY <1>7, <1>8, <1>10, <1>11
  <2>. QED
    BY <1>4, <1>12, <2>1 DEF Packets
<1>14. /\ br' \in Nat /\ line_bits' \in Int /\ line_bits' >= -1 - CountBits
       /\ br' + line_bits' = br + line_bits
  BY <1>3, <1>5, <1>12 DEF Consume, PenLeft
<1>15. (pc' \in DrawPlaces /\ line' = line) \/ (pc' = "line" /\ line' = line + 1)
  BY <1>12 DEF EndLine, DrawPlaces
<1>. QED
  BY <1>1, <1>2, <1>4, <1>5, <1>13, <1>14, <1>15, PixelKeeps

LEMMA RunKeeps ==
  ASSUME BlitInv, RunStep
  PROVE  BlitInv'
<1>1. pc \in {"literals", "copies"} /\ UNCHANGED <<math, video, busy, scbs, scb, sprites, pen, dp, line>>
  BY DEF RunStep
<1>2. pc \in DrawPlaces
  BY <1>1 DEF DrawPlaces
<1>3. BlitData /\ BlitCounts /\ This.bpp \in 1 .. 4
  BY <1>2, PixelPlace
<1>4. ram \in Memories /\ run \in Packets /\ run.left \in 0 .. 2 ^ CountBits /\ run.px \in PenValues
  BY <1>3 DEF BlitData, Packets
<1>5. CountBits \in 1 .. 4 /\ col \in Nat /\ br \in Nat /\ line_bits \in Int /\ line_bits >= -1 - CountBits
  BY <1>3, ScreenTypes DEF BlitCounts
<1>6. \/ pc' = "packet" /\ UNCHANGED <<ram, col, br, line_bits, run>>
      \/ /\ run.left > 0
         /\ run' = [run EXCEPT !.left = @ - 1]
         /\ \/ Draw(run.px) /\ UNCHANGED <<br, line_bits>>
            \/ line_bits >= This.bpp /\ Draw(Fetch) /\ Consume(This.bpp)
         /\ pc' = pc
  BY DEF RunStep
<1>7. run' \in Packets
  <2>1. CASE run.left > 0 /\ run' = [run EXCEPT !.left = @ - 1]
    <3>1. PICK t \in {2, 4, 8, 16} : t = 2 ^ CountBits
      BY <1>5, SmallPowers
    <3>2. run.left - 1 \in 0 .. 2 ^ CountBits
      BY <1>4, <2>1, <3>1
    <3>. QED
      BY <1>4, <2>1, <3>2 DEF Packets
  <2>. QED
    BY <1>4, <1>6, <2>1
<1>8. ram' \in Memories /\ col' \in Nat
  BY <1>2, <1>4, <1>5, <1>6, FetchType, DrawKeeps
<1>9. /\ br' \in Nat /\ line_bits' \in Int /\ line_bits' >= -1 - CountBits
      /\ br' + line_bits' = br + line_bits
  BY <1>3, <1>5, <1>6 DEF Consume
<1>10. pc' \in DrawPlaces
  BY <1>2, <1>6 DEF DrawPlaces
<1>. QED
  BY <1>1, <1>2, <1>7, <1>8, <1>9, <1>10, PixelKeeps

\* Every step of the blitter.
LEMMA BlitKeeps == BlitInv /\ Blit => BlitInv'
BY SpriteKeeps, LineKeeps, LiteralKeeps, PacketKeeps, RunKeeps DEF Blit

\* A step that takes a pen, and where the line then is.
Fetched ==
  \/ pc \in {"literal", "literals"} /\ br' # br
  \/ pc = "packet" /\ pc' = "copies"

OfTheLine == line_bits' >= 0 /\ (br' + line_bits') % (Bits * RamSize) = Bits * dp

LEMMA PensOfLine ==
  ASSUME BlitInv, Blit, Fetched
  PROVE  OfTheLine
<1>1. pc \in DrawPlaces
  BY DEF Fetched, DrawPlaces
<1>2. OnPixels /\ BlitCounts /\ This.bpp \in 1 .. 4
  BY <1>1, PixelPlace
<1>3. CountBits \in 1 .. 4 /\ br \in Nat /\ line_bits \in Int /\ line_bits >= -1 - CountBits
  BY <1>2, ScreenTypes DEF BlitCounts
<1>4. CASE pc = "literal"
  <2>1. LiteralStep
    BY <1>4 DEF Blit, SpriteStep, LineStep, PacketStep, RunStep
  <2>2. line_bits >= This.bpp /\ Consume(This.bpp)
    BY <1>4, <2>1 DEF LiteralStep, Fetched
  <2>3. line_bits' >= 0 /\ br' + line_bits' = br + line_bits
    BY <1>2, <1>3, <2>2 DEF Consume
  <2>. QED
    BY <1>2, <2>3 DEF OfTheLine, OnPixels, InStep
<1>5. CASE pc = "literals"
  <2>1. RunStep
    BY <1>5 DEF Blit, SpriteStep, LineStep, PacketStep, LiteralStep
  <2>2. line_bits >= This.bpp /\ Consume(This.bpp)
    BY <1>5, <2>1 DEF RunStep, Fetched
  <2>3. line_bits' >= 0 /\ br' + line_bits' = br + line_bits
    BY <1>2, <1>3, <2>2 DEF Consume
  <2>. QED
    BY <1>2, <2>3 DEF OfTheLine, OnPixels, InStep
<1>6. CASE pc = "packet" /\ pc' = "copies"
  <2>1. PacketStep
    BY <1>6 DEF Blit, SpriteStep, LineStep, RunStep, LiteralStep
  <2>2. PenLeft /\ Consume(1 + CountBits + This.bpp)
    BY <1>6, <2>1 DEF PacketStep, EndLine
  <2>3. line_bits' >= 0 /\ br' + line_bits' = br + line_bits
    BY <1>2, <1>3, <2>2 DEF Consume, PenLeft
  <2>. QED
    BY <1>2, <2>3 DEF OfTheLine, OnPixels, InStep
<1>. QED
  BY <1>4, <1>5, <1>6 DEF Fetched

-----------------------------------------------------------------------------
\* Two pixels at one address are the two halves of its byte.
LEMMA PixelsApart ==
  ASSUME NEW base \in Nat, NEW x \in 0 .. Width - 1, NEW y \in 0 .. Height - 1,
         NEW x2 \in 0 .. Width - 1, NEW y2 \in 0 .. Height - 1,
         PixelAt(base, x, y) = PixelAt(base, x2, y2)
  PROVE  y = y2 /\ x \div 2 = x2 \div 2
<1>1. PICK r \in Nat \ {0} : r = RamSize
  BY ScreenTypes
<1>2. PICK w : w = Pitch
  OBVIOUS
<1>3. w \in Nat
  <2>1. Width \in Nat /\ Width % 2 = 0
    BY ScreenTypes
  <2>2. Width \div 2 \in Nat
    BY <2>1
  <2>. QED
    BY <1>2, <2>2 DEF Pitch
<1>4. PICK c \in 0 .. w - 1 : c = x \div 2
  BY <1>2, PixelAddress
<1>5. PICK c2 \in 0 .. w - 1 : c2 = x2 \div 2
  BY <1>2, PixelAddress
<1>6. w # 0 /\ y \in Int /\ y2 \in Int
  BY <1>3, <1>4
<1>7. PICK u \in 0 .. r - 1 : u = y * w + c
  BY <1>1, <1>2, <1>4, PixelAddress
<1>8. PICK u2 \in 0 .. r - 1 : u2 = y2 * w + c2
  BY <1>1, <1>2, <1>5, PixelAddress
<1>9. (base + u) % r = (base + u2) % r
  <2>1. base + u = base + y * Pitch + x \div 2
    BY <1>2, <1>3, <1>4, <1>6, <1>7
  <2>2. base + u2 = base + y2 * Pitch + x2 \div 2
    BY <1>2, <1>3, <1>5, <1>6, <1>8
  <2>. QED
    BY <1>1, <2>1, <2>2 DEF PixelAt
<1>10. PICK t \in Nat : t = base + u
  OBVIOUS
<1>11. PICK t2 \in Nat : t2 = base + u2
  OBVIOUS
<1>12. PICK q \in Nat : q = t \div r
  BY Division
<1>13. PICK q2 \in Nat : q2 = t2 \div r
  BY Division
<1>14. PICK e \in 0 .. r - 1 : e = t % r
  BY Division
<1>15. e = t2 % r
  BY <1>9, <1>10, <1>11, <1>14
<1>16. t = q * r + e
  BY <1>12, <1>14, Division
<1>17. t2 = q2 * r + e
  BY <1>13, <1>15, Division
<1>18. 0 * r + u = (q - q2) * r + u2
  <2>1. (q - q2) * r = q * r - q2 * r /\ 0 * r = 0
    OBVIOUS
  <2>2. q * r \in Int /\ q2 * r \in Int
    OBVIOUS
  <2>. QED
    BY <2>1, <2>2, <1>10, <1>11, <1>16, <1>17
<1>19. u = u2
  BY <1>18, Quotient
<1>20. y * w + c = y2 * w + c2
  BY <1>7, <1>8, <1>19
<1>21. w \in Nat \ {0}
  BY <1>3, <1>6
<1>22. y = y2 /\ c = c2
  BY <1>4, <1>5, <1>6, <1>20, <1>21, Quotient
<1>. QED
  BY <1>4, <1>5, <1>22

\* What a byte that is drawn into shows.
Half(a, x, n) ==
  [ram EXCEPT ![a] = IF x % 2 = 1 THEN HighNibble(ram[a]) * Pens + n ELSE n * Pens + LowNibble(ram[a])]

Shows(mem, base, x, y, n) ==
  /\ lynx_video_render(mem, base) = [lynx_video_render(ram, base) EXCEPT ![<<x, y>>] = n]
  /\ \A b \in 0 .. RamSize - 1 : mem[b] # ram[b] => b = PixelAt(base, x, y)

LEMMA PixelShows ==
  ASSUME ram \in Memories, NEW base \in Nat, NEW x \in 0 .. Width - 1, NEW y \in 0 .. Height - 1,
         NEW n \in PenValues, NEW mem, mem = Half(PixelAt(base, x, y), x, n)
  PROVE  Shows(mem, base, x, y, n)
<1>0. PICK a : a = PixelAt(base, x, y)
  OBVIOUS
<1>. DEFINE byte == IF x % 2 = 1 THEN HighNibble(ram[a]) * Pens + n ELSE n * Pens + LowNibble(ram[a])
            half(b, i) == IF i % 2 = 1 THEN LowNibble(b) ELSE HighNibble(b)
            place(p) == PixelAt(base, p[1], p[2])
<1>1. a \in Addresses
  BY <1>0, PixelAddress
<1>2. ram[a] \in Cells
  BY <1>1 DEF Memories
<1>3. HighNibble(ram[a]) \in PenValues /\ LowNibble(ram[a]) \in PenValues
  BY <1>2, Nibbles
<1>4. half(byte, x) = n
  BY <1>3, Joined
<1>5. \A i \in Int : i % 2 # x % 2 => half(byte, i) = half(ram[a], i)
  <2>1. x % 2 \in {0, 1}
    BY ScreenTypes
  <2>2. ASSUME NEW i \in Int, i % 2 # x % 2 PROVE half(byte, i) = half(ram[a], i)
    <3>1. i % 2 \in {0, 1}
      OBVIOUS
    <3>2. CASE x % 2 = 1
      <4>1. i % 2 = 0
        BY <2>2, <3>1, <3>2
      <4>2. HighNibble(byte) = HighNibble(ram[a])
        BY <1>3, <3>2, Joined
      <4>. QED
        BY <4>1, <4>2
    <3>3. CASE x % 2 # 1
      <4>1. i % 2 = 1
        BY <2>1, <2>2, <3>1, <3>3
      <4>2. LowNibble(byte) = LowNibble(ram[a])
        BY <1>3, <3>3, Joined
      <4>. QED
        BY <4>1, <4>2
    <3>. QED
      BY <3>2, <3>3
  <2>. QED
    BY <2>2
<1>6. mem = [ram EXCEPT ![a] = byte]
  BY <1>0 DEF Half
<1>. HIDE DEF byte
<1>7. \A b \in Addresses : mem[b] = IF b = a THEN byte ELSE ram[b]
  BY <1>6 DEF Memories
<1>8. \A p \in OnScreen : p = <<p[1], p[2]>> /\ p[1] \in 0 .. Width - 1 /\ p[2] \in 0 .. Height - 1
  BY DEF OnScreen
<1>9. lynx_video_render(mem, base) = [p \in OnScreen |-> half(mem[place(p)], p[1])]
  BY DEF lynx_video_render
<1>10. lynx_video_render(ram, base) = [p \in OnScreen |-> half(ram[place(p)], p[1])]
  BY DEF lynx_video_render
<1>. HIDE DEF half, place
<1>11. ASSUME NEW p \in OnScreen
       PROVE  half(mem[place(p)], p[1]) = IF p = <<x, y>> THEN n ELSE half(ram[place(p)], p[1])
  <2>1. place(p) \in Addresses
    BY <1>8, PixelAddress DEF place
  <2>2. CASE place(p) # a
    <3>1. p # <<x, y>>
      BY <1>0, <2>2 DEF place
    <3>. QED
      BY <1>7, <2>1, <2>2, <3>1
  <2>3. CASE place(p) = a
    <3>1. mem[place(p)] = byte
      BY <1>7, <2>1, <2>3
    <3>2. PICK i \in 0 .. Width - 1 : i = p[1]
      BY <1>8
    <3>3. PICK j \in 0 .. Height - 1 : j = p[2]
      BY <1>8
    <3>4. PixelAt(base, i, j) = PixelAt(base, x, y)
      BY <1>0, <2>3, <3>2, <3>3 DEF place
    <3>5. j = y /\ i \div 2 = x \div 2
      BY <3>4, PixelsApart
    <3>6. i \in Int /\ x \in Int
      BY ScreenTypes
    <3>7. CASE p = <<x, y>>
      <4>1. p[1] = x
        BY <3>7
      <4>. QED
        BY <1>4, <3>1, <3>7, <4>1
    <3>8. CASE p # <<x, y>>
      <4>1. i # x
        BY <1>8, <3>2, <3>3, <3>5, <3>8
      <4>2. i % 2 # x % 2
        BY <3>5, <3>6, <4>1
      <4>3. half(byte, i) = half(ram[a], i)
        BY <1>5, <3>6, <4>2
      <4>. QED
        BY <2>3, <3>1, <3>2, <3>8, <4>3
    <3>. QED
      BY <3>7, <3>8
  <2>. QED
    BY <2>2, <2>3
<1>12. lynx_video_render(mem, base) = [lynx_video_render(ram, base) EXCEPT ![<<x, y>>] = n]
  BY <1>9, <1>10, <1>11
<1>13. \A b \in 0 .. RamSize - 1 : mem[b] # ram[b] => b = a
  BY <1>7 DEF Addresses
<1>. QED
  BY <1>0, <1>12, <1>13 DEF Shows

\* One pixel changes, and one byte.
OnePixel ==
  \E p \in OnScreen, v \in 0 .. Pens - 1 :
    /\ p[1] \in {This.hpos - video.HOFF - col, This.hpos - video.HOFF + col}
    /\ p[2] \in {This.vpos - video.VOFF - line, This.vpos - video.VOFF + line}
    /\ lynx_video_render(ram', video.VIDBAS) = [lynx_video_render(ram, video.VIDBAS) EXCEPT ![p] = v]
    /\ \A a \in 0 .. RamSize - 1 :
         ram'[a] # ram[a] => a = PixelAt(video.VIDBAS, p[1], p[2])

LEMMA DrawShows ==
  ASSUME BlitInv, pc \in DrawPlaces, NEW p \in PenValues, Draw(p), ram' # ram
  PROVE  OnePixel
<1>1. BlitData /\ This.hpos \in Int /\ This.vpos \in Int
  BY PixelPlace
<1>2. video \in Registers /\ ram \in Memories
  BY <1>1 DEF BlitData
<1>3. PICK base \in Nat : base = video.VIDBAS
  BY <1>2 DEF Registers
<1>4. PICK x : x = IF This.hflip THEN This.hpos - video.HOFF - col ELSE This.hpos - video.HOFF + col
  OBVIOUS
<1>5. PICK y : y = IF This.vflip THEN This.vpos - video.VOFF - line ELSE This.vpos - video.VOFF + line
  OBVIOUS
<1>6. ram' = blit_pixel(x, y, p, This.type)
  BY <1>4, <1>5 DEF Draw
<1>7. PICK a : a = PixelAt(base, x, y)
  OBVIOUS
<1>8. PICK n : n = IF This.type = 7 THEN Xor(IF x % 2 = 1 THEN LowNibble(ram[a]) ELSE HighNibble(ram[a]), p) ELSE p
  OBVIOUS
<1>9. ~Clipped(x, y) /\ ram' = Half(a, x, n)
  BY <1>3, <1>6, <1>7, <1>8 DEF blit_pixel, Half
<1>10. x \in 0 .. Width - 1 /\ y \in 0 .. Height - 1 /\ <<x, y>> \in OnScreen
  BY <1>9 DEF Clipped, OnScreen
<1>11. ram[a] \in Cells
  BY <1>2, <1>7, <1>10, PixelAddress DEF Memories
<1>12. n \in PenValues
  <2>1. HighNibble(ram[a]) \in PenValues /\ LowNibble(ram[a]) \in PenValues
    BY <1>11, Nibbles
  <2>2. (IF x % 2 = 1 THEN LowNibble(ram[a]) ELSE HighNibble(ram[a])) \in PenValues
    BY <2>1
  <2>. QED
    BY <1>8, <2>2, XorPens
<1>13. Shows(ram', base, x, y, n)
  BY <1>2, <1>7, <1>9, <1>10, <1>12, PixelShows
<1>14. /\ x \in {This.hpos - video.HOFF - col, This.hpos - video.HOFF + col}
       /\ y \in {This.vpos - video.VOFF - line, This.vpos - video.VOFF + line}
  BY <1>4, <1>5
<1>15. PICK q : q = <<x, y>>
  OBVIOUS
<1>16. q[1] = x /\ q[2] = y /\ q \in OnScreen /\ n \in 0 .. Pens - 1
  BY <1>10, <1>12, <1>15 DEF PenValues
<1>. QED
  BY <1>3, <1>13, <1>14, <1>15, <1>16 DEF OnePixel, Shows

LEMMA OnlyPixels ==
  ASSUME BlitInv, Blit, ram' # ram
  PROVE  OnePixel
<1>1. CASE LiteralStep
  <2>1. pc \in DrawPlaces /\ Draw(Fetch)
    BY <1>1 DEF LiteralStep, DrawPlaces
  <2>. QED
    BY <2>1, FetchType, DrawShows
<1>2. CASE RunStep
  <2>1. pc \in DrawPlaces
    BY <1>2 DEF RunStep, DrawPlaces
  <2>2. Draw(run.px) \/ Draw(Fetch)
    BY <1>2 DEF RunStep
  <2>3. run.px \in PenValues
    BY DEF BlitInv, BlitData, Packets
  <2>. QED
    BY <2>1, <2>2, <2>3, FetchType, DrawShows
<1>. QED
  BY <1>1, <1>2 DEF Blit, SpriteStep, LineStep, PacketStep

-----------------------------------------------------------------------------
\* The math unit.

Numbers == [MathReg -> Digit]

LEMMA ConcatSet ==
  ASSUME NEW S, NEW s \in Seq(S), NEW t \in Seq(S)
  PROVE  s \o t \in Seq(S) /\ ToSet(s \o t) = ToSet(s) \cup ToSet(t)
<1>1. /\ s \o t \in Seq(S) /\ Len(s \o t) = Len(s) + Len(t)
      /\ \A i \in 1 .. Len(s) : (s \o t)[i] = s[i]
      /\ \A i \in 1 .. Len(t) : (s \o t)[Len(s) + i] = t[i]
  OBVIOUS
<1>2. DOMAIN s = 1 .. Len(s) /\ DOMAIN t = 1 .. Len(t) /\ DOMAIN (s \o t) = 1 .. Len(s) + Len(t)
  BY <1>1
<1>3. ASSUME NEW x \in ToSet(s) \cup ToSet(t) PROVE x \in ToSet(s \o t)
  <2>1. CASE x \in ToSet(s)
    <3>1. PICK i \in 1 .. Len(s) : x = s[i]
      BY <1>2, <2>1 DEF ToSet
    <3>. QED
      BY <1>1, <1>2, <3>1 DEF ToSet
  <2>2. CASE x \in ToSet(t)
    <3>1. PICK i \in 1 .. Len(t) : x = t[i]
      BY <1>2, <2>2 DEF ToSet
    <3>2. Len(s) + i \in 1 .. Len(s) + Len(t)
      OBVIOUS
    <3>. QED
      BY <1>1, <1>2, <3>1, <3>2 DEF ToSet
  <2>. QED
    BY <2>1, <2>2
<1>4. ASSUME NEW x \in ToSet(s \o t) PROVE x \in ToSet(s) \cup ToSet(t)
  <2>1. PICK i \in 1 .. Len(s) + Len(t) : x = (s \o t)[i]
    BY <1>2 DEF ToSet
  <2>2. CASE i <= Len(s)
    BY <1>1, <1>2, <2>1, <2>2 DEF ToSet
  <2>3. CASE i > Len(s)
    <3>1. PICK j \in 1 .. Len(t) : i = Len(s) + j
      <4>1. i - Len(s) \in 1 .. Len(t) /\ i = Len(s) + (i - Len(s))
        BY <2>3
      <4>. QED
        BY <4>1
    <3>. QED
      BY <1>1, <1>2, <2>1, <3>1 DEF ToSet
  <2>. QED
    BY <2>2, <2>3
<1>. QED
  BY <1>1, <1>3, <1>4

LEMMA Names ==
  /\ MathReg = {"A", "B", "C", "D", "E", "F", "G", "H", "J", "K", "L", "M", "N", "P"}
  /\ ABCD = <<"D", "C", "B", "A">> /\ EFGH = <<"H", "G", "F", "E">>
  /\ JKLM = <<"M", "L", "K", "J">> /\ NP = <<"P", "N">>
<1>1. ABCD = <<"D", "C", "B", "A">> /\ EFGH = <<"H", "G", "F", "E">>
      /\ JKLM = <<"M", "L", "K", "J">> /\ NP = <<"P", "N">>
  BY DEF ABCD, EFGH, JKLM, NP
<1>2. ToSet(ABCD) = {"D", "C", "B", "A"} /\ ToSet(EFGH) = {"H", "G", "F", "E"}
      /\ ToSet(JKLM) = {"M", "L", "K", "J"} /\ ToSet(NP) = {"P", "N"}
  BY <1>1 DEF ToSet
<1>4. PICK S : /\ "A" \in S /\ "B" \in S /\ "C" \in S /\ "D" \in S /\ "E" \in S /\ "F" \in S /\ "G" \in S
               /\ "H" \in S /\ "J" \in S /\ "K" \in S /\ "L" \in S /\ "M" \in S /\ "N" \in S /\ "P" \in S
  <2>. WITNESS {"A", "B", "C", "D", "E", "F", "G", "H", "J", "K", "L", "M", "N", "P"}
  <2>. QED
    OBVIOUS
<1>5. \A x, y, z, w \in S : <<x, y, z, w>> \in Seq(S) /\ <<x, y>> \in Seq(S)
  OBVIOUS
<1>6. ABCD \in Seq(S) /\ EFGH \in Seq(S) /\ JKLM \in Seq(S) /\ NP \in Seq(S)
  BY <1>1, <1>4, <1>5
<1>7. PICK s : s = ABCD \o EFGH
  OBVIOUS
<1>8. s \in Seq(S) /\ ToSet(s) = ToSet(ABCD) \cup ToSet(EFGH)
  BY <1>6, <1>7, ConcatSet
<1>9. PICK t : t = s \o JKLM
  OBVIOUS
<1>10. t \in Seq(S) /\ ToSet(t) = ToSet(s) \cup ToSet(JKLM)
  BY <1>6, <1>8, <1>9, ConcatSet
<1>11. ToSet(t \o NP) = ToSet(t) \cup ToSet(NP)
  BY <1>6, <1>10, ConcatSet
<1>12. MathReg = ToSet(t \o NP)
  BY <1>7, <1>9 DEF MathReg
<1>3. MathReg = {"A", "B", "C", "D", "E", "F", "G", "H", "J", "K", "L", "M", "N", "P"}
  BY <1>2, <1>8, <1>10, <1>11, <1>12
<1>. QED
  BY <1>1, <1>3

LEMMA Weights ==
  /\ Weight[1] = 1 /\ Weight[2] = Radix /\ Weight[3] = Radix * Radix /\ Weight[4] = Radix * Radix * Radix
  /\ Radix \in Nat \ {0}
  /\ \A k \in 1 .. 4 : Weight[k] \in Nat \ {0}
<1>1. Radix \in Nat \ {0}
  BY ScreenTypes
<1>2. Weight[1] = 1 /\ Weight[2] = Radix /\ Weight[3] = Radix * Radix /\ Weight[4] = Radix * Radix * Radix
  BY DEF Weight
<1>3. \A x, y \in Nat \ {0} : x * y \in Nat \ {0}
  OBVIOUS
<1>4. Radix * Radix \in Nat \ {0} /\ Radix * Radix * Radix \in Nat \ {0}
  BY <1>1, <1>3
<1>5. \A k \in 1 .. 4 : k = 1 \/ k = 2 \/ k = 3 \/ k = 4
  OBVIOUS
<1>6. 1 \in Nat \ {0}
  OBVIOUS
<1>. QED
  BY <1>1, <1>2, <1>4, <1>5, <1>6

\* A number is the sum of its bytes.
Part(m, names, k) == m[names[k]] * Weight[k]

LEMMA Added ==
  ASSUME NEW m \in Numbers, NEW names, NEW n \in {2, 4}, Len(names) = n, \A k \in 1 .. n : names[k] \in MathReg
  PROVE  \E f : /\ get32(m, names) = f[n] /\ f[0] = 0
                /\ \A k \in 1 .. n : f[k] = f[k - 1] + Part(m, names, k)
<1>. DEFINE IsUpTo(f) == f = [k \in 0 .. n |-> IF k = 0 THEN 0 ELSE f[k - 1] + m[names[k]] * Weight[k]]
            upTo == CHOOSE f : IsUpTo(f)
            G == [q \in (1 .. n) \X Nat |-> q[2] + m[names[q[1]]] * Weight[q[1]]]
<1>1. get32(m, names) = upTo[n]
  BY DEF get32
<1>2. ASSUME NEW k \in 1 .. n PROVE m[names[k]] * Weight[k] \in Nat
  <2>1. k \in 1 .. 4
    OBVIOUS
  <2>2. m[names[k]] \in Nat /\ Weight[k] \in Nat
    <3>1. m[names[k]] \in Digit
      BY DEF Numbers
    <3>2. Digit \subseteq Nat
      BY Weights DEF Digit
    <3>. QED
      BY <2>1, <3>1, <3>2, Weights
  <2>. QED
    BY <2>2
<1>3. \A k \in 1 .. n, y \in Nat : G[<<k, y>>] = y + m[names[k]] * Weight[k]
  OBVIOUS
<1>4. ASSUME NEW k \in 1 .. n, NEW y \in Nat PROVE G[<<k, y>>] \in Nat
  <2>1. PICK t \in Nat : t = m[names[k]] * Weight[k]
    BY <1>2
  <2>. QED
    BY <1>3, <2>1
<1>. HIDE DEF G
<1>5. PICK gr : Over(gr, G, 0, n) /\ \A k \in 0 .. n : gr[k] \in Nat
  <2>1. PICK S : S = Nat
    OBVIOUS
  <2>2. 0 \in S /\ n \in Nat /\ \A k \in 1 .. n, y \in S : G[<<k, y>>] \in S
    BY <1>4, <2>1
  <2>3. \E gr : Over(gr, G, 0, n) /\ \A k \in 0 .. n : gr[k] \in S
    BY <2>2, OverExists
  <2>. QED
    BY <2>1, <2>3
<1>6. gr = [k \in 0 .. n |-> IF k = 0 THEN 0 ELSE G[<<k, gr[k - 1]>>]]
  BY <1>5 DEF Over
<1>7. \A k \in 0 .. n : k # 0 => G[<<k, gr[k - 1]>>] = gr[k - 1] + m[names[k]] * Weight[k]
  BY <1>3, <1>5
<1>8. IsUpTo(gr)
  BY <1>6, <1>7
<1>9. IsUpTo(upTo)
  BY <1>8
<1>. HIDE DEF upTo
<1>10. \A k \in 0 .. n : upTo[k] = IF k = 0 THEN 0 ELSE upTo[k - 1] + m[names[k]] * Weight[k]
  BY <1>9
<1>. HIDE DEF IsUpTo
<1>11. upTo[0] = 0 /\ \A k \in 1 .. n : upTo[k] = upTo[k - 1] + m[names[k]] * Weight[k]
  BY <1>10
<1>. QED
  BY <1>1, <1>11 DEF Part

Sum2(m, a, b) == m[a] + m[b] * Radix
Sum4(m, a, b, c, d) == m[a] + m[b] * Radix + m[c] * (Radix * Radix) + m[d] * (Radix * Radix * Radix)

LEMMA GetTwo ==
  ASSUME NEW m \in Numbers, NEW a \in MathReg, NEW b \in MathReg
  PROVE  get32(m, <<a, b>>) = Sum2(m, a, b)
<1>. PICK names : names = <<a, b>>
  OBVIOUS
<1>1. Len(names) = 2 /\ names[1] = a /\ names[2] = b
  OBVIOUS
<1>2. \A k \in 1 .. 2 : names[k] \in MathReg
  BY <1>1
<1>3. PICK f : /\ get32(m, names) = f[2] /\ f[0] = 0
               /\ \A k \in 1 .. 2 : f[k] = f[k - 1] + Part(m, names, k)
  BY <1>1, <1>2, Added
<1>4. f[1] = f[1 - 1] + Part(m, names, 1) /\ f[2] = f[2 - 1] + Part(m, names, 2)
  BY <1>3
<1>5. PICK x \in Nat : x = m[a]
  BY DEF Numbers, Digit
<1>6. PICK y \in Nat : y = m[b]
  BY DEF Numbers, Digit
<1>7. PICK r \in Nat : r = Radix
  BY Weights
<1>8. Part(m, names, 1) = x * 1 /\ Part(m, names, 2) = y * r
  BY <1>1, <1>5, <1>6, <1>7, Weights DEF Part
<1>9. f[1] = x
  BY <1>3, <1>4, <1>8
<1>10. f[2] = x + y * r
  BY <1>4, <1>8, <1>9
<1>. QED
  BY <1>3, <1>5, <1>6, <1>7, <1>10 DEF Sum2

LEMMA GetFour ==
  ASSUME NEW m \in Numbers, NEW a \in MathReg, NEW b \in MathReg, NEW c \in MathReg, NEW d \in MathReg
  PROVE  get32(m, <<a, b, c, d>>) = Sum4(m, a, b, c, d)
<1>. PICK names : names = <<a, b, c, d>>
  OBVIOUS
<1>1. Len(names) = 4 /\ names[1] = a /\ names[2] = b /\ names[3] = c /\ names[4] = d
  OBVIOUS
<1>2. \A k \in 1 .. 4 : names[k] \in MathReg
  BY <1>1
<1>3. PICK f : /\ get32(m, names) = f[4] /\ f[0] = 0
               /\ \A k \in 1 .. 4 : f[k] = f[k - 1] + Part(m, names, k)
  BY <1>1, <1>2, Added
<1>4. /\ f[1] = f[1 - 1] + Part(m, names, 1) /\ f[2] = f[2 - 1] + Part(m, names, 2)
      /\ f[3] = f[3 - 1] + Part(m, names, 3) /\ f[4] = f[4 - 1] + Part(m, names, 4)
  BY <1>3
<1>5. PICK x \in Nat : x = m[a]
  BY DEF Numbers, Digit
<1>6. PICK y \in Nat : y = m[b]
  BY DEF Numbers, Digit
<1>7. PICK z \in Nat : z = m[c]
  BY DEF Numbers, Digit
<1>8. PICK w \in Nat : w = m[d]
  BY DEF Numbers, Digit
<1>9. PICK r \in Nat : r = Radix
  BY Weights
<1>10. /\ Part(m, names, 1) = x * 1 /\ Part(m, names, 2) = y * r
       /\ Part(m, names, 3) = z * (r * r) /\ Part(m, names, 4) = w * (r * r * r)
  BY <1>1, <1>5, <1>6, <1>7, <1>8, <1>9, Weights DEF Part
<1>11. f[1] = x
  BY <1>3, <1>4, <1>10
<1>12. f[2] = x + y * r
  BY <1>4, <1>10, <1>11
<1>13. f[3] = x + y * r + z * (r * r)
  BY <1>4, <1>10, <1>12
<1>14. f[4] = x + y * r + z * (r * r) + w * (r * r * r)
  BY <1>4, <1>10, <1>13
<1>. QED
  BY <1>3, <1>5, <1>6, <1>7, <1>8, <1>9, <1>14 DEF Sum4

LEMMA DivTwice ==
  ASSUME NEW a \in Nat \ {0}, NEW b \in Nat \ {0}, NEW v \in Nat
  PROVE  v \div (a * b) = (v \div a) \div b
<1>1. PICK q \in Nat : q = v \div a
  BY Division
<1>2. PICK r \in 0 .. a - 1 : r = v % a
  BY Division
<1>3. v = q * a + r
  BY <1>1, <1>2, Division
<1>4. PICK s \in Nat : s = q \div b
  BY Division
<1>5. PICK t \in 0 .. b - 1 : t = q % b
  BY Division
<1>6. q = s * b + t
  BY <1>4, <1>5, Division
<1>7. PICK m \in Nat \ {0} : m = a * b
  <2>1. a * b \in Nat /\ a * b >= a
    OBVIOUS
  <2>. QED
    BY <2>1
<1>8. PICK e \in Nat : e = a * t + r
  OBVIOUS
<1>9. e \in 0 .. m - 1
  <2>1. a * t <= a * (b - 1) /\ a * (b - 1) = a * b - a
    OBVIOUS
  <2>2. a * t \in Int /\ a * b \in Int
    OBVIOUS
  <2>. QED
    BY <1>7, <1>8, <2>1, <2>2
<1>10. v = s * m + e
  <2>1. (s * b + t) * a + r = s * (a * b) + (a * t + r)
    OBVIOUS
  <2>. QED
    BY <1>3, <1>6, <1>7, <1>8, <2>1
<1>11. v \div m \in Nat /\ v % m \in 0 .. m - 1 /\ v = (v \div m) * m + (v % m)
  BY Division
<1>12. PICK j \in Nat : j = v \div m
  BY <1>11
<1>13. PICK f \in 0 .. m - 1 : f = v % m
  BY <1>11
<1>14. s * m + e = j * m + f
  BY <1>10, <1>11, <1>12, <1>13
<1>15. s \in Int /\ j \in Int
  OBVIOUS
<1>16. s = j
  BY <1>9, <1>14, <1>15, Quotient
<1>. QED
  BY <1>1, <1>4, <1>7, <1>12, <1>16

LEMMA QuotientBelow ==
  ASSUME NEW a \in Nat \ {0}, NEW b \in Nat \ {0}, NEW v \in Nat, v < a * b
  PROVE  v \div a < b
<1>1. PICK q \in Nat : q = v \div a
  BY Division
<1>2. PICK r \in 0 .. a - 1 : r = v % a
  BY Division
<1>3. v = q * a + r
  BY <1>1, <1>2, Division
<1>4. q >= b => q * a >= a * b
  OBVIOUS
<1>5. q * a \in Int /\ a * b \in Int
  OBVIOUS
<1>6. q < b
  BY <1>3, <1>4, <1>5
<1>. QED
  BY <1>1, <1>6

\* The four digits of a number below the fourth power.
LEMMA FourDigits ==
  ASSUME NEW r \in Nat \ {0}, NEW v \in Nat, v < r * (r * (r * r))
  PROVE  \E a, b, c, d : /\ a \in 0 .. r - 1 /\ b \in 0 .. r - 1 /\ c \in 0 .. r - 1 /\ d \in 0 .. r - 1
                         /\ a = v % r /\ b = (v \div r) % r
                         /\ c = (v \div (r * r)) % r /\ d = (v \div (r * r * r)) % r
                         /\ v = a + b * r + c * (r * r) + d * (r * r * r)
<1>1. \A x, y \in Nat \ {0} : x * y \in Nat \ {0}
  OBVIOUS
<1>2. PICK r2 \in Nat \ {0} : r2 = r * r
  BY <1>1
<1>3. PICK r3 \in Nat \ {0} : r3 = r * r2
  BY <1>1
<1>4. PICK v1 \in Nat : v1 = v \div r
  BY Division
<1>5. PICK v2 \in Nat : v2 = v1 \div r
  BY Division
<1>6. PICK v3 \in Nat : v3 = v2 \div r
  BY Division
<1>7. PICK a \in 0 .. r - 1 : a = v % r
  BY Division
<1>8. PICK b \in 0 .. r - 1 : b = v1 % r
  BY Division
<1>9. PICK c \in 0 .. r - 1 : c = v2 % r
  BY Division
<1>10. v = v1 * r + a
  BY <1>4, <1>7, Division
<1>11. v1 = v2 * r + b
  BY <1>5, <1>8, Division
<1>12. v2 = v3 * r + c
  BY <1>6, <1>9, Division
<1>13. v2 = v \div r2
  BY <1>2, <1>4, <1>5, DivTwice
<1>14. r3 = r2 * r
  BY <1>2, <1>3
<1>15. v3 = v \div r3
  <2>1. v \div (r2 * r) = (v \div r2) \div r
    BY DivTwice
  <2>. QED
    BY <1>6, <1>13, <1>14, <2>1
<1>16. v3 < r
  <2>1. v1 < r3
    BY <1>2, <1>3, <1>4, QuotientBelow
  <2>2. v2 < r2
    BY <1>3, <1>5, <2>1, QuotientBelow
  <2>. QED
    BY <1>2, <1>6, <2>2, QuotientBelow
<1>17. v3 \in 0 .. r - 1 /\ v3 % r = v3
  BY <1>16, Small
<1>18. v = a + b * r + c * r2 + v3 * r3
  <2>1. ((v3 * r + c) * r + b) * r + a = a + b * r + c * (r * r) + v3 * (r * (r * r))
    OBVIOUS
  <2>. QED
    BY <1>2, <1>3, <1>10, <1>11, <1>12, <2>1
<1>19. r3 = r * r * r
  BY <1>2, <1>14
<1>20. v2 = v \div (r * r) /\ v3 = v \div (r * r * r)
  BY ONLY <1>2, <1>13, <1>15, <1>19
<1>21. b = (v \div r) % r
  BY ONLY <1>4, <1>8
<1>22. c = (v \div (r * r)) % r
  BY ONLY <1>9, <1>20
<1>23. v3 = (v \div (r * r * r)) % r
  BY ONLY <1>17, <1>20
<1>24. v = a + b * r + c * (r * r) + v3 * (r * r * r)
  BY ONLY <1>2, <1>18, <1>19
<1>25. a \in 0 .. r - 1 /\ b \in 0 .. r - 1 /\ c \in 0 .. r - 1 /\ v3 \in 0 .. r - 1
  BY ONLY <1>7, <1>8, <1>9, <1>17
<1> WITNESS a, b, c, v3
<1>. QED
  BY ONLY <1>7, <1>21, <1>22, <1>23, <1>24, <1>25

Limit == Radix * (Radix * (Radix * Radix))

\* A number put into four registers is read back from them, and the other
\* registers stay.
LEMMA PutFour ==
  ASSUME NEW m \in Numbers, NEW v \in Nat, v < Limit,
         NEW a \in MathReg, NEW b \in MathReg, NEW c \in MathReg, NEW d \in MathReg,
         a # b, a # c, a # d, b # c, b # d, c # d,
         NEW names, names = <<a, b, c, d>>, NEW w, w = put32(m, names, v)
  PROVE  /\ w \in Numbers
         /\ get32(w, names) = v
         /\ \A r \in MathReg : r \notin {a, b, c, d} => w[r] = m[r]
<1>. DEFINE place(r) == CHOOSE k \in DOMAIN names : names[k] = r
<1>1. /\ DOMAIN names = 1 .. 4
      /\ names[1] = a /\ names[2] = b /\ names[3] = c /\ names[4] = d
  OBVIOUS
<1>2. ToSet(names) = {a, b, c, d}
  BY <1>1 DEF ToSet
<1>3. w = [r \in MathReg |-> IF r \in {a, b, c, d} THEN (v \div Weight[place(r)]) % Radix ELSE m[r]]
  BY <1>2 DEF put32, Numbers
<1>4. place(a) = 1 /\ place(b) = 2 /\ place(c) = 3 /\ place(d) = 4
  <2>1. \A k \in 1 .. 4 : k = 1 \/ k = 2 \/ k = 3 \/ k = 4
    OBVIOUS
  <2>2. \A k \in DOMAIN names : names[k] = a <=> k = 1
    BY <1>1, <2>1
  <2>3. \A k \in DOMAIN names : names[k] = b <=> k = 2
    BY <1>1, <2>1
  <2>4. \A k \in DOMAIN names : names[k] = c <=> k = 3
    BY <1>1, <2>1
  <2>5. \A k \in DOMAIN names : names[k] = d <=> k = 4
    BY <1>1, <2>1
  <2>6. 1 \in DOMAIN names /\ 2 \in DOMAIN names /\ 3 \in DOMAIN names /\ 4 \in DOMAIN names
    BY <1>1
  <2>. QED
    BY <2>2, <2>3, <2>4, <2>5, <2>6
<1>. HIDE DEF place
<1>5. PICK r \in Nat \ {0} : r = Radix
  BY Weights
<1>6. PICK x, y, z, u : /\ x \in 0 .. r - 1 /\ y \in 0 .. r - 1 /\ z \in 0 .. r - 1 /\ u \in 0 .. r - 1
                        /\ x = v % r /\ y = (v \div r) % r
                        /\ z = (v \div (r * r)) % r /\ u = (v \div (r * r * r)) % r
                        /\ v = x + y * r + z * (r * r) + u * (r * r * r)
  BY <1>5, FourDigits DEF Limit
<1>7. w[a] = x /\ w[b] = y /\ w[c] = z /\ w[d] = u
  <2>1. w[a] = (v \div 1) % r /\ w[b] = (v \div r) % r /\ w[c] = (v \div (r * r)) % r /\ w[d] = (v \div (r * r * r)) % r
    BY <1>3, <1>4, <1>5, Weights
  <2>2. v \div 1 = v
    OBVIOUS
  <2>. QED
    BY <1>6, <2>1, <2>2
<1>8. \A s \in MathReg : s \notin {a, b, c, d} => w[s] = m[s]
  BY <1>3
<1>9. x \in Digit /\ y \in Digit /\ z \in Digit /\ u \in Digit
  BY <1>5, <1>6 DEF Digit
<1>10. w \in Numbers
  <2>1. \A s \in MathReg : w[s] \in Digit
    BY <1>7, <1>8, <1>9 DEF Numbers
  <2>2. w = [s \in MathReg |-> w[s]]
    BY <1>3
  <2>. QED
    BY <2>1, <2>2 DEF Numbers
<1>11. get32(w, <<a, b, c, d>>) = Sum4(w, a, b, c, d)
  BY <1>10, GetFour
<1>12. Sum4(w, a, b, c, d) = v
  BY <1>5, <1>6, <1>7 DEF Sum4
<1>. QED
  BY <1>8, <1>10, <1>11, <1>12

LEMMA TwoBelow ==
  ASSUME NEW m \in Numbers, NEW a \in MathReg, NEW b \in MathReg
  PROVE  get32(m, <<a, b>>) \in Nat /\ get32(m, <<a, b>>) < Radix * Radix
<1>1. PICK r \in Nat \ {0} : r = Radix
  BY Weights
<1>2. PICK x \in 0 .. r - 1 : x = m[a]
  BY <1>1 DEF Numbers, Digit
<1>3. PICK y \in 0 .. r - 1 : y = m[b]
  BY <1>1 DEF Numbers, Digit
<1>4. x + y * r \in Nat /\ x + y * r < r * r
  <2>1. y * r <= (r - 1) * r /\ (r - 1) * r = r * r - r /\ y * r >= 0
    OBVIOUS
  <2>2. y * r \in Int /\ r * r \in Int
    OBVIOUS
  <2>. QED
    BY <2>1, <2>2
<1>5. get32(m, <<a, b>>) = x + y * r
  BY <1>1, <1>2, <1>3, GetTwo DEF Sum2
<1>. QED
  BY <1>1, <1>4, <1>5

LEMMA FourBelow ==
  ASSUME NEW m \in Numbers, NEW a \in MathReg, NEW b \in MathReg, NEW c \in MathReg, NEW d \in MathReg
  PROVE  get32(m, <<a, b, c, d>>) \in Nat /\ get32(m, <<a, b, c, d>>) < Limit
<1>1. PICK r \in Nat \ {0} : r = Radix
  BY Weights
<1>2. PICK x \in 0 .. r - 1 : x = m[a]
  BY <1>1 DEF Numbers, Digit
<1>3. PICK y \in 0 .. r - 1 : y = m[b]
  BY <1>1 DEF Numbers, Digit
<1>4. PICK z \in 0 .. r - 1 : z = m[c]
  BY <1>1 DEF Numbers, Digit
<1>5. PICK u \in 0 .. r - 1 : u = m[d]
  BY <1>1 DEF Numbers, Digit
<1>6. PICK s \in Nat : s = r * r
  OBVIOUS
<1>7. PICK t \in Nat : t = r * s
  OBVIOUS
<1>8. /\ y * r >= 0 /\ y * r <= s - r /\ y * r \in Int
      /\ z * s >= 0 /\ z * s <= t - s /\ z * s \in Int
      /\ u * t >= 0 /\ u * t <= r * t - t /\ u * t \in Int
  <2>1. (r - 1) * r = r * r - r /\ (r - 1) * s = r * s - s /\ (r - 1) * t = r * t - t
    OBVIOUS
  <2>2. y * r <= (r - 1) * r /\ z * s <= (r - 1) * s /\ u * t <= (r - 1) * t
    OBVIOUS
  <2>3. y * r \in Nat /\ z * s \in Nat /\ u * t \in Nat
    OBVIOUS
  <2>. QED
    BY <1>6, <1>7, <2>1, <2>2, <2>3
<1>9. x + y * r + z * s + u * t \in Nat /\ x + y * r + z * s + u * t < r * t
  <2>1. r * t \in Int
    OBVIOUS
  <2>. QED
    BY <1>8, <2>1
<1>10. r * r * r = t /\ Limit = r * t
  <2>1. r * r * r = r * (r * r)
    OBVIOUS
  <2>. QED
    BY <1>1, <1>6, <1>7, <2>1 DEF Limit
<1>11. get32(m, <<a, b, c, d>>) = x + y * r + z * s + u * t
  <2>1. get32(m, <<a, b, c, d>>) = Sum4(m, a, b, c, d)
    BY GetFour
  <2>2. Sum4(m, a, b, c, d) = x + y * r + z * (r * r) + u * (r * r * r)
    BY <1>1, <1>2, <1>3, <1>4, <1>5 DEF Sum4
  <2>3. x + y * r + z * (r * r) + u * (r * r * r) = x + y * r + z * s + u * t
    BY <1>6, <1>10
  <2>. QED
    BY <2>1, <2>2, <2>3
<1>. QED
  BY <1>9, <1>10, <1>11

\* Reading depends on the registers that are read.
LEMMA SameTwo ==
  ASSUME NEW m \in Numbers, NEW w \in Numbers, NEW a \in MathReg, NEW b \in MathReg, w[a] = m[a], w[b] = m[b]
  PROVE  get32(w, <<a, b>>) = get32(m, <<a, b>>)
BY GetTwo DEF Sum2

LEMMA SameFour ==
  ASSUME NEW m \in Numbers, NEW w \in Numbers, NEW a \in MathReg, NEW b \in MathReg, NEW c \in MathReg, NEW d \in MathReg,
         w[a] = m[a], w[b] = m[b], w[c] = m[c], w[d] = m[d]
  PROVE  get32(w, <<a, b, c, d>>) = get32(m, <<a, b, c, d>>)
BY GetFour DEF Sum4

LEMMA MultiplyExact ==
  ASSUME NEW m \in Numbers, NEW w, w = multiply(m)
  PROVE  /\ w \in Numbers
         /\ get32(w, EFGH) = get32(w, <<"B", "A">>) * get32(w, <<"D", "C">>)
<1>1. /\ "A" \in MathReg /\ "B" \in MathReg /\ "C" \in MathReg /\ "D" \in MathReg
      /\ "E" \in MathReg /\ "F" \in MathReg /\ "G" \in MathReg /\ "H" \in MathReg
  BY Names
<1>2. PICK p : p = get32(m, <<"B", "A">>)
  OBVIOUS
<1>3. PICK q : q = get32(m, <<"D", "C">>)
  OBVIOUS
<1>4. p \in Nat /\ q \in Nat /\ p < Radix * Radix /\ q < Radix * Radix
  BY <1>1, <1>2, <1>3, TwoBelow
<1>5. PICK v : v = p * q
  OBVIOUS
<1>6. v \in Nat /\ v < Limit
  <2>1. PICK s \in Nat \ {0} : s = Radix * Radix
    BY <1>4, Weights
  <2>2. p * q <= (s - 1) * q /\ (s - 1) * q <= (s - 1) * s /\ (s - 1) * s = s * s - s
    <3>1. p <= s - 1 /\ q <= s /\ s - 1 \in Nat
      BY <1>4, <2>1
    <3>2. \A i, j, k \in Nat : i <= j => i * k <= j * k /\ k * i <= k * j
      OBVIOUS
    <3>. QED
      BY <1>4, <3>1, <3>2
  <2>3. p * q \in Nat /\ s * s \in Nat
    BY <1>4
  <2>4. Limit = s * s
    <3>1. \A r \in Nat : r * (r * (r * r)) = (r * r) * (r * r)
      OBVIOUS
    <3>. QED
      BY <2>1, <3>1, Weights DEF Limit
  <2>. QED
    BY <1>4, <1>5, <2>1, <2>2, <2>3, <2>4
<1>7. w = put32(m, <<"H", "G", "F", "E">>, v)
  BY <1>2, <1>3, <1>5, Names DEF multiply
<1>8. /\ w \in Numbers /\ get32(w, <<"H", "G", "F", "E">>) = v
      /\ \A r \in MathReg : r \notin {"H", "G", "F", "E"} => w[r] = m[r]
  <2>1. "E" \in MathReg /\ "F" \in MathReg /\ "G" \in MathReg /\ "H" \in MathReg
    BY <1>1
  <2>. QED
    BY ONLY <1>6, <1>7, <2>1, m \in Numbers, PutFour
<1>9. w["A"] = m["A"] /\ w["B"] = m["B"] /\ w["C"] = m["C"] /\ w["D"] = m["D"]
  BY <1>1, <1>8
<1>10. get32(w, <<"B", "A">>) = p /\ get32(w, <<"D", "C">>) = q
  BY <1>1, <1>2, <1>3, <1>8, <1>9, SameTwo
<1>. QED
  BY <1>5, <1>8, <1>10, Names


LEMMA DivideExact ==
  ASSUME NEW m \in Numbers, NEW w, w = divide(m)
  PROVE  /\ w \in Numbers
         /\ get32(w, NP) # 0 =>
              /\ get32(w, ABCD) * get32(w, NP) + get32(w, JKLM) = get32(w, EFGH)
              /\ get32(w, JKLM) < get32(w, NP)
<1>1. /\ "A" \in MathReg /\ "B" \in MathReg /\ "C" \in MathReg /\ "D" \in MathReg
      /\ "E" \in MathReg /\ "F" \in MathReg /\ "G" \in MathReg /\ "H" \in MathReg
      /\ "J" \in MathReg /\ "K" \in MathReg /\ "L" \in MathReg /\ "M" \in MathReg
      /\ "N" \in MathReg /\ "P" \in MathReg
  BY Names
<1>2. PICK n : n = get32(m, <<"P", "N">>)
  OBVIOUS
<1>3. PICK e : e = get32(m, <<"H", "G", "F", "E">>)
  OBVIOUS
<1>4. n \in Nat /\ n < Radix * Radix
  BY <1>1, <1>2, TwoBelow
<1>5. e \in Nat /\ e < Limit
  BY <1>1, <1>3, FourBelow
<1>6. PICK q, t : /\ q \in Nat /\ q < Limit /\ t \in Nat /\ t < Limit
                  /\ w = put32(put32(m, ABCD, q), JKLM, t)
                  /\ n # 0 => q * n + t = e /\ t < n
  <2>1. CASE n = 0
    <3>1. PICK r \in Nat \ {0} : r = Radix
      BY Weights
    <3>2. r * (r * r * r) \in Nat \ {0} /\ Radix * Weight[4] = r * (r * r * r) /\ Limit = r * (r * r * r)
      <4>1. \A x, y \in Nat \ {0} : x * y \in Nat \ {0}
        OBVIOUS
      <4>2. r * (r * r) = r * r * r
        OBVIOUS
      <4>. QED
        BY <3>1, <4>1, <4>2, Weights DEF Limit
    <3>3. PICK x \in Nat \ {0} : x = Limit /\ x = Radix * Weight[4]
      BY <3>2
    <3>4. PICK y \in Nat : y = x - 1
      OBVIOUS
    <3>5. y \in Nat /\ y < Limit /\ 0 \in Nat /\ 0 < Limit
      BY <3>3, <3>4
    <3>6. w = put32(put32(m, ABCD, y), JKLM, 0)
      BY <1>2, <2>1, <3>3, <3>4, Names DEF divide
    <3>. QED
      BY <2>1, <3>5, <3>6
  <2>2. CASE n # 0
    <3>1. PICK k \in Nat \ {0} : k = n
      BY <1>4, <2>2
    <3>2. PICK f \in Nat : f = e
      BY <1>5
    <3>3. PICK y \in Nat : y = f \div k
      BY Division
    <3>4. PICK z \in 0 .. k - 1 : z = f % k
      BY Division
    <3>5. f = y * k + z
      BY <3>3, <3>4, Division
    <3>6. y * k >= y /\ z < k /\ z \in Nat /\ y * k \in Nat
      OBVIOUS
    <3>7. y <= f
      BY <3>5, <3>6
    <3>8. z < Limit
      <4>1. PICK r \in Nat \ {0} : r = Radix
        BY Weights
      <4>2. PICK s \in Nat \ {0} : s = r * r
        <5>1. r * r \in Nat \ {0}
          OBVIOUS
        <5>. QED
          BY <5>1
      <4>3. s <= s * s /\ s * s \in Nat /\ r * (r * (r * r)) = (r * r) * (r * r)
        OBVIOUS
      <4>4. Limit = s * s
        BY <4>1, <4>2, <4>3 DEF Limit
      <4>5. k < s
        BY <1>4, <3>1, <4>1, <4>2
      <4>. QED
        BY <3>6, <4>3, <4>4, <4>5
    <3>9. y < Limit
      <4>1. PICK x \in Int : x = Limit
        BY Weights DEF Limit
      <4>. QED
        BY <1>5, <3>2, <3>7, <4>1
    <3>10. w = put32(put32(m, ABCD, y), JKLM, z)
      BY <1>2, <1>3, <2>2, <3>1, <3>2, <3>3, <3>4, Names DEF divide
    <3>11. y * n + z = e /\ z < n
      BY <3>1, <3>2, <3>5, <3>6
    <3>. QED
      BY <3>6, <3>8, <3>9, <3>10, <3>11
  <2>. QED
    BY <2>1, <2>2
<1>7. PICK u : u = put32(m, <<"D", "C", "B", "A">>, q)
  OBVIOUS
<1>8. /\ u \in Numbers /\ get32(u, <<"D", "C", "B", "A">>) = q
      /\ \A r \in MathReg : r \notin {"D", "C", "B", "A"} => u[r] = m[r]
  <2>1. PICK x \in Nat : x = q
    BY <1>6
  <2>2. x < Limit /\ u = put32(m, <<"D", "C", "B", "A">>, x)
    BY <1>6, <1>7, <2>1
  <2>3. /\ u \in Numbers /\ get32(u, <<"D", "C", "B", "A">>) = x
        /\ \A r \in MathReg : r \notin {"D", "C", "B", "A"} => u[r] = m[r]
    <3>1. "A" \in MathReg /\ "B" \in MathReg /\ "C" \in MathReg /\ "D" \in MathReg
      BY <1>1
    <3>. QED
      BY ONLY <2>2, <3>1, m \in Numbers, PutFour
  <2>. QED
    BY <2>1, <2>3
<1>9. w = put32(u, <<"M", "L", "K", "J">>, t)
  BY <1>6, <1>7, Names
<1>10. /\ w \in Numbers /\ get32(w, <<"M", "L", "K", "J">>) = t
       /\ \A r \in MathReg : r \notin {"M", "L", "K", "J"} => w[r] = u[r]
  <2>1. PICK x \in Nat : x = t
    BY <1>6
  <2>2. PICK y \in Numbers : y = u
    BY <1>8
  <2>3. x < Limit /\ w = put32(y, <<"M", "L", "K", "J">>, x)
    BY <1>6, <1>9, <2>1, <2>2
  <2>4. /\ w \in Numbers /\ get32(w, <<"M", "L", "K", "J">>) = x
        /\ \A r \in MathReg : r \notin {"M", "L", "K", "J"} => w[r] = y[r]
    <3>1. "J" \in MathReg /\ "K" \in MathReg /\ "L" \in MathReg /\ "M" \in MathReg
      BY <1>1
    <3>. QED
      BY ONLY <2>3, <3>1, PutFour
  <2>. QED
    BY <2>1, <2>2, <2>4
<1>11. get32(w, <<"D", "C", "B", "A">>) = q
  <2>1. w["A"] = u["A"] /\ w["B"] = u["B"] /\ w["C"] = u["C"] /\ w["D"] = u["D"]
    BY <1>1, <1>10
  <2>2. u \in Numbers /\ w \in Numbers
    BY <1>8, <1>10
  <2>3. get32(w, <<"D", "C", "B", "A">>) = get32(u, <<"D", "C", "B", "A">>)
    <3>1. "A" \in MathReg /\ "B" \in MathReg /\ "C" \in MathReg /\ "D" \in MathReg
      BY <1>1
    <3>. QED
      BY ONLY <3>1, <2>1, <2>2, SameFour
  <2>. QED
    BY <1>8, <2>3
<1>12. get32(w, <<"H", "G", "F", "E">>) = e
  <2>1. w["E"] = m["E"] /\ w["F"] = m["F"] /\ w["G"] = m["G"] /\ w["H"] = m["H"]
    BY <1>1, <1>8, <1>10
  <2>2. m \in Numbers /\ w \in Numbers
    BY <1>10
  <2>3. get32(w, <<"H", "G", "F", "E">>) = get32(m, <<"H", "G", "F", "E">>)
    <3>1. "E" \in MathReg /\ "F" \in MathReg /\ "G" \in MathReg /\ "H" \in MathReg
      BY <1>1
    <3>. QED
      BY ONLY <3>1, <2>1, <2>2, SameFour
  <2>. QED
    BY <1>3, <2>3
<1>13. get32(w, <<"P", "N">>) = n
  <2>1. w["P"] = m["P"] /\ w["N"] = m["N"]
    BY <1>1, <1>8, <1>10
  <2>. QED
    BY <1>1, <1>2, <1>10, <2>1, SameTwo
<1>. QED
  BY <1>6, <1>10, <1>11, <1>12, <1>13, Names

\* A write to a math register leaves numbers of as many digits in them.
LEMMA MathKeeps ==
  ASSUME math \in Numbers, NEW r \in MathReg, NEW v \in Digit, write_math(r, v)
  PROVE  math' \in Numbers
<1>. PICK m : m = [math EXCEPT ![r] = v]
  OBVIOUS
<1>1. m \in Numbers
  BY DEF Numbers
<1>2. math' = multiply(m) \/ math' = divide(m) \/ math' = m
  BY DEF write_math
<1>3. multiply(m) \in Numbers
  BY <1>1, MultiplyExact
<1>4. divide(m) \in Numbers
  BY <1>1, DivideExact
<1>. QED
  BY <1>1, <1>2, <1>3, <1>4

\* What MathIsExact says of one step.
Exact ==
  LET value(names) == get32(math', names) IN
  \A v \in Digit :
    /\ write_math("A", v) => value(EFGH) = value(<<"B", "A">>) * value(<<"D", "C">>)
    /\ write_math("E", v) /\ value(NP) # 0 =>
         /\ value(ABCD) * value(NP) + value(JKLM) = value(EFGH)
         /\ value(JKLM) < value(NP)

LEMMA MathStep == math \in Numbers => Exact
<1>. SUFFICES ASSUME math \in Numbers PROVE Exact
  OBVIOUS
<1>. PICK w : w = math'
  OBVIOUS
<1>1. ASSUME NEW v \in Digit, write_math("A", v)
      PROVE  get32(w, EFGH) = get32(w, <<"B", "A">>) * get32(w, <<"D", "C">>)
  <2>1. PICK m : m = [math EXCEPT !["A"] = v]
    OBVIOUS
  <2>2. m \in Numbers /\ w = multiply(m)
    BY <1>1, <2>1 DEF Numbers, write_math
  <2>. QED
    BY <2>2, MultiplyExact
<1>2. ASSUME NEW v \in Digit, write_math("E", v), get32(w, NP) # 0
      PROVE  /\ get32(w, ABCD) * get32(w, NP) + get32(w, JKLM) = get32(w, EFGH)
             /\ get32(w, JKLM) < get32(w, NP)
  <2>1. PICK m : m = [math EXCEPT !["E"] = v]
    OBVIOUS
  <2>2. m \in Numbers /\ w = divide(m)
    BY <1>2, <2>1 DEF Numbers, write_math
  <2>. QED
    BY <1>2, <2>2, DivideExact
<1>. QED
  BY <1>1, <1>2 DEF Exact

-----------------------------------------------------------------------------
(* The console.                                                            *)

\* What a step does to Suzy and to the memory.
Poked(a, v) ==
  /\ a \in Addresses /\ v \in Cells /\ ~InSuzy(a) /\ ~InMikey(a)
  /\ ram' = [ram EXCEPT ![a] = v]
  /\ UNCHANGED <<math, video, busy, scbs, blitVars>>

SuzyMove ==
  \/ UNCHANGED suzyVars
  \/ unit = "sprites" /\ (write_SPRGO \/ Blit \/ \E v \in 0 .. Len(scbs) : write_video("SCBNEXT", v))
  \/ unit # "sprites" /\ \E r \in MathReg, v \in Digit : write_math(r, v)
  \/ unit # "sprites" /\ \E a, v : Poked(a, v)

LEMMA ByteIsByte == Cells \subseteq 0 .. 255
<1>1. Byte \in {4, 16, 64, 256}
  BY PenTypes
<1>. QED
  BY <1>1 DEF Cells

LEMMA MemoryMoves ==
  ASSUME Memory
  PROVE  SuzyMove /\ [AudioNext]_audioVars
<1>1. PICK p \in Poke : lynx_mem_write(p[1], p[2])
  BY DEF Memory
<1>2. PICK a, v : a = p[1] /\ v = p[2]
  OBVIOUS
<1>3. a \in Addresses /\ v \in Cells /\ lynx_mem_write(a, v) /\ unit # "sprites"
  BY <1>1, <1>2, ConsoleAssumption DEF Addresses, Cells, Memory
<1>4. CASE InSuzy(a)
  <2>1. write_math(SuzyReg[a], v % Radix) /\ UNCHANGED audioVars
    BY <1>3, <1>4 DEF lynx_mem_write
  <2>2. SuzyReg[a] \in MathReg
    <3>1. a \in SuzyBase .. MikeyBase - 1
      BY <1>3, <1>4, ConsoleAssumption DEF InSuzy, Addresses
    <3>. QED
      BY <3>1, ConsoleAssumption
  <2>3. v % Radix \in Digit
    <3>1. PICK n \in Nat : n = v
      BY <1>3, ByteIsByte
    <3>2. n % Radix \in 0 .. Radix - 1
      BY Weights, Division
    <3>. QED
      BY <3>1, <3>2 DEF Digit
  <2>. QED
    BY <1>3, <2>1, <2>2, <2>3 DEF SuzyMove
<1>5. CASE ~InSuzy(a) /\ InMikey(a)
  <2>1. write_channel(0, "dac", v) /\ UNCHANGED suzyVars
    BY <1>3, <1>5 DEF lynx_mem_write
  <2>2. PICK w : w = <<"dac", v>>
    OBVIOUS
  <2>3. w \in Written /\ w[1] = "dac" /\ w[2] = v
    BY <1>3, <2>2, ByteIsByte DEF Written
  <2>4. WriteByte
    BY <2>1, <2>3, ConsoleAssumption DEF WriteByte
  <2>. QED
    BY <2>1, <2>4 DEF SuzyMove, AudioNext
<1>6. CASE ~InSuzy(a) /\ ~InMikey(a)
  BY <1>3, <1>6 DEF lynx_mem_write, SuzyMove, Poked
<1>. QED
  BY <1>4, <1>5, <1>6

\* Each part makes its own steps, and one step of the console is a step of one part.
LEMMA ConsoleMoves ==
  ASSUME [Next]_consoleVars
  PROVE  /\ unit' = unit /\ SuzyMove
         /\ [AudioNext]_audioVars /\ (Execute \/ UNCHANGED aluVars)
         /\ [FrontNext]_frontVars /\ [CartNext]_cartVars
<1>1. CASE Memory
  BY <1>1, MemoryMoves DEF Memory
<1>2. CASE Math
  BY <1>2 DEF Math, SuzyMove
<1>3. CASE Sprites
  BY <1>3 DEF Sprites, SuzyMove
<1>4. CASE Sound
  <2>1. WriteAudio => WriteByte
    BY DEF WriteAudio, WriteByte, Written
  <2>. QED
    BY <1>4, <2>1 DEF Sound, SuzyMove, AudioNext
<1>5. CASE Processor
  BY <1>5 DEF Processor, SuzyMove
<1>6. CASE PlayerStep
  BY <1>6 DEF PlayerStep, SuzyMove
<1>7. CASE Cartridge
  BY <1>7 DEF Cartridge, SuzyMove
<1>8. CASE UNCHANGED consoleVars
  BY <1>8 DEF consoleVars, SuzyMove
<1>. QED
  BY <1>1, <1>2, <1>3, <1>4, <1>5, <1>6, <1>7, <1>8 DEF Next

SuzyInv ==
  /\ math \in Numbers /\ BlitInv
  /\ unit # "sprites" => pc = "idle"

LEMMA SuzyKeeps ==
  ASSUME SuzyInv, SuzyMove, unit' = unit
  PROVE  SuzyInv'
<1>1. CASE UNCHANGED suzyVars
  <2>1. ram' \in Memories /\ UNCHANGED <<math, video, busy, scbs, blitVars>>
    BY <1>1 DEF suzyVars, SuzyInv, BlitInv, BlitData
  <2>2. pc' = pc
    BY <2>1 DEF blitVars
  <2>. QED
    BY <2>1, <2>2, MemoryKeeps DEF SuzyInv
<1>2. CASE unit = "sprites" /\ (write_SPRGO \/ Blit \/ \E v \in 0 .. Len(scbs) : write_video("SCBNEXT", v))
  <2>1. BlitInv'
    BY <1>2, GoKeeps, BlitKeeps, VideoKeeps DEF SuzyInv
  <2>2. math' = math
    BY <1>2 DEF write_SPRGO, Blit, write_video, SpriteStep, LineStep, LiteralStep, PacketStep, RunStep
  <2>. QED
    BY <1>2, <2>1, <2>2 DEF SuzyInv
<1>3. CASE unit # "sprites" /\ \E r \in MathReg, v \in Digit : write_math(r, v)
  <2>1. PICK r \in MathReg, v \in Digit : write_math(r, v)
    BY <1>3
  <2>2. math' \in Numbers
    BY <2>1, MathKeeps DEF SuzyInv
  <2>3. UNCHANGED <<video, busy, ram, scbs, blitVars>>
    BY <2>1 DEF write_math
  <2>4. ram' \in Memories /\ pc' = pc
    BY <2>3 DEF SuzyInv, BlitInv, BlitData, blitVars
  <2>. QED
    BY <2>2, <2>3, <2>4, MemoryKeeps DEF SuzyInv
<1>4. CASE unit # "sprites" /\ \E a, v : Poked(a, v)
  <2>1. PICK a, v : Poked(a, v)
    BY <1>4
  <2>2. ram' \in Memories
    BY <2>1 DEF Poked, SuzyInv, BlitInv, BlitData, Memories
  <2>3. UNCHANGED <<math, video, busy, scbs, blitVars>> /\ pc' = pc
    BY <2>1 DEF Poked, blitVars
  <2>. QED
    BY <2>2, <2>3, MemoryKeeps DEF SuzyInv
<1>. QED
  BY <1>1, <1>2, <1>3, <1>4 DEF SuzyMove

\* All that holds of the console's parts.
ConsoleInv == SuzyInv /\ AudioInv /\ AluInv /\ FrontInv /\ CartInv

LEMMA ConsoleStart == Init => ConsoleInv
<1>. SUFFICES ASSUME Init PROVE ConsoleInv
  OBVIOUS
<1>1. SuzyInv
  <2>1. PICK p \in Pictures : ram = p.ram /\ scbs = p.scbs /\ video = p.video
    <3>1. (CHOOSE q \in Pictures : TRUE) \in Pictures
      BY ConsoleAssumption
    <3>. QED
      BY <3>1 DEF Init
  <2>2. BlitInv /\ pc = "idle"
    BY <2>1, ConsoleAssumption, BlitStart DEF Init
  <2>3. math \in Numbers
    BY Weights DEF Init, lynx_suzy_init, Numbers, Digit
  <2>. QED
    BY <2>2, <2>3 DEF SuzyInv
<1>2. AluInv
  <2>1. CpuStart # {}
    <3>1. PICK a \in Value : TRUE
      BY AluAssumption
    <3>2. PICK set \in Flags : TRUE
      BY AluAssumption
    <3>3. [a |-> a, x |-> 0, y |-> 128, s |-> 0,
           n |-> AsBit("n" \in set), v |-> AsBit("v" \in set), d |-> AsBit("d" \in set),
           i |-> AsBit("i" \in set), z |-> AsBit("z" \in set), c |-> AsBit("c" \in set)] \in CpuStart
      BY <3>1, <3>2 DEF CpuStart
    <3>. QED
      BY <3>3
  <2>2. {CHOOSE r \in CpuStart : TRUE} \subseteq CpuStart
    BY <2>1
  <2>3. CASE unit = "processor"
    BY <2>3, AluStart DEF Init
  <2>4. CASE unit # "processor"
    BY <2>2, <2>4, AluStart DEF Init
  <2>. QED
    BY <2>3, <2>4
<1>. QED
  BY <1>1, <1>2, AudioInitial, InitialInv, CartInvInit DEF Init, ConsoleInv

LEMMA ConsoleStep == ConsoleInv /\ [Next]_consoleVars => ConsoleInv'
<1>. SUFFICES ASSUME ConsoleInv, [Next]_consoleVars PROVE ConsoleInv'
  OBVIOUS
<1>1. /\ unit' = unit /\ SuzyMove
      /\ [AudioNext]_audioVars /\ (Execute \/ UNCHANGED aluVars)
      /\ [FrontNext]_frontVars /\ [CartNext]_cartVars
  BY ConsoleMoves
<1>2. SuzyInv'
  BY <1>1, SuzyKeeps DEF ConsoleInv
<1>3. AluInv'
  BY <1>1, AluStep DEF ConsoleInv
<1>4. AudioInv' /\ FrontInv' /\ CartInv'
  BY <1>1, AudioStep, NextInv, CartInvStep DEF ConsoleInv
<1>. QED
  BY <1>2, <1>3, <1>4 DEF ConsoleInv

LEMMA ConsoleAlways == Spec => []ConsoleInv
BY ConsoleStart, ConsoleStep, PTL DEF Spec

-----------------------------------------------------------------------------
\* The code that is emitted for an instruction leaves the same registers and
\* flags, and writes the same value, as the interpreter does: for every
\* instruction of the model, every operand and every state of the processor.
THEOREM ProcessorsAgree == Spec => []SameProcessor
<1>1. ConsoleInv => SameProcessor
  BY AluSame DEF ConsoleInv
<1>. QED
  BY <1>1, ConsoleAlways, PTL

\* Sums and differences, binary and decimal, are those of the numbers that the
\* operands stand for, in lynx_adc and lynx_sbc.
THEOREM ArithmeticIsAlwaysExact == Spec => []ArithmeticIsExact
<1>1. ConsoleInv => ArithmeticIsExact
  BY AluExact DEF ConsoleInv
<1>. QED
  BY <1>1, ConsoleAlways, PTL

\* The math unit computes exactly, whatever order a game writes its bytes in
\* and whatever is left in the registers from before: lynx_suzy_write.
THEOREM MathIsAlwaysExact == Spec => MathIsExact
<1>1. ConsoleInv => Exact
  BY MathStep DEF ConsoleInv, SuzyInv
<1>2. ConsoleInv /\ [Next]_consoleVars => [Exact]_math
  BY <1>1
<1>. QED
  BY <1>2, ConsoleAlways, PTL DEF Spec, MathIsExact, Exact

\* The blitter takes a pen from the bits of its own line, whatever the data is:
\* lynx_suzy_blit.
THEOREM PensAlwaysComeFromTheLine == Spec => PensComeFromTheLine
<1>1. ConsoleInv /\ [Next]_consoleVars => [Fetched => OfTheLine]_<<br, pc>>
  <2>. SUFFICES ASSUME ConsoleInv, [Next]_consoleVars, <<br, pc>>' # <<br, pc>>, Fetched
                PROVE  OfTheLine
    OBVIOUS
  <2>1. SuzyMove /\ BlitInv
    BY ConsoleMoves DEF ConsoleInv, SuzyInv
  <2>2. CASE UNCHANGED <<br, pc>>
    BY <2>2
  <2>3. CASE Blit
    BY <2>1, <2>3, PensOfLine
  <2>4. CASE write_SPRGO
    BY <2>4 DEF write_SPRGO, Blitting, Fetched
  <2>. QED
    BY <2>1, <2>2, <2>3, <2>4 DEF SuzyMove, suzyVars, blitVars, write_video, write_math, Poked
<1>. QED
  BY <1>1, ConsoleAlways, PTL DEF Spec, PensComeFromTheLine, Fetched, OfTheLine

\* Drawing changes one pixel of the screen, and no other memory: blit_pixel and
\* lynx_video_render agree on where a pixel is.
THEOREM PixelsAlwaysLandOnScreen == Spec => PixelsLandOnScreen
<1>1. ConsoleInv /\ [Next]_consoleVars => [ram' # ram /\ Blitting => OnePixel]_ram
  <2>. SUFFICES ASSUME ConsoleInv, [Next]_consoleVars, ram' # ram, Blitting
                PROVE  OnePixel
    OBVIOUS
  <2>1. SuzyMove /\ BlitInv /\ (unit # "sprites" => pc = "idle")
    BY ConsoleMoves DEF ConsoleInv, SuzyInv
  <2>2. CASE Blit
    BY <2>1, <2>2, OnlyPixels
  <2>. QED
    BY <2>1, <2>2 DEF SuzyMove, suzyVars, Blitting, write_SPRGO, write_video
<1>. QED
  BY <1>1, ConsoleAlways, PTL DEF Spec, PixelsLandOnScreen, OnePixel

\* Only the blitter changes the memory under the registers: lynx_mem_write takes
\* the processor's writes to them.
THEOREM ProcessorNeverReachesTheWindow == Spec => WindowHidesMemory
<1>. DEFINE Hidden == \A a \in SuzyBase .. BootromBase - 1 : ram'[a] # ram[a] => Blitting
<1>1. ConsoleInv /\ [Next]_consoleVars => [Hidden]_ram
  <2>. SUFFICES ASSUME ConsoleInv, [Next]_consoleVars, ram' # ram,
                       NEW a \in SuzyBase .. BootromBase - 1, ram'[a] # ram[a]
                PROVE  Blitting
    OBVIOUS
  <2>1. SuzyMove /\ ram \in Memories
    BY ConsoleMoves DEF ConsoleInv, SuzyInv, BlitInv, BlitData
  <2>2. a \in Addresses /\ (InSuzy(a) \/ InMikey(a))
    BY ConsoleAssumption, ScreenTypes DEF Addresses, InSuzy, InMikey
  <2>3. CASE Blit
    BY <2>3 DEF Blit, Blitting, SpriteStep, LineStep, LiteralStep, PacketStep, RunStep
  <2>4. ASSUME NEW b, NEW v, Poked(b, v) PROVE FALSE
    <3>1. b # a /\ ram' = [ram EXCEPT ![b] = v]
      BY <2>2, <2>4 DEF Poked
    <3>. QED
      BY <2>1, <2>2, <3>1 DEF Memories
  <2>. QED
    BY <2>1, <2>3, <2>4 DEF SuzyMove, suzyVars, write_SPRGO, write_video, write_math
<1>. QED
  BY <1>1, ConsoleAlways, PTL DEF Spec, WindowHidesMemory

\* Four channels of nine bits are mixed into sixteen without being cut off.
LEMMA SampleFits ==
  ASSUME AudioInv
  PROVE  -24576 <= lynx_audio_sample /\ lynx_audio_sample <= 24576
<1>. DEFINE dac(c) == IF c \in Channel THEN ch[c].dac ELSE 0
<1>1. \A c : dac(c) \in Int /\ -128 <= dac(c) /\ dac(c) <= 128
  BY DEF AudioInv, States, Outputs
<1>. HIDE DEF dac
<1>2. PICK a, b, c, d : a = dac(0) /\ b = dac(1) /\ c = dac(2) /\ d = dac(3)
  OBVIOUS
<1>3. PICK s : s = 48 * (a + b + c + d)
  OBVIOUS
<1>4. /\ a \in Int /\ -128 <= a /\ a <= 128
      /\ b \in Int /\ -128 <= b /\ b <= 128
      /\ c \in Int /\ -128 <= c /\ c <= 128
      /\ d \in Int /\ -128 <= d /\ d <= 128
  BY <1>1, <1>2
<1>5. s \in Int /\ -24576 <= s /\ s <= 24576
  BY ONLY <1>3, <1>4
<1>7. lynx_audio_sample = CASE s > 32767 -> 32767 [] s < -32768 -> -32768 [] OTHER -> s
  BY <1>2, <1>3 DEF lynx_audio_sample, dac
<1>8. ~(s > 32767) /\ ~(s < -32768)
  BY ONLY <1>5
<1>9. lynx_audio_sample = s
  BY <1>7, <1>8
<1>. QED
  BY <1>5, <1>9

\* The widths of the console's registers, counters and buffers are kept: of
\* Suzy's, the sound channels', the menu's scale, rotation and flags, and the
\* cartridge port's.  Of the settings that the code does not bound, filter, volume
\* and bindings, it says no more than that they are numbers.
THEOREM ConsoleTypesHold == Spec => []ConsoleTypeOK
<1>1. SuzyInv => SuzyTypeOK
  <2>. SUFFICES ASSUME SuzyInv PROVE SuzyTypeOK
    OBVIOUS
  <2>1. Len(scbs) \in Nat /\ DOMAIN scbs = 1 .. Len(scbs)
    BY DEF SuzyInv, BlitInv, BlitData, GoodChain
  <2>2. Blitting => scb \in DOMAIN scbs \cup {0} /\ sprites \in 0 .. MaxSprites
    BY <2>1 DEF SuzyInv, BlitInv, OnChain
  <2>. QED
    BY <2>2 DEF SuzyInv, BlitInv, BlitData, BlitCounts, SuzyTypeOK, Numbers, Memories, Addresses, Cells,
                Palettes, PenValues, Packets
<1>2. AudioInv => AudioTypeOK
  BY SampleFits DEF AudioInv, AudioTypeOK
<1>3. FrontInv => FrontTypeOK
  BY DEF FrontInv
<1>4. CartInv => CartTypeOK
  <2>. SUFFICES ASSUME CartInv PROVE CartTypeOK
    OBVIOUS
  <2>1. BlockBits \in Nat
    BY CartAssumption
  <2>. QED
    BY <2>1 DEF CartInv, CartTypeOK, Block, Blocks
<1>5. ConsoleInv => ConsoleTypeOK
  BY <1>1, <1>2, <1>3, <1>4 DEF ConsoleInv, ConsoleTypeOK
<1>. QED
  BY <1>5, ConsoleAlways, PTL

\* What the parts keep on their own they keep in the console: the sound its
\* time, the cartridge port its block, and the player's settings what
\* SettingsAlwaysSurvive says of them, its two exceptions included.
THEOREM PartsKeepTheirWord == Spec => [](SoundKeepsTime /\ CartReadsBack) /\ SettingsSurvive
<1>1. ConsoleInv => SoundKeepsTime /\ CartReadsBack
  BY SoundKeeps DEF ConsoleInv, CartInv, CartReadsBack
<1>2. ConsoleInv /\ [Next]_consoleVars => [Found]_frontVars
  BY FoundAgain, ConsoleMoves DEF ConsoleInv
<1>. QED
  BY <1>1, <1>2, ConsoleAlways, PTL DEF Spec, SettingsSurvive, Found
=============================================================================
