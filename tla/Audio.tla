-------------------------------- MODULE Audio --------------------------------
(***************************************************************************)
(* Mikey's four sound channels: src/audio.c, with the register writes of   *)
(* src/mikey.c that reach it.  A channel counts its register down once a   *)
(* period; when it is at zero the shift register is clocked and the        *)
(* channel's output set or integrated.                                     *)
(*                                                                         *)
(* The control byte is decoded, and the feedback byte is the set of the    *)
(* switches it closes.  Scaled down: counts and reloads up to MaxCount.    *)
(***************************************************************************)
EXTENDS Integers, Sequences, SequencesExt, FiniteSetsExt, Functions, Bytes

CONSTANTS
  Channel,   (* 0 .. 3 *)
  MaxCount,  (* 255 *)
  Writes,    (* the registers, with values, that a game writes *)
  Us         (* microseconds that may pass at once *)

ControlByte ==
  [clock : 0 .. 7, count : BOOLEAN, reload : BOOLEAN, integrate : BOOLEAN, feedback7 : BOOLEAN]

Register ==
  [volume : -128 .. 127, feedback : SUBSET (1 .. 8), dac : 0 .. 255, shiftlo : 0 .. 255,
   reload : 0 .. MaxCount, count : 0 .. MaxCount, other : 0 .. 255, ctl : ControlByte]

\* A write is of a byte, given as the register reads it.
ASSUME AudioAssumption ==
  /\ Channel \subseteq 0 .. 3 /\ MaxCount \in Nat
  /\ Us \subseteq Nat \ {0}
  /\ \A w \in Writes :
       \/ w[1] = "volume" /\ w[2] \in -128 .. 127
       \/ w[1] = "feedback" /\ w[2] \subseteq 1 .. 8
       \/ w[1] \in {"dac", "shiftlo", "other"} /\ w[2] \in 0 .. 255
       \/ w[1] \in {"reload", "count"} /\ w[2] \in 0 .. MaxCount
       \/ w[1] = "ctl" /\ w[2] \in ControlByte

VARIABLES
  areg,  (* the channels' registers *)
  ch     (* the channels' state: lfsr, dac and phase *)

audioVars == <<areg, ch>>

\* A channel is given by its registers and state together.
Chan(c) == [reg |-> areg[c], ch |-> ch[c]]

-----------------------------------------------------------------------------
\* The taps of the nine feedback switches.
tap == <<7, 0, 1, 2, 3, 4, 5, 10, 11>>

\* The bit shifted in is one when an even number of the selected taps is set.
Shifted(reg, lfsr) ==
  LET closed == (IF reg.ctl.feedback7 THEN {0} ELSE {}) \cup reg.feedback
      ones   == {s \in closed : BitOf(lfsr, tap[s + 1]) = 1}
  IN (lfsr * 2 + 1 - (Cardinality(ones) % 2)) % 4096

clock_lfsr(x) ==
  LET lfsr == Shifted(x.reg, x.ch.lfsr)
      wave == IF lfsr % 2 = 1 THEN x.reg.volume ELSE - x.reg.volume
      sum  == x.ch.dac + wave
      dac  == IF ~x.reg.ctl.integrate THEN wave
              ELSE IF sum > 127 THEN 127
              ELSE IF sum < -128 THEN -128 ELSE sum
  IN [reg |-> [x.reg EXCEPT !.dac = dac % 256],
      ch  |-> [x.ch EXCEPT !.lfsr = lfsr, !.dac = dac]]

\* One count of a channel.
counted(x) ==
  IF x.reg.count = 0
  THEN clock_lfsr([x EXCEPT !.reg.count = IF x.reg.ctl.reload THEN x.reg.reload ELSE @])
  ELSE [x EXCEPT !.reg.count = @ - 1]

\* A mutant: what is left of a period is thrown away.
stepped_dropping(x, us) ==
  IF ~x.reg.ctl.count \/ x.reg.ctl.clock = 7 THEN x
  ELSE LET period == 2 ^ x.reg.ctl.clock
           times  == (x.ch.phase + us) \div period
           after[k \in 0 .. times] == IF k = 0 THEN x ELSE counted(after[k - 1])
       IN [after[times] EXCEPT !.ch.phase = 0]

\* A channel after us microseconds; a stopped or linked one stays as it is.
stepped(x, us) ==
  IF ~x.reg.ctl.count \/ x.reg.ctl.clock = 7 THEN x
  ELSE LET period == 2 ^ x.reg.ctl.clock
           times  == (x.ch.phase + us) \div period
           after[k \in 0 .. times] == IF k = 0 THEN x ELSE counted(after[k - 1])
       IN [after[times] EXCEPT !.ch.phase = (x.ch.phase + us) % period]

lynx_audio_step(us) ==
  /\ areg' = [c \in Channel |-> stepped(Chan(c), us).reg]
  /\ ch' = [c \in Channel |-> stepped(Chan(c), us).ch]

\* The mix of the channels, scaled and clamped to 16 bits.
lynx_audio_sample ==
  LET dac(c) == IF c \in Channel THEN ch[c].dac ELSE 0
      s == 48 * (dac(0) + dac(1) + dac(2) + dac(3))
  IN CASE s > 32767 -> 32767 [] s < -32768 -> -32768 [] OTHER -> s

\* The generator takes what both bytes of the shift register hold.
lynx_audio_reseed(reg, x) ==
  [x EXCEPT !.lfsr = reg.shiftlo + ((reg.other \div 16) * 256)]

\* lynx_mikey_write to a register of a channel.
write_channel(c, r, v) ==
  LET reg == [areg[c] EXCEPT ![r] = v] IN
  /\ areg' = [areg EXCEPT ![c] = reg]
  /\ ch' = [ch EXCEPT ![c] = IF r \in {"shiftlo", "other"} THEN lynx_audio_reseed(reg, @) ELSE @]

WriteAudio == \E c \in Channel, w \in Writes : write_channel(c, w[1], w[2])

lynx_audio_init ==
  /\ areg = [c \in Channel |-> [volume |-> 0, feedback |-> {}, dac |-> 0, shiftlo |-> 0,
                                 reload |-> 0, count |-> 0, other |-> 0,
                                 ctl |-> [clock |-> 0, count |-> FALSE, reload |-> FALSE,
                                          integrate |-> FALSE, feedback7 |-> FALSE]]]
  /\ ch = [c \in Channel |-> [lfsr |-> 0, dac |-> 0, phase |-> 0]]

-----------------------------------------------------------------------------
ShiftValues == 0 .. 4095
Outputs == -128 .. 128
Phases == 0 .. 63
States == [lfsr : ShiftValues, dac : Outputs, phase : Phases]

AudioTypeOK ==
  /\ areg \in [Channel -> Register] /\ ch \in [Channel -> States]
  /\ -24576 <= lynx_audio_sample /\ lynx_audio_sample <= 24576

\* What is heard does not depend on how finely time is sliced: advancing a
\* channel twice is advancing it once by the sum, in whatever state a game's
\* writes in the middle of a period have left it.
SoundKeepsTime ==
  \A c \in Channel, u1 \in Us, u2 \in Us :
    stepped(stepped(Chan(c), u1), u2) = stepped(Chan(c), u1 + u2)
=============================================================================
