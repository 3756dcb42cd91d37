------------------------------- MODULE Console -------------------------------
(***************************************************************************)
(* The console's units behind the processor's address space: src/mem.c     *)
(* routes a write to the registers of Suzy (sprites and math) or of Mikey  *)
(* (sound), or to memory, while Suzy and the video readout reach the       *)
(* memory under the registers as well.  The processor's own registers are  *)
(* the module Alu; the player's side and the cartridge port are Frontend   *)
(* and Cart.                                                               *)
(*                                                                         *)
(* The units share nothing but the memory, so a behaviour works with one   *)
(* of them (unit), which adds their states up instead of multiplying them. *)
(***************************************************************************)
EXTENDS Suzy, Audio, Alu, Frontend, Cart

CONSTANTS
  Units,        (* the parts that the behaviours exercise *)
  MaxLfsr,      (* bound: a channel runs until its shift register is this large *)
  SuzyBase, MikeyBase, BootromBase, (* $FC00, $FD00 and $FE00 *)
  SuzyReg,      (* the math register at each address of Suzy's window *)
  Pictures,     (* the memories, chains of blocks and registers a blit starts from *)
  Poke          (* the addresses and values the processor writes *)

ASSUME ConsoleAssumption ==
  /\ 0 \in Channel
  /\ {SuzyBase, MikeyBase, BootromBase} \subseteq 0 .. RamSize
  /\ SuzyBase <= MikeyBase /\ MikeyBase <= BootromBase
  /\ SuzyReg \in [SuzyBase .. MikeyBase - 1 -> MathReg]
  /\ Pictures # {} /\ \A p \in Pictures : IsPicture(p)
  /\ Poke \subseteq (0 .. RamSize - 1) \X (0 .. Byte - 1)

VARIABLE unit   (* the part that this behaviour exercises *)

consoleVars == <<unit, suzyVars, audioVars, aluVars, frontVars, cartVars>>

InSuzy(addr) == addr >= SuzyBase /\ addr < MikeyBase
InMikey(addr) == addr >= MikeyBase /\ addr < BootromBase

\* A mutant: the first address of a window is memory.
lynx_mem_write_late(addr, v) ==
  IF InSuzy(addr) /\ addr # SuzyBase
  THEN write_math(SuzyReg[addr], v % Radix) /\ UNCHANGED audioVars
  ELSE IF InMikey(addr) THEN write_channel(0, "dac", v) /\ UNCHANGED suzyVars
  ELSE ram' = [ram EXCEPT ![addr] = v] /\ UNCHANGED <<math, video, busy, scbs, blitVars, audioVars>>

\* Of Mikey's registers the window holds one that nothing else depends on.
lynx_mem_write(addr, v) ==
  IF InSuzy(addr) THEN write_math(SuzyReg[addr], v % Radix) /\ UNCHANGED audioVars
  ELSE IF InMikey(addr) THEN write_channel(0, "dac", v) /\ UNCHANGED suzyVars
  ELSE ram' = [ram EXCEPT ![addr] = v] /\ UNCHANGED <<math, video, busy, scbs, blitVars, audioVars>>

Memory ==
  /\ unit = "memory"
  /\ \E p \in Poke : lynx_mem_write(p[1], p[2])
  /\ UNCHANGED <<unit, aluVars, frontVars, cartVars>>

Math ==
  /\ unit = "math"
  /\ \E r \in MathReg, v \in Digit : write_math(r, v)
  /\ UNCHANGED <<unit, audioVars, aluVars, frontVars, cartVars>>

Sprites ==
  /\ unit = "sprites"
  /\ write_SPRGO \/ Blit \/ \E v \in 0 .. Len(scbs) : write_video("SCBNEXT", v)
  /\ UNCHANGED <<unit, audioVars, aluVars, frontVars, cartVars>>

Sound ==
  /\ unit = "sound"
  /\ \A c \in Channel : ch[c].lfsr < MaxLfsr
  /\ WriteAudio \/ \E us \in Us : lynx_audio_step(us)
  /\ UNCHANGED <<unit, suzyVars, aluVars, frontVars, cartVars>>

Processor ==
  /\ unit = "processor"
  /\ Execute
  /\ UNCHANGED <<unit, suzyVars, audioVars, frontVars, cartVars>>

PlayerStep ==
  /\ unit = "player"
  /\ FrontNext
  /\ UNCHANGED <<unit, suzyVars, audioVars, aluVars, cartVars>>

Cartridge ==
  /\ unit = "cart"
  /\ CartNext
  /\ UNCHANGED <<unit, suzyVars, audioVars, aluVars, frontVars>>

Init ==
  /\ unit \in Units
  /\ lynx_suzy_init
  /\ \E p \in IF unit = "sprites" THEN Pictures ELSE {CHOOSE q \in Pictures : TRUE} :
       ram = p.ram /\ scbs = p.scbs /\ video = p.video
  /\ lynx_audio_init
  /\ AluInit(IF unit = "processor" THEN CpuStart ELSE {CHOOSE r \in CpuStart : TRUE})
  /\ FrontInit
  /\ CartInit

Next == Memory \/ Math \/ Sprites \/ Sound \/ Processor \/ PlayerStep \/ Cartridge

\* Nothing interrupts lynx_suzy_blit: it is fair by being a call.  The host calls
\* present and poll in turn, and poll runs the event queue empty.
Spec ==
  /\ Init /\ [][Next]_consoleVars
  /\ WF_consoleVars(Blit /\ UNCHANGED <<unit, audioVars, aluVars, frontVars, cartVars>>)
  /\ WF_consoleVars(unit = "player" /\ Frame /\ UNCHANGED <<unit, suzyVars, audioVars, aluVars, cartVars>>)

ConsoleTypeOK == SuzyTypeOK /\ AudioTypeOK /\ FrontTypeOK /\ CartTypeOK

\* The processor never writes the memory under the registers: what the sprites
\* draw there stays until they draw again.
WindowHidesMemory ==
  [][\A a \in SuzyBase .. BootromBase - 1 : ram'[a] # ram[a] => Blitting]_ram
=============================================================================
