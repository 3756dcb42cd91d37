------------------------------ MODULE Discovery ------------------------------
(***************************************************************************)
(* Function discovery: analyze_discover of tools/m65c02recomp/analyze.c,   *)
(* with the seeds that tools/m65c02recomp/main.c gives it.  A worklist of  *)
(* function starts; each is decoded in a line to the terminator that no    *)
(* pending forward target lies beyond, and what it calls or jumps to is    *)
(* pushed.  One step decodes one instruction.                              *)
(***************************************************************************)
EXTENDS Code, SequencesExt

CONSTANTS
  MaxFuncs,   (* MAX_FUNCS, 1024 *)
  MaxLabels,  (* MAX_LABELS, 256 *)
  MaxWalk,    (* the longest function, $1000 *)
  TableMax,   (* the entries of a jump table that are read, 64 *)
  Program,    (* bound: the images and seeds looked at, [image, seeds] *)
  None        (* no function is being decoded *)

\* The last instruction of the longest function does not reach round the
\* address space to the start of it.
ASSUME LimitAssumption ==
  /\ {MaxFuncs, MaxLabels, MaxWalk, TableMax} \subseteq Nat \ {0}
  /\ MaxWalk + 2 <= Space

ASSUME ProgramAssumption ==
  \A p \in Program : p.image \in Image /\ p.seeds \in Seq(Addr)

ASSUME NoneAssumption == None \notin [start : Addr, labels : SUBSET Addr]

VARIABLES
  image,    (* the code image, [base, rom] *)
  seeds,    (* the addresses discovery starts from *)
  work,     (* the worklist, a stack *)
  seen,     (* function starts ever pushed *)
  funcs,    (* the function table: [start, end, labels] *)
  ext,      (* targets outside the image *)
  fn,       (* discover_one's f, start and labels *)
  addr, maxt, end  (* and its cursor, highest forward target and extent *)

table == <<work, seen>>
walk  == <<fn, addr, maxt, end>>
discVars == <<image, seeds, work, seen, funcs, ext, fn, addr, maxt, end>>

\* A mutant: a function already seen is pushed again.
push_func_again(d, a) ==
  IF in_image(image, a) /\ Len(d.work) < MaxFuncs /\ Len(funcs) < MaxFuncs
  THEN [work |-> Append(d.work, a), seen |-> d.seen \cup {a}]
  ELSE d

\* push_func, on the pair of worklist and seen bitmap.
push_func(d, a) ==
  IF in_image(image, a) /\ a \notin d.seen /\ Len(d.work) < MaxFuncs /\ Len(funcs) < MaxFuncs
  THEN [work |-> Append(d.work, a), seen |-> d.seen \cup {a}]
  ELSE d

push_all(d, targets) ==
  LET after[k \in 0 .. Len(targets)] ==
        IF k = 0 THEN d ELSE push_func(after[k - 1], targets[k])
  IN after[Len(targets)]

Worklist == [work |-> work, seen |-> seen]

\* The C code bounds ext at MAX_FUNCS entries, labels at MAX_LABELS.
add_ext(a) == ext' = IF Cardinality(ext) < MaxFuncs THEN ext \cup {a} ELSE ext
add_label(labels, a) == IF Cardinality(labels) < MaxLabels THEN labels \cup {a} ELSE labels

\* The targets of a jump table: its entries up to the first that is no code
\* address.
TableTargets(base) ==
  LET entry(e) == img_rd16(image, base + e)
      valid(e) == entry(e) # 0 /\ in_image(image, entry(e))
      n == Cardinality({e \in 0 .. TableMax - 1 : \A k \in 0 .. e : valid(k)})
  IN [e \in 1 .. n |-> entry(e - 1)]

\* A mutant: calls are not followed.
Pushes_jumps(in, past) ==
  IF in.cflow = "JMP" /\ in.mode = "ABS" /\ in.target > past THEN <<in.target>> ELSE <<>>

\* The addresses an instruction makes functions of, in the order they are
\* pushed; past is the extent decoded so far, this instruction included.
Pushes(in, past) ==
  CASE in.cflow = "CALL" -> <<in.target>>
    [] in.cflow = "JMP" /\ in.mode = "ABS" -> IF in.target > past THEN <<in.target>> ELSE <<>>
    [] in.mode = "IND" -> <<img_rd16(image, in.operand)>>
    [] in.mode = "IAX" -> TableTargets(in.operand)
    [] in.cflow \in {"NORMAL", "BRANCH", "RET", "BREAK"} -> <<>>

Init ==
  \E p \in Program :
    /\ image = p.image
    /\ seeds = p.seeds
    /\ funcs = <<>> /\ ext = {}
    /\ fn = None /\ addr = 0 /\ maxt = 0 /\ end = 0
    /\ LET d == push_all([work |-> <<>>, seen |-> {}], seeds)
       IN work = d.work /\ seen = d.seen

\* discover_one takes the latest address pushed; with the table full it drops it.
discover_one ==
  /\ fn = None
  /\ work # <<>>
  /\ work' = Front(work)
  /\ IF Len(funcs) >= MaxFuncs
     THEN UNCHANGED walk
     ELSE LET fs == Last(work) IN
          fn' = [start |-> fs, labels |-> {}] /\ addr' = fs /\ maxt' = fs /\ end' = fs
  /\ UNCHANGED <<image, seeds, seen, funcs, ext>>

Close(labels, e) ==
  /\ funcs' = Append(funcs, [start |-> fn.start, end |-> e, labels |-> labels])
  /\ fn' = None
  /\ UNCHANGED <<addr, maxt, end>>

\* A mutant: a function may be of any length.
InWalk_unbounded == in_image(image, addr) /\ ~Truncated(image, addr)

InWalk ==
  /\ in_image(image, addr)
  /\ (addr + Space - fn.start) % Space < MaxWalk
  /\ ~Truncated(image, addr)

\* The function runs into the end of the image, or has become too long.
CutShort ==
  /\ fn # None
  /\ ~InWalk
  /\ Close(fn.labels, end)
  /\ UNCHANGED <<image, seeds, work, seen, ext>>

\* A mutant: the address is an int and does not wrap.
Following_int(in) == in.pc + in.len

Following(in) == (in.pc + in.len) % Space

\* One turn of the loop: the extent grows, targets become labels, functions or
\* external, and a terminator past every pending target closes the function.  A
\* jump to 0 is taken for one whose target is not resolved.
decode_insn ==
  /\ fn # None
  /\ InWalk
  /\ LET in     == InsnAt(image, addr)
         next   == Following(in)
         past   == IF next > end THEN next ELSE end
         target == in.target
         inside == in_image(image, target)
         label  == inside /\ (in.cflow = "BRANCH" \/ (in.cflow = "JMP" /\ target # 0))
         reach  == label /\ (in.cflow = "BRANCH" \/ target <= past) /\ target > maxt
         far    == IF reach THEN target ELSE maxt
         labels == IF label THEN add_label(fn.labels, target) ELSE fn.labels
         d      == push_all(Worklist, Pushes(in, past))
         terminator == in.cflow \in {"JMP", "RET", "BREAK"}
     IN
     /\ work' = d.work
     /\ seen' = d.seen
     /\ IF ~inside /\ (in.cflow = "CALL" \/ (in.cflow = "JMP" /\ target # 0))
        THEN add_ext(target)
        ELSE UNCHANGED ext
     /\ IF terminator /\ next > far
        THEN Close(labels, past)
        ELSE /\ fn' = [fn EXCEPT !.labels = labels]
             /\ addr' = next
             /\ maxt' = far
             /\ end' = past
             /\ UNCHANGED funcs
  /\ UNCHANGED <<image, seeds>>

DiscoverNext == discover_one \/ decode_insn \/ CutShort

Discovered == fn = None /\ work = <<>>
=============================================================================
