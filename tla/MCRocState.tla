---------------------------- MODULE MCRocState -----------------------------
(* RocState with menus of commands: one ROC, and a module of two ROCs, and *)
(* the strongest outline of each command.                                  *)
EXTENDS RocOutline, FiniteSetsExt, TLC
C == INSTANCE RocCommands

MCDacs == {"Vana", "Vtrim", "VthrComp", "CalDel", "Vcal", "CtrlReg", C!Gain, C!Offs}
MCChannels == {C!Ch0, C!Ch1}
Tbms == {0, 8}   \* a ROC of each TBM channel
OneRoc == {{0}}
SomeRocs == {{0}, {8}, {0, 8}}
AllSet == Rocs \X MCDacs

\* A ROC on the single-ROC adapter.
SingleMenu ==
  [setter |-> C!setter("Vtrim"), rddac |-> C!rddac(<<"Vana", "VthrComp">>), rdtrim |-> C!rdtrim,
   pixt |-> C!pixt(0), optia |-> C!setia, fire |-> C!fire, caldel |-> C!setcaldel,
   caldelmap |-> C!caldelmap, daci |-> C!daci("Vana"), vthrcompi |-> C!vthrcompi(0),
   phdac |-> C!phdac(0, "VthrComp"), calsdac |-> C!calsdac(0, "CalDel"),
   effdac |-> C!effdac(0, "Vcal"), thrdac |-> C!thrdac("CalDel"),
   modthrdac |-> C!modthrdac(0, "CalDel"),
   effmap |-> C!effmap, effmask |-> C!effmask, phmap |-> C!phmap, calsmap |-> C!calsmap,
   bbtest |-> C!bbtest, gaindac |-> C!gaindac, caldelroc |-> C!caldelroc, vanaroc |-> C!vanaroc,
   dacscanroc |-> C!dacscanroc("VthrComp"), dacdac |-> C!dacdac("CalDel", "VthrComp"),
   thrmapsc |-> C!thrmapsc, thrmap |-> C!thrmap, vthrcomp5 |-> C!vthrcomp5, vthrcomp |-> C!vthrcomp,
   trimbits |-> C!trimbits, scanvthr |-> C!scanvthr, tune |-> C!tune,
   modtrim |-> C!modtrim, trim |-> C!trim, modtune |-> C!modtune(Rocs), optiamod |-> C!optiamod,
   dacscanmod |-> C!dacscanmod("Vcal"), dacscanother |-> C!dacscanmod("CalDel"),
   oneroc |-> C!oneroc, bare |-> C!bare]

\* A module, any of its ROCs active; modtune with its parameter.
ModuleMenu ==
  [select |-> C!select, rdtrim |-> C!rdtrim,
   pixt |-> C!pixt(8), modcaldel |-> C!modcaldel, phdac |-> C!phdac(8, "VthrComp"),
   modthrmap |-> C!modthrmap, modpixsc |-> C!modpixsc, dacscanmod |-> C!dacscanmod("Vcal"),
   modmap |-> C!modmap, modvthrcomp |-> C!modvthrcomp, modtrimbits |-> C!modtrimbits,
   modtrim |-> C!modtrim, trim |-> C!trim, modtune |-> C!modtune({0}), optiamod |-> C!optiamod,
   calsdac |-> C!calsdac(8, "CalDel"), effmask |-> C!effmask]

(* TLC evaluates the value of a CONSTANT at every use, and its coverage statistics follow *)
(* its definition there, but neither goes through this LET.                              *)
SingleCode == LET menu == SingleMenu IN menu
ModuleCode == LET menu == ModuleMenu IN menu

MCPurpose ==
  [c \in Commands |->
    CASE c = "setter" -> {"Vtrim"}
      [] c = "rddac" -> {"Vana", "VthrComp"}
      [] c \in {"optia", "optiamod"} -> {"Vana"}
      [] c \in {"caldel", "caldelroc", "modcaldel", "scanvthr"} -> {"CalDel"}
      [] c \in {"vthrcompi", "vthrcomp5", "vthrcomp", "modvthrcomp"} -> {"VthrComp"}
      [] c \in {"trim", "modtrim"} -> {"Vtrim"}
      [] c \in {"tune", "modtune"} -> {C!Gain, C!Offs}
      [] c \in {"oneroc", "bare"} -> {"Vana", "CalDel", "VthrComp", C!Gain, C!Offs}
      [] OTHER -> {}]

\* What commands leave behind, with one ROC and with two.
SingleLeaves ==
  [c \in Commands |->
    CASE c = "trim" -> {"CtrlReg", Trims}
      [] c \in {"modtrim", "oneroc", "bare"} -> {"CtrlReg"}
      [] c = "modtune" -> {"CtrlReg", C!Gain}
      [] c = "dacscanother" -> {"CalDel", "Vcal"}
      [] OTHER -> {}]
ModuleLeaves ==
  [c \in Commands |->
    CASE c = "select" -> {Trims}
      [] c = "trim" -> {"CtrlReg", "Vcal", "Vtrim", Trims, Pixels}
      [] c = "modtrim" -> {"CtrlReg"}
      [] c = "modtune" -> {"CtrlReg", "Vcal", C!Gain}
      [] c = "optiamod" -> {"Vana"}
      [] c = "calsdac" -> {"CtrlReg"}
      [] c = "effmask" -> {Trims, Pixels}
      [] OTHER -> {}]

\* At the prompt: the one ROC, addressed, or any.
OneSettled == {<<{0}, 0>>}
AnySettled == (SUBSET Rocs) \X (Rocs \cup {NoRoc})

\* Bound: beyond one register or ROC's trim bits that stay wrong no step is taken.  A step looks
\* at a register, or trim bits, only to change them, so several would not act on each other.
FewWrong == Cardinality(blamed) <= 1

-----------------------------------------------------------------------------
(* The outlines: at first there are the cases of the entry, then each step adds to those *)
(* after it what it leads to, until no case is new.  w.todo are the steps before which   *)
(* one is new; a sweep takes them up from the first to the last.                         *)

Like(a, b) == a.roclist = b.roclist /\ a.sel = b.sel /\ a.flag = b.flag /\ a.failed = b.failed
Join(a, b) ==
  [a EXCEPT !.dirty = @ \cup b.dirty, !.local = @ \cap b.local, !.moved = @ \cup b.moved,
            !.stale = @ \cup b.stale, !.armed = @ \cup b.armed, !.running = @ \cup b.running]
Insert(S, b) ==
  LET D == {d \in S : Like(d, b)}
  IN  IF D = {} THEN S \cup {b} ELSE (S \ D) \cup {Join(d, b) : d \in D}

Led(code, k, a) ==
  LET s == code[k]
      B == After(s, a)
      Place(t) == IF t > Len(code) THEN Len(code) + 1 ELSE t
      Fail == IF s.op \in Readings THEN {[b EXCEPT !.failed = TRUE] : b \in B} ELSE {}
  IN  {Place(t) : t \in Targets(s, k, a)} \X B \cup {Place(k + 1 + s.n)} \X Fail

Visit(code, w, k) ==
  LET led == UNION {Led(code, k, a) : a \in w.line[k]}
      Add(m, line) == [line EXCEPT ![m[1]] = Insert(@, m[2])]
      next == FoldSet(Add, w.line, led)
  IN  [line |-> next, todo |-> (w.todo \ {k}) \cup {m[1] : m \in {x \in led : next[x[1]] # w.line[x[1]]}}]

RECURSIVE Sweep(_, _, _, _), Flow(_, _)
Sweep(code, w, i, j) ==
  IF w.todo \cap i .. j = {} THEN w
  ELSE IF i = j THEN Visit(code, w, i)
  ELSE LET m == (i + j) \div 2 IN Sweep(code, Sweep(code, w, i, m), m + 1, j)
Flow(code, w) ==
  IF w.todo \subseteq {Len(code) + 1} THEN w.line ELSE Flow(code, Sweep(code, w, 1, Len(code)))

Outlines ==
  LET Nothing(code) == [k \in 1 .. Len(code) |-> {}]
      Found(code) ==
        Flow(code, [line |-> <<{Entry(p) : p \in Settled}>> \o Nothing(code), todo |-> {1}])
      With(c, outline) == (c :> Found(Code[c])) @@ outline
  IN  FoldSet(With, <<>>, Commands)
MCOutline == LET outline == Outlines IN outline
=============================================================================
