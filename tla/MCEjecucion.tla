---------------------------- MODULE MCEjecucion ----------------------------
(***************************************************************************)
(* Bytes of three values and words of two bytes; two sticks, three bytes;    *)
(* every pair of a few short programs, some of which do not fit together   *)
(* without a compaction.                                                   *)
(***************************************************************************)
EXTENDS Ejecucion

CONSTANTS c1, c2, p1, p2

MCCpus == {c1, c2}
MCPids == {p1, p2}
Simetria == Permutations(MCCpus) \cup Permutations(MCPids)

MCTamSticks == <<2, 1>>

I(op) == [op |-> op, r |-> "AX", s |-> "AX", v |-> 0, id |-> 0, tam |-> 0]
IReg(op, r) == [I(op) EXCEPT !.r = r]
IRegs(op, r, s) == [I(op) EXCEPT !.r = r, !.s = s]
IVal(op, r, v) == [I(op) EXCEPT !.r = r, !.v = v]
ISeg(op, id, tam) == [I(op) EXCEPT !.id = id, !.tam = tam]

\* A word is written, in one stick or over two, and read back after a wait; the
\* segment is used once more when it is no longer there.
Escribe == <<
  ISeg("MEM_ALLOC", 0, 2),
  IVal("SET", "EAX", 5),
  IReg("MOV_OUT", "EAX"),
  I("SLEEP"),
  IReg("MOV_IN", "EDX"),
  ISeg("MEM_FREE", 0, 0),
  IReg("MOV_OUT", "EAX") >>

\* A byte comes from the device (the PC is 1).
Lee == <<
  ISeg("MEM_ALLOC", 0, 1),
  IRegs("STDIN", "SI", "PC") >>

\* Two segments, one copied to the other and shown; the bytes of a new segment are
\* whatever was there.
Copia == <<
  ISeg("MEM_ALLOC", 0, 1),
  ISeg("MEM_ALLOC", 1, 1),
  IVal("SET", "BX", 1),
  IVal("SET", "DI", 4),
  IReg("COPY_MEM", "BX"),
  IRegs("STDOUT", "DI", "BX"),
  I("EXIT") >>

\* Accesses of nothing, segmentation faults, a segment that does not exist, one
\* that is too large.
FallaLeer == << IReg("COPY_MEM", "AX"), IRegs("STDOUT", "SI", "AX"), IReg("MOV_IN", "AX") >>
FallaCopiar ==
  << I("NOOP"), IVal("SET", "AX", 4), IRegs("SUB", "SI", "AX"), IReg("COPY_MEM", "AX") >>
FallaMostrar ==
  << IVal("SET", "AX", 1), IRegs("SUM", "AX", "AX"), IVal("JNZ", "AX", 4), I("EXIT"), IRegs("STDOUT", "SI", "AX") >>
FallaBorrar == << ISeg("MEM_FREE", 1, 0) >>
FallaCrear == << ISeg("MEM_ALLOC", 0, 5) >>

\* Sizes that make the sum of the MMU wrap.
Vuelta(ins) ==
  << ISeg("MEM_ALLOC", 0, 1), IVal("SET", "SI", 1), IVal("SET", "EBX", 8), ins >>
VueltaCopiar == Vuelta(IReg("COPY_MEM", "EBX"))
VueltaMostrar == Vuelta(IRegs("STDOUT", "SI", "EBX"))

MCProgramas == {Escribe, Lee, Copia, FallaLeer, FallaCopiar, FallaMostrar,
                FallaBorrar, FallaCrear, VueltaCopiar, VueltaMostrar}
=============================================================================
