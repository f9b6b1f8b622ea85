----------------------------- MODULE Registros -----------------------------
(***************************************************************************)
(* The registers of a CPU (cpu/src/cpu.c) and what the instructions that   *)
(* touch nothing else do to them (cpu/src/instrucciones.c, execute in      *)
(* cpu/src/ciclo_instruccion.c).  A register of one byte and one of a word *)
(* wrap at their width; a word in memory has its low byte first.           *)
(***************************************************************************)
EXTENDS Integers, Sequences

CONSTANTS
  Byte,            \* values of a byte: 256 in the code
  BytesPalabra     \* bytes of a word: 4 in the code

ASSUME AnchosOK == Byte \in Nat \ {0, 1} /\ BytesPalabra \in Nat \ {0}

Palabra == Byte ^ BytesPalabra

Bytes == 0 .. Byte - 1
Palabras == 0 .. Palabra - 1

DeUnByte == {"AX", "BX", "CX", "DX"}
DeUnaPalabra == {"EAX", "EBX", "ECX", "EDX", "SI", "DI", "PC"}
Nombre == DeUnByte \cup DeUnaPalabra

\* inicializar_registros, and the memset of contexto_crear.
EnCero == [r \in Nombre |-> 0]

TamanioRegistro(r) == IF r \in DeUnByte THEN 1 ELSE BytesPalabra

\* Every register is a word.
MutSetear(regs, r, v) == [regs EXCEPT ![r] = v % Palabra]

\* setear_valor_registro: the cast to the width of the register.
Setear(regs, r, v) ==
  [regs EXCEPT ![r] = v % (IF r \in DeUnByte THEN Byte ELSE Palabra)]

Avanzar(regs) == Setear(regs, "PC", regs["PC"] + 1)

\* The low byte first.
EnBytes(v, n) == [i \in 1 .. n |-> (v \div Byte ^ (i - 1)) % Byte]

\* The value that the first n bytes of b make.
DeBytes(b) ==
  LET suma[i \in 0 .. Len(b)] ==
        IF i = 0 THEN 0 ELSE suma[i - 1] + b[i] * Byte ^ (i - 1)
  IN  suma[Len(b)]

\* Instructions without memory or syscall.  SET of PC is a jump: it is not
\* followed by PC++, as SUM, SUB and MOV_IN of PC are.
Comunes == {"NOOP", "SET", "SUM", "SUB", "JNZ"}

Comun(regs, i) ==
  CASE i.op = "NOOP" -> Avanzar(regs)
    [] i.op = "SET"  -> IF i.r = "PC" THEN Setear(regs, "PC", i.v)
                                      ELSE Avanzar(Setear(regs, i.r, i.v))
    [] i.op = "SUM"  -> Avanzar(Setear(regs, i.r, regs[i.r] + regs[i.s]))
    [] i.op = "SUB"  -> Avanzar(Setear(regs, i.r, regs[i.r] - regs[i.s]))
    [] i.op = "JNZ"  -> IF regs[i.r] # 0 THEN Setear(regs, "PC", i.v) ELSE Avanzar(regs)
=============================================================================
