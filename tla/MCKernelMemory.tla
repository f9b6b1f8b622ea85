--------------------------- MODULE MCKernelMemory ---------------------------
(***************************************************************************)
(* Small instances of KernelMemory for TLC.                                *)
(***************************************************************************)
EXTENDS KernelMemory

\* Bytes of each stick: four in all, split so that segments cross from one
\* stick to the other.
MCTamStick == [f \in Sticks |-> IF f = "f1" THEN 3 ELSE 1]

Simetria == Permutations(Pids)

\* What the properties can tell apart of the contents.  A byte or a block that
\* holds no written segment is never compared with anything and is overwritten
\* whole before it is, so two states that differ only there are the same; after
\* the loss of a stick or of the SWAP no property speaks of the contents.
BytesEscritos ==
  IF SinSticksCaidos /\ SwapSinCaidas
  THEN [p \in Pids |-> [k \in DOMAIN tabla[p] |->
          IF tabla[p][k].dato = Nada THEN <<>>
          ELSE MemoriaFisicaLeer(tabla[p][k].base, tabla[p][k].limite)]]
  ELSE <<>>

BloquesEscritos ==
  IF SinSticksCaidos /\ SwapSinCaidas
  THEN [b \in {c \in Bloques :
                 \E ss \in {copia} \cup {segmentos_swap[p] : p \in Pids} :
                   \E i \in DOMAIN ss : ss[i].dato # Nada /\ c \in ss[i].bloques}
          |-> disco[b]]
  ELSE <<>>

Vista ==
  <<allocation_best_fit, tablas, memVars, swapVars, pc, ksLocals, peers,
    BytesEscritos, BloquesEscritos>>
=============================================================================
