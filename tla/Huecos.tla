------------------------------- MODULE Huecos -------------------------------
(***************************************************************************)
(* The free list of the Kernel Memory (kernel_memory/src/huecos.c) as pure *)
(* operators.  A hole (t_hueco) is a record [base, tamanio]; lista_huecos  *)
(* is a sequence of holes whose order is the order of the C list: it is    *)
(* observable, because the fit searches keep the first best candidate and  *)
(* huecos_extender looks at the last element only.                         *)
(***************************************************************************)
EXTENDS Naturals, Sequences, SequencesExt

Hueco == [base : Nat, tamanio : Nat]

\* The NULL the two searches return when no hole is large enough.
SinHueco == 0

\* Two areas given by base and size share no address.
Disjuntas(b1, t1, b2, t2) ==
  \/ t1 = 0
  \/ t2 = 0
  \/ b1 + t1 <= b2
  \/ b2 + t2 <= b1

\* Address a lies in the area.
EnArea(a, b, t) == b <= a /\ a < b + t

Candidatos(hs, t) == {i \in DOMAIN hs : hs[i].tamanio >= t}

-----------------------------------------------------------------------------
\* Mutants: the search that does not compare with the requested size, the hole
\* that is cut without moving its base, the rebuilt hole one byte too short.
MutBuscarHuecoSinComparar(hs, t) == IF hs = <<>> THEN SinHueco ELSE 1

MutHuecoOcuparSinCorrer(hs, i, t) ==
  IF hs[i].tamanio = t
  THEN RemoveAt(hs, i)
  ELSE [hs EXCEPT ![i] = [base |-> hs[i].base, tamanio |-> hs[i].tamanio - t]]

MutHuecosReconstruirCorrido(base_libre, total) ==
  IF base_libre < total
  THEN << [base |-> base_libre + 1, tamanio |-> total - base_libre - 1] >>
  ELSE <<>>
-----------------------------------------------------------------------------
\* Hole i is what the loop of the search ends with: one of the smallest (or of
\* the largest) where t bytes fit and, of those, the first one.
EsBestFit(hs, t, i) ==
  \A j \in Candidatos(hs, t) :
    \/ hs[i].tamanio < hs[j].tamanio
    \/ hs[i].tamanio = hs[j].tamanio /\ i <= j

EsWorstFit(hs, t, i) ==
  \A j \in Candidatos(hs, t) :
    \/ hs[i].tamanio > hs[j].tamanio
    \/ hs[i].tamanio = hs[j].tamanio /\ i <= j

\* buscar_hueco_best_fit and buscar_hueco_worst_fit: a position in the list.
BuscarHuecoBestFit(hs, t) ==
  IF \E i \in Candidatos(hs, t) : EsBestFit(hs, t, i)
  THEN CHOOSE i \in Candidatos(hs, t) : EsBestFit(hs, t, i)
  ELSE SinHueco

BuscarHuecoWorstFit(hs, t) ==
  IF \E i \in Candidatos(hs, t) : EsWorstFit(hs, t, i)
  THEN CHOOSE i \in Candidatos(hs, t) : EsWorstFit(hs, t, i)
  ELSE SinHueco

\* buscar_hueco: the strategy of the configuration.
BuscarHueco(best, hs, t) ==
  IF best THEN BuscarHuecoBestFit(hs, t) ELSE BuscarHuecoWorstFit(hs, t)

\* hueco_ocupar: a hole used whole leaves the list, another one is cut at the
\* front.
HuecoOcupar(hs, i, t) ==
  IF hs[i].tamanio = t
  THEN RemoveAt(hs, i)
  ELSE [hs EXCEPT ![i] = [base    |-> hs[i].base + t,
                          tamanio |-> hs[i].tamanio - t]]

\* hueco_liberar: the freed area goes to the end, without coalescing.
HuecoLiberar(hs, b, t) == Append(hs, [base |-> b, tamanio |-> t])

\* huecos_extender: new memory is merged into the last hole only when that
\* hole ends exactly where the new memory starts.
HuecosExtender(hs, b, t) ==
  IF /\ hs # <<>>
     /\ hs[Len(hs)].base + hs[Len(hs)].tamanio = b
  THEN [hs EXCEPT ![Len(hs)] = [base    |-> hs[Len(hs)].base,
                                tamanio |-> hs[Len(hs)].tamanio + t]]
  ELSE Append(hs, [base |-> b, tamanio |-> t])

\* The sums of a loop that adds up a list of numbers: of the first k, for each k.
Sumas(a) ==
  LET s[k \in 0 .. Len(a)] == IF k = 0 THEN 0 ELSE s[k - 1] + a[k]
  IN  s

\* huecos_total_libre.
HuecosTotalLibre(hs) == Sumas([i \in DOMAIN hs |-> hs[i].tamanio])[Len(hs)]

\* huecos_reconstruir: after a compaction one hole holds all the free memory.
HuecosReconstruir(base_libre, total) ==
  IF base_libre < total
  THEN << [base |-> base_libre, tamanio |-> total - base_libre] >>
  ELSE <<>>
=============================================================================
