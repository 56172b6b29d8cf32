------------------------- MODULE FirmwareHostProofs -------------------------
(***************************************************************************)
(* What the firmware build does inside DOS, beside the bus: the handlers   *)
(* of interrupts that CFGTSR and other programs hook and give back, the    *)
(* command CFGTSR types, the environment that start-up fills, and the      *)
(* exchange of start-up that is modelled byte by byte.                     *)
(*                                                                         *)
(* The chain of handlers, the layout of the environment and the frame are  *)
(* recursive functions.  That they exist, and what they return, is proved  *)
(* by induction over sets of numbers.                                      *)
(***************************************************************************)
EXTENDS FirmwareTypeProofs, WellFoundedInduction

-----------------------------------------------------------------------------
(* Induction.                                                              *)

(* A set of natural numbers that is not empty has a least element.         *)
LEMMA Smallest == ASSUME NEW S \in SUBSET Nat, S # {} PROVE \E n \in S : \A m \in S : n <= m
<1> DEFINE R == OpToRel(<, Nat)
<1>1. \A m, n \in Nat : m < n => <<m, n>> \in R
  BY DEF OpToRel
<1>2. IsWellFoundedOn(R, Nat)
  BY NatLessThanWellFounded
<1> HIDE DEF R
<1>3. PICK n \in S : \A m \in S : ~(<<m, n>> \in R)
  BY <1>2, WFMin
<1>4. ASSUME NEW m \in S PROVE n <= m
  <2>1. m \in Nat /\ n \in Nat /\ ~(m < n)
    BY <1>1, <1>3
  <2> QED
    BY <2>1
<1> QED
  BY <1>4

(* A set of natural numbers that has each number if it has all below it    *)
(* has all of them.                                                        *)
LEMMA AllNumbers ==
    ASSUME NEW S \in SUBSET Nat, \A n \in Nat : (\A m \in 0..(n - 1) : m \in S) => n \in S
    PROVE  S = Nat
<1> SUFFICES ASSUME Nat \ S # {} PROVE FALSE
  OBVIOUS
<1>1. PICK n \in Nat \ S : \A m \in Nat \ S : n <= m
  BY Smallest
<1>2. \A m \in 0..(n - 1) : m \in S
  <2>1. ASSUME NEW m \in 0..(n - 1) PROVE m \in S
    <3>1. m \in Nat /\ ~(n <= m)
      OBVIOUS
    <3> QED
      BY <1>1, <3>1
  <2> QED
    BY <2>1
<1> QED
  BY <1>1, <1>2

(* f is a function whose value at 0 is a and at n up to k is found from     *)
(* the one at p[n].                                                        *)
Solves(f, k, a, p, g) == f[0] = a /\ \A n \in 1..k : f[n] = g[n][f[p[n]]]
Solvable(k, V, a, p, g) == \E f \in [0..k -> V] : Solves(f, k, a, p, g)

(* If p[n] is below n there is one: one step more.                         *)
LEMMA OneMore ==
    ASSUME NEW N \in Nat, NEW V, NEW a \in V, NEW p \in [1..N -> Nat], \A n \in 1..N : p[n] < n,
           NEW g \in [1..N -> [V -> V]], NEW k \in 1..N, Solvable(k - 1, V, a, p, g)
    PROVE  Solvable(k, V, a, p, g)
<1>1. PICK f \in [0..(k - 1) -> V] : Solves(f, k - 1, a, p, g)
  BY DEF Solvable
<1>2. p[k] \in 0..(k - 1) /\ k # 0
  OBVIOUS
<1> DEFINE v == g[k][f[p[k]]]
           h == [i \in 0..k |-> IF i = k THEN v ELSE f[i]]
<1>3. v \in V
  BY <1>2
<1>4. h \in [0..k -> V] /\ h[k] = v /\ \A i \in 0..(k - 1) : h[i] = f[i]
  <2>1. \A i \in 0..k : i # k => i \in 0..(k - 1)
    OBVIOUS
  <2> HIDE DEF v
  <2> QED
    BY <1>3, <2>1
<1> HIDE DEF h
<1>5. h[k] = g[k][h[p[k]]]
  BY <1>2, <1>4
<1>6. ASSUME NEW n \in 1..(k - 1) PROVE h[n] = g[n][h[p[n]]]
  <2>1. n \in 1..N /\ p[n] \in 0..(k - 1) /\ n \in 0..(k - 1)
    OBVIOUS
  <2>2. f[n] = g[n][f[p[n]]]
    BY <1>1 DEF Solves
  <2> QED
    BY <1>4, <2>1, <2>2
<1>7. h[0] = a
  BY <1>1, <1>2, <1>4 DEF Solves
<1>8. ASSUME NEW n \in 1..k PROVE h[n] = g[n][h[p[n]]]
  <2>1. n = k \/ n \in 1..(k - 1)
    OBVIOUS
  <2> QED
    BY <1>5, <1>6, <2>1
<1>9. Solves(h, k, a, p, g)
  BY <1>7, <1>8 DEF Solves
<1> QED
  BY <1>4, <1>9 DEF Solvable

(* A function that takes its value at n from that at p[n], below n, exists. *)
LEMMA Recursion ==
    ASSUME NEW N \in Nat, NEW V, NEW a \in V, NEW p \in [1..N -> Nat], \A n \in 1..N : p[n] < n,
           NEW g \in [1..N -> [V -> V]]
    PROVE  Solvable(N, V, a, p, g)
<1> DEFINE S == {k \in Nat : k <= N => Solvable(k, V, a, p, g)}
<1>1. ASSUME NEW k \in Nat, \A m \in 0..(k - 1) : m \in S PROVE k \in S
  <2> SUFFICES ASSUME k <= N PROVE Solvable(k, V, a, p, g)
    OBVIOUS
  <2>1. CASE k = 0
    <3> DEFINE f == [i \in 0..k |-> a]
    <3>1. f \in [0..k -> V] /\ f[0] = a
      OBVIOUS
    <3>2. Solves(f, k, a, p, g)
      BY <2>1, <3>1 DEF Solves
    <3> QED
      BY <3>1, <3>2 DEF Solvable
  <2>2. CASE k > 0
    <3>1. k - 1 \in 0..(k - 1) /\ k - 1 <= N /\ k \in 1..N
      BY <2>2
    <3>2. Solvable(k - 1, V, a, p, g)
      BY <1>1, <3>1
    <3> QED
      BY <3>1, <3>2, OneMore
  <2> QED
    BY <2>1, <2>2
<1>2. S = Nat
  <2>1. S \in SUBSET Nat
    OBVIOUS
  <2> HIDE DEF S
  <2> QED
    BY <1>1, <2>1, AllNumbers
<1> QED
  BY <1>2

-----------------------------------------------------------------------------
(* The chain of handlers.                                                  *)

Handlers == [kind : {"cfgtsr", "other"}, saved : Nat, there : BOOLEAN]
Linked(P) == P \in Seq(Handlers) /\ \A i \in 1..Len(P) : P[i].saved < i

IsBelow(P, f) == f = [n \in 0..Len(P) |-> IF n = 0 THEN {} ELSE {n} \cup f[P[n].saved]]
Below(P) == CHOOSE f : IsBelow(P, f)

(* Chain, of which the hooked vectors consist, as a function of the programs. *)
LEMMA ChainIsBelow == Chain = Below(programs)[vector] /\ Chain' = Below(programs')[vector']
BY DEF Chain, Below, IsBelow

(* Every handler with those it leads to.                                   *)
LEMMA BelowIs ==
    ASSUME NEW P, Linked(P)
    PROVE  /\ Below(P)[0] = {}
           /\ \A n \in 1..Len(P) : Below(P)[n] = {n} \cup Below(P)[P[n].saved]
<1> DEFINE N == Len(P)
           V == SUBSET Nat
           p == [n \in 1..N |-> P[n].saved]
           g == [n \in 1..N |-> [v \in V |-> {n} \cup v]]
<1>1. N \in Nat /\ \A n \in 1..N : P[n].saved \in Nat /\ P[n].saved < n
  <2>1. N \in Nat /\ \A n \in 1..N : P[n] \in Handlers
    BY ElementOf DEF Linked
  <2> QED
    BY <2>1 DEF Linked, Handlers
<1>2. Solvable(N, V, {}, p, g)
  <2>1. p \in [1..N -> Nat] /\ \A n \in 1..N : p[n] < n
    BY <1>1
  <2>2. {} \in V /\ g \in [1..N -> [V -> V]]
    <3>1. \A n \in 1..N, v \in V : {n} \cup v \in V
      OBVIOUS
    <3>2. \A n \in 1..N : [v \in V |-> {n} \cup v] \in [V -> V]
      BY <3>1
    <3> HIDE DEF V
    <3>3. g \in [1..N -> [V -> V]]
      BY <3>2
    <3> QED
      BY <3>3 DEF V
  <2> HIDE DEF N, V, p, g
  <2> QED
    BY <1>1, <2>1, <2>2, Recursion
<1>3. PICK f \in [0..N -> V] : Solves(f, N, {}, p, g)
  BY <1>2 DEF Solvable
<1>4. IsBelow(P, f)
  <2>1. ASSUME NEW n \in 0..N PROVE f[n] = IF n = 0 THEN {} ELSE {n} \cup f[P[n].saved]
    <3>1. CASE n = 0
      BY <1>3, <3>1 DEF Solves
    <3>2. CASE n # 0
      <4>1. n \in 1..N /\ P[n].saved \in 0..N
        BY <1>1, <3>2
      <4>2. f[P[n].saved] \in V
        BY <4>1
      <4>3. f[n] = g[n][f[p[n]]]
        BY <1>3, <4>1 DEF Solves
      <4> QED
        BY <3>2, <4>1, <4>2, <4>3
    <3> QED
      BY <3>1, <3>2
  <2>2. f = [n \in 0..N |-> f[n]]
    OBVIOUS
  <2> QED
    BY <2>1, <2>2 DEF IsBelow
<1>5. IsBelow(P, Below(P))
  BY <1>4 DEF Below
<1> HIDE DEF p, g, V
<1>6. ASSUME NEW b, b = Below(P) PROVE b[0] = {} /\ \A n \in 1..N : b[n] = {n} \cup b[P[n].saved]
  <2>1. b = [n \in 0..N |-> IF n = 0 THEN {} ELSE {n} \cup b[P[n].saved]]
    BY <1>5, <1>6 DEF IsBelow
  <2> QED
    BY <1>1, <2>1
<1> QED
  BY <1>6

(* A handler leads only to itself and to older ones, and to all they lead to. *)
LEMMA BelowDown ==
    ASSUME NEW P, Linked(P)
    PROVE  /\ \A n \in 0..Len(P) : Below(P)[n] \subseteq 1..n
           /\ \A n \in 0..Len(P) : \A i \in Below(P)[n] : Below(P)[P[i].saved] \subseteq Below(P)[n] \ {i}
<1> DEFINE N == Len(P)
           b == Below(P)
           S == {n \in Nat : n <= N => b[n] \subseteq 1..n /\ \A i \in b[n] : b[P[i].saved] \subseteq b[n] \ {i}}
<1>1. /\ b[0] = {} /\ \A n \in 1..N : b[n] = {n} \cup b[P[n].saved]
      /\ N \in Nat /\ \A n \in 1..N : P[n].saved \in 0..(n - 1)
  <2>1. N \in Nat /\ \A n \in 1..N : P[n] \in Handlers
    BY ElementOf DEF Linked
  <2> QED
    BY <2>1, BelowIs DEF Linked, Handlers
<1> HIDE DEF b
<1>2. ASSUME NEW n \in Nat, \A m \in 0..(n - 1) : m \in S PROVE n \in S
  <2> SUFFICES ASSUME n <= N
               PROVE  b[n] \subseteq 1..n /\ \A i \in b[n] : b[P[i].saved] \subseteq b[n] \ {i}
    OBVIOUS
  <2>1. CASE n = 0
    BY <1>1, <2>1
  <2>2. CASE n # 0
    <3>1. n \in 1..N
      BY <2>2
    <3> DEFINE s == P[n].saved
    <3>2. s \in 0..(n - 1) /\ b[n] = {n} \cup b[s]
      BY <1>1, <3>1
    <3>3. s <= N /\ s \in S
      BY <1>2, <3>1, <3>2
    <3>4. b[s] \subseteq 1..s /\ \A i \in b[s] : b[P[i].saved] \subseteq b[s] \ {i}
      BY <3>3
    <3> HIDE DEF s
    <3>5. b[n] \subseteq 1..n /\ n \notin b[s]
      BY <3>2, <3>4
    <3>6. ASSUME NEW i \in b[n] PROVE b[P[i].saved] \subseteq b[n] \ {i}
      <4>1. CASE i = n
        BY <3>2, <3>5, <4>1 DEF s
      <4>2. CASE i # n
        BY <3>2, <3>4, <4>2
      <4> QED
        BY <4>1, <4>2
    <3> QED
      BY <3>5, <3>6
  <2> QED
    BY <2>1, <2>2
<1>3. S = Nat
  <2>1. S \in SUBSET Nat
    OBVIOUS
  <2> HIDE DEF S
  <2> QED
    BY <1>2, <2>1, AllNumbers
<1>4. \A n \in 0..N : b[n] \subseteq 1..n /\ \A i \in b[n] : b[P[i].saved] \subseteq b[n] \ {i}
  BY <1>1, <1>3
<1> QED
  BY <1>4 DEF b

(* What a handler leads to is up to those that were there before it.       *)
LEMMA BelowSame ==
    ASSUME NEW P, NEW Q, Linked(P), Linked(Q), Len(P) <= Len(Q),
           \A i \in 1..Len(P) : Q[i].saved = P[i].saved
    PROVE  \A n \in 0..Len(P) : Below(Q)[n] = Below(P)[n]
<1> DEFINE N == Len(P)
           b == Below(P)
           c == Below(Q)
           S == {n \in Nat : n <= N => c[n] = b[n]}
<1>1. /\ N \in Nat /\ Len(Q) \in Nat /\ N <= Len(Q)
      /\ \A n \in 1..N : Q[n].saved = P[n].saved /\ P[n].saved \in 0..(n - 1)
  <2>1. N \in Nat /\ \A n \in 1..N : P[n] \in Handlers
    BY ElementOf DEF Linked
  <2>2. Len(Q) \in Nat
    BY ElementOf DEF Linked
  <2> QED
    BY <2>1, <2>2 DEF Linked, Handlers
<1>2. /\ b[0] = {} /\ \A n \in 1..N : b[n] = {n} \cup b[P[n].saved]
      /\ c[0] = {} /\ \A n \in 1..N : c[n] = {n} \cup c[Q[n].saved]
  BY <1>1, BelowIs
<1> HIDE DEF b, c
<1>3. ASSUME NEW n \in Nat, \A m \in 0..(n - 1) : m \in S PROVE n \in S
  <2> SUFFICES ASSUME n <= N PROVE c[n] = b[n]
    OBVIOUS
  <2>1. CASE n = 0
    BY <1>2, <2>1
  <2>2. CASE n # 0
    <3>1. n \in 1..N /\ P[n].saved \in 0..(n - 1) /\ P[n].saved <= N
      BY <1>1, <2>2
    <3>2. c[P[n].saved] = b[P[n].saved]
      BY <1>3, <3>1
    <3>3. c[n] = {n} \cup c[Q[n].saved] /\ b[n] = {n} \cup b[P[n].saved] /\ Q[n].saved = P[n].saved
      BY <1>1, <1>2, <3>1
    <3> QED
      BY <3>2, <3>3
  <2> QED
    BY <2>1, <2>2
<1>4. S = Nat
  <2>1. S \in SUBSET Nat
    OBVIOUS
  <2> HIDE DEF S
  <2> QED
    BY <1>3, <2>1, AllNumbers
<1>5. \A n \in 0..N : c[n] = b[n]
  BY <1>1, <1>4
<1> QED
  BY <1>5 DEF b, c

-----------------------------------------------------------------------------
(* What a program that comes or goes does to the chain.                    *)

ChainInv ==
    /\ Linked(programs) /\ vector \in 0..Len(programs)
    /\ \A i, j \in Installed : i = j
    /\ VectorsLive

(* A program loads: it is in front, and leads to the chain as it was.      *)
LEMMA LoadedChain ==
    ASSUME ChainInv, NEW kind \in {"cfgtsr", "other"}, programs' = Loaded(kind), vector' = Len(programs')
    PROVE  /\ Linked(programs') /\ vector' = Len(programs) + 1 /\ vector' = Len(programs')
           /\ Chain' = {vector'} \cup Chain /\ Chain \subseteq 1..Len(programs)
           /\ programs'[vector'].kind = kind /\ programs'[vector'].there
           /\ \A i \in 1..Len(programs) : programs'[i] = programs[i]
<1> DEFINE new == [kind |-> kind, saved |-> vector, there |-> TRUE]
           N == Len(programs)
<1>1. /\ programs \in Seq(Handlers) /\ N \in Nat /\ vector \in 0..N /\ programs' = Append(programs, new)
      /\ \A i \in 1..N : programs[i] \in Handlers /\ programs[i].saved < i
  BY ElementOf DEF ChainInv, Linked, Loaded
<1>2. new \in Handlers
  BY <1>1 DEF Handlers
<1>3. /\ programs' \in Seq(Handlers) /\ Len(programs') = N + 1
      /\ programs'[N + 1] = new /\ \A i \in 1..N : programs'[i] = programs[i]
  <2> HIDE DEF new
  <2> QED
    BY <1>1, <1>2
<1>4. new.saved = vector /\ new.kind = kind /\ new.there
  OBVIOUS
<1> HIDE DEF new
<1>5. Linked(programs')
  <2>1. ASSUME NEW i \in 1..(N + 1) PROVE programs'[i].saved < i
    <3>1. i = N + 1 \/ i \in 1..N
      BY <1>1
    <3> QED
      BY <1>1, <1>3, <1>4, <3>1
  <2> QED
    BY <1>3, <2>1 DEF Linked
<1>6. \A n \in 0..N : Below(programs')[n] = Below(programs)[n]
  <2>1. Linked(programs) /\ N <= Len(programs')
    BY <1>1, <1>3 DEF ChainInv
  <2>2. \A i \in 1..N : programs'[i].saved = programs[i].saved
    BY <1>3
  <2> QED
    BY <1>5, <2>1, <2>2, BelowSame
<1>7. Below(programs')[N + 1] = {N + 1} \cup Below(programs')[vector]
  <2>1. N + 1 \in 1..Len(programs') /\ programs'[N + 1].saved = vector
    BY <1>1, <1>3, <1>4
  <2>2. Below(programs')[N + 1] = {N + 1} \cup Below(programs')[programs'[N + 1].saved]
    BY <1>5, <2>1, BelowIs
  <2> QED
    BY <2>1, <2>2
<1>8. Chain' = Below(programs')[N + 1] /\ Chain = Below(programs)[vector]
  BY <1>3, ChainIsBelow
<1>9. Chain \subseteq 1..N
  <2>1. Below(programs)[vector] \subseteq 1..vector
    BY <1>1, BelowDown DEF ChainInv
  <2> QED
    BY <1>1, <1>8, <2>1
<1> QED
  BY <1>1, <1>3, <1>4, <1>5, <1>6, <1>7, <1>8, <1>9

(* A program of the chain goes, and with it what came after it.            *)
LEMMA UnhookedChain ==
    ASSUME ChainInv, NEW i \in Chain, programs' = Removed(i), vector' = programs[i].saved
    PROVE  /\ Linked(programs') /\ vector' \in 0..Len(programs')
           /\ Chain' \subseteq Chain \ {i}
           /\ \A j \in 1..Len(programs) : /\ programs'[j].kind = programs[j].kind
                                          /\ j # i => programs'[j] = programs[j]
<1> DEFINE N == Len(programs)
<1>1. /\ programs \in Seq(Handlers) /\ N \in Nat /\ vector \in 0..N
      /\ \A j \in 1..N : programs[j] \in Handlers /\ programs[j].saved < j
  BY ElementOf DEF ChainInv, Linked
<1>2. Chain = Below(programs)[vector] /\ Chain \subseteq 1..N
  <2>1. Below(programs)[vector] \subseteq 1..vector
    BY <1>1, BelowDown DEF ChainInv
  <2> QED
    BY <1>1, <2>1, ChainIsBelow
<1>3. /\ programs' = [programs EXCEPT ![i].there = FALSE] /\ i \in 1..N
      /\ DOMAIN programs = 1..N /\ programs[i] \in Handlers
  BY <1>1, <1>2, ElementOf DEF Removed
<1>4. /\ DOMAIN programs' = 1..N
      /\ programs'[i] = [programs[i] EXCEPT !.there = FALSE]
      /\ \A j \in 1..N : j # i => programs'[j] = programs[j]
      /\ programs' = [j \in 1..N |-> programs'[j]]
  BY <1>3
<1>5. programs'[i] \in Handlers /\ programs'[i].saved = programs[i].saved /\ programs'[i].kind = programs[i].kind
  BY <1>3, <1>4 DEF Handlers
<1>6. programs' \in Seq(Handlers) /\ Len(programs') = N
  <2>1. programs' \in [1..N -> Handlers]
    BY <1>1, <1>4, <1>5
  <2> QED
    BY <1>1, <2>1, FunctionSeq
<1>7. \A j \in 1..N : programs'[j].saved = programs[j].saved /\ programs'[j].kind = programs[j].kind
  BY <1>4, <1>5
<1>8. Linked(programs')
  BY <1>1, <1>6, <1>7 DEF Linked
<1>9. \A n \in 0..N : Below(programs')[n] = Below(programs)[n]
  BY <1>1, <1>6, <1>7, <1>8, BelowSame DEF ChainInv
<1>10. programs[i].saved \in 0..N
  BY <1>1, <1>3 DEF Handlers
<1>11. Chain' = Below(programs)[programs[i].saved]
  BY <1>9, <1>10, ChainIsBelow
<1>12. Below(programs)[programs[i].saved] \subseteq Below(programs)[vector] \ {i}
  BY <1>1, <1>2, BelowDown DEF ChainInv
<1> QED
  BY <1>2, <1>4, <1>6, <1>7, <1>8, <1>10, <1>11, <1>12

(* Nothing of the chain changes. *)
LEMMA ChainUntouched ==
    ASSUME ChainInv, UNCHANGED <<programs, vector>>
    PROVE  ChainInv' /\ Installed' = Installed
<1>1. Chain' = Chain
  BY ChainIsBelow
<1>2. Installed' = Installed
  BY <1>1 DEF Installed
<1> QED
  BY <1>1, <1>2 DEF ChainInv, Linked, VectorsLive

(* A program is loaded.                                                    *)
LEMMA ChainLoads ==
    ASSUME ChainInv, NEW kind \in {"cfgtsr", "other"}, kind = "cfgtsr" => Installed = {},
           programs' = Loaded(kind), vector' = Len(programs')
    PROVE  ChainInv' /\ (kind = "other" => Installed' = Installed)
<1>1. /\ Linked(programs') /\ vector' = Len(programs) + 1 /\ vector' = Len(programs')
      /\ Chain' = {vector'} \cup Chain /\ Chain \subseteq 1..Len(programs)
      /\ programs'[vector'].kind = kind /\ programs'[vector'].there
      /\ \A i \in 1..Len(programs) : programs'[i] = programs[i]
  BY LoadedChain
<1>2. Len(programs) \in Nat
  BY ElementOf DEF ChainInv, Linked
<1>3. VectorsLive'
  BY <1>1 DEF ChainInv, VectorsLive
<1>4. Installed' = Installed \cup (IF kind = "cfgtsr" THEN {vector'} ELSE {})
  BY <1>1 DEF Installed
<1>5. \A i, j \in Installed' : i = j
  BY <1>4 DEF ChainInv
<1> QED
  BY <1>1, <1>2, <1>3, <1>4, <1>5 DEF ChainInv

(* A program of the chain takes its hooks back.                            *)
LEMMA ChainUnhooks ==
    ASSUME ChainInv, NEW i \in Chain, programs' = Removed(i), vector' = programs[i].saved
    PROVE  ChainInv' /\ Installed' \subseteq Installed \ {i}
<1>1. /\ Linked(programs') /\ vector' \in 0..Len(programs')
      /\ Chain' \subseteq Chain \ {i}
      /\ \A j \in 1..Len(programs) : /\ programs'[j].kind = programs[j].kind
                                     /\ j # i => programs'[j] = programs[j]
  BY UnhookedChain
<1>2. Chain \subseteq 1..Len(programs)
  <2>1. vector \in 0..Len(programs) /\ Len(programs) \in Nat /\ Linked(programs)
    BY ElementOf DEF ChainInv, Linked
  <2>2. Below(programs)[vector] \subseteq 1..vector
    BY <2>1, BelowDown
  <2> QED
    BY <2>1, <2>2, ChainIsBelow
<1>3. VectorsLive'
  BY <1>1, <1>2 DEF ChainInv, VectorsLive
<1>4. Installed' \subseteq Installed \ {i}
  BY <1>1, <1>2 DEF Installed
<1> QED
  BY <1>1, <1>3, <1>4 DEF ChainInv

(* Nothing is loaded at first.                                             *)
LEMMA InitChain == Init => ChainInv
<1> SUFFICES ASSUME Init PROVE ChainInv
  OBVIOUS
<1>1. programs = << >> /\ vector = 0
  BY DEF Init
<1>2. Linked(programs) /\ Len(programs) = 0
  BY <1>1 DEF Linked
<1>3. Chain = {}
  BY <1>1, <1>2, ChainIsBelow, BelowIs
<1> QED
  BY <1>1, <1>2, <1>3 DEF ChainInv, Installed, VectorsLive

(* Every step keeps the chain.                                             *)
LEMMA StepChain == ChainInv /\ [Next]_vars => ChainInv'
<1> SUFFICES ASSUME ChainInv, [Next]_vars PROVE ChainInv'
  OBVIOUS
<1>1. CASE UNCHANGED hotkey
  BY <1>1, ChainUntouched DEF hotkey
<1>2. CASE Keyboard
  <2>1. CASE UNCHANGED <<programs, vector>>
    BY <2>1, ChainUntouched
  <2>2. CASE \E drive : Install(drive)
    BY <2>2, ChainLoads DEF Install
  <2>3. CASE Uninstall
    <3>1. PICK i \in Installed : Unhook(i)
      BY <2>3 DEF Uninstall
    <3> QED
      BY <3>1, ChainUnhooks DEF Unhook, Installed
  <2>4. CASE OtherLoads
    BY <2>4, ChainLoads DEF OtherLoads
  <2>5. CASE OtherGoes
    <3>1. vector \in Chain
      <4>1. vector \in 1..Len(programs) /\ Linked(programs)
        BY <2>5 DEF OtherGoes, ChainInv
      <4> QED
        BY <4>1, BelowIs, ChainIsBelow
    <3> QED
      BY <2>5, <3>1, ChainUnhooks DEF OtherGoes
  <2> QED
    BY <1>2, <2>1, <2>2, <2>3, <2>4, <2>5
    DEF Keyboard, Typing, Press, PressHotkey, DosReads, ShowMenu, IdleStuffs, Loading, Menu, Choose
<1> QED
  BY <1>1, <1>2 DEF Next, Start, Configure, Version, Clock, vars

(* Interrupts never lead into memory that was freed (VectorsLive), however *)
(* many programs come and go, in whatever order.                           *)
THEOREM InterruptsLive == Spec => []VectorsLive
<1>1. ChainInv => VectorsLive
  BY DEF ChainInv
<1> QED
  BY <1>1, InitChain, StepChain, PTL DEF Spec

-----------------------------------------------------------------------------
(* The command CFGTSR types.                                               *)

(* Sequences: the elements of one joined from two, and of a part.          *)
LEMMA Joining ==
    ASSUME NEW T, NEW a \in Seq(T), NEW b \in Seq(T)
    PROVE  /\ a \o b \in Seq(T) /\ Len(a \o b) = Len(a) + Len(b) /\ Len(a) \in Nat /\ Len(b) \in Nat
           /\ \A i \in 1..Len(a) : (a \o b)[i] = a[i]
           /\ \A i \in 1..Len(b) : (a \o b)[Len(a) + i] = b[i]
           /\ DOMAIN (a \o b) = 1..(Len(a) + Len(b))
<1>1. a \o b \in Seq(T) /\ Len(a \o b) = Len(a) + Len(b) /\ Len(a) \in Nat /\ Len(b) \in Nat
  OBVIOUS
<1>2. \A i \in 1..Len(a) : (a \o b)[i] = a[i]
  OBVIOUS
<1>3. ASSUME NEW i \in 1..Len(b) PROVE (a \o b)[Len(a) + i] = b[i]
  <2>1. Len(a) + i \in 1..(Len(a) + Len(b)) /\ Len(a) + i > Len(a) /\ Len(a) + i - Len(a) = i
    BY <1>1
  <2> QED
    BY <2>1
<1> QED
  BY <1>1, <1>2, <1>3

(* Sequences are the same if their elements are; parts of a sequence.      *)
LEMMA SameSeq ==
    ASSUME NEW T, NEW a \in Seq(T), NEW b \in Seq(T), Len(a) = Len(b), \A i \in 1..Len(a) : a[i] = b[i]
    PROVE  a = b
OBVIOUS

LEMMA Parted ==
    ASSUME NEW T, NEW l \in Seq(T), NEW m \in Nat, NEW n \in Nat, m + n <= Len(l)
    PROVE  /\ SubSeq(l, m + 1, m + n) \in Seq(T) /\ Len(SubSeq(l, m + 1, m + n)) = n
           /\ \A i \in 1..n : SubSeq(l, m + 1, m + n)[i] = l[m + i]
OBVIOUS

LEMMA PartOf ==
    ASSUME NEW T, NEW l \in Seq(T), NEW m \in Nat, NEW n \in Nat, m + n <= Len(l)
    PROVE  SubSeq(l, 1, m) \o SubSeq(l, m + 1, m + n) = SubSeq(l, 1, m + n)
<1> DEFINE a == SubSeq(l, 1, m)
           b == SubSeq(l, m + 1, m + n)
           c == SubSeq(l, 1, m + n)
<1>1. a \in Seq(T) /\ Len(a) = m /\ \A i \in 1..m : a[i] = l[i]
  <2>1. m \in 0..Len(l)
    BY ElementOf
  <2> QED
    BY <2>1, FirstOf
<1>2. b \in Seq(T) /\ Len(b) = n /\ \A i \in 1..n : b[i] = l[m + i]
  BY Parted
<1>3. c \in Seq(T) /\ Len(c) = m + n /\ \A i \in 1..(m + n) : c[i] = l[i]
  <2>1. m + n \in 0..Len(l)
    BY ElementOf
  <2> QED
    BY <2>1, FirstOf
<1> HIDE DEF a, b, c
<1>4. /\ a \o b \in Seq(T) /\ Len(a \o b) = m + n
      /\ \A i \in 1..m : (a \o b)[i] = a[i]
      /\ \A i \in 1..n : (a \o b)[m + i] = b[i]
  <2>1. a \in Seq(T) /\ b \in Seq(T) /\ Len(a) = m /\ Len(b) = n
    BY <1>1, <1>2
  <2>2. /\ a \o b \in Seq(T) /\ Len(a \o b) = Len(a) + Len(b)
        /\ \A i \in 1..Len(a) : (a \o b)[i] = a[i]
        /\ \A i \in 1..Len(b) : (a \o b)[Len(a) + i] = b[i]
    BY <2>1, Joining
  <2> QED
    BY <2>1, <2>2
<1>5. ASSUME NEW i \in 1..(m + n) PROVE (a \o b)[i] = c[i]
  <2>1. CASE i \in 1..m
    BY <1>1, <1>3, <1>4, <2>1
  <2>2. CASE i \notin 1..m
    <3>1. i - m \in 1..n /\ m + (i - m) = i
      BY <2>2
    <3>2. (a \o b)[m + (i - m)] = b[i - m] /\ b[i - m] = l[m + (i - m)]
      BY <1>2, <1>4, <3>1
    <3> QED
      BY <1>3, <3>1, <3>2
  <2> QED
    BY <2>1, <2>2
<1>6. a \o b = c
  BY <1>3, <1>4, <1>5, SameSeq
<1> QED
  BY <1>6 DEF a, b, c

Associates(a, b, c) == (a \o b) \o c = a \o (b \o c)

(* Joining sequences is associative.                                       *)
LEMMA JoinTwice ==
    ASSUME NEW T, NEW a \in Seq(T), NEW b \in Seq(T), NEW c \in Seq(T)
    PROVE  Associates(a, b, c)
<1> DEFINE ab == a \o b
           bc == b \o c
           l == ab \o c
           r == a \o bc
<1>1. /\ ab \in Seq(T) /\ Len(ab) = Len(a) + Len(b) /\ Len(a) \in Nat /\ Len(b) \in Nat /\ Len(c) \in Nat
      /\ \A i \in 1..Len(a) : ab[i] = a[i]
      /\ \A i \in 1..Len(b) : ab[Len(a) + i] = b[i]
  BY Joining
<1>2. /\ bc \in Seq(T) /\ Len(bc) = Len(b) + Len(c)
      /\ \A i \in 1..Len(b) : bc[i] = b[i]
      /\ \A i \in 1..Len(c) : bc[Len(b) + i] = c[i]
  BY Joining
<1> HIDE DEF ab, bc
<1>3. /\ l \in Seq(T) /\ Len(l) = Len(a) + Len(b) + Len(c)
      /\ \A i \in 1..(Len(a) + Len(b)) : l[i] = ab[i]
      /\ \A i \in 1..Len(c) : l[Len(a) + Len(b) + i] = c[i]
  <2>0. ab \in Seq(T)
    BY <1>1
  <2>1. /\ l \in Seq(T) /\ Len(l) = Len(ab) + Len(c)
        /\ \A i \in 1..Len(ab) : l[i] = ab[i]
        /\ \A i \in 1..Len(c) : l[Len(ab) + i] = c[i]
    BY <2>0, Joining
  <2> HIDE DEF l
  <2> QED
    BY <1>1, <2>1
<1>4. /\ r \in Seq(T) /\ Len(r) = Len(a) + (Len(b) + Len(c))
      /\ \A i \in 1..Len(a) : r[i] = a[i]
      /\ \A i \in 1..(Len(b) + Len(c)) : r[Len(a) + i] = bc[i]
  <2>0. bc \in Seq(T)
    BY <1>2
  <2>1. /\ r \in Seq(T) /\ Len(r) = Len(a) + Len(bc)
        /\ \A i \in 1..Len(a) : r[i] = a[i]
        /\ \A i \in 1..Len(bc) : r[Len(a) + i] = bc[i]
    BY <2>0, Joining
  <2> HIDE DEF r
  <2> QED
    BY <1>2, <2>1
<1> HIDE DEF l, r
<1>5. ASSUME NEW i \in 1..Len(l) PROVE l[i] = r[i]
  <2>1. CASE i <= Len(a)
    <3>1. i \in 1..Len(a) /\ i \in 1..(Len(a) + Len(b))
      BY <1>1, <1>3, <2>1
    <3> QED
      BY <1>1, <1>3, <1>4, <3>1
  <2>2. CASE i > Len(a) /\ i <= Len(a) + Len(b)
    <3> DEFINE j == i - Len(a)
    <3>1. j \in 1..Len(b) /\ j \in 1..(Len(b) + Len(c)) /\ Len(a) + j = i /\ i \in 1..(Len(a) + Len(b))
      BY <1>1, <1>3, <2>2
    <3> HIDE DEF j
    <3>2. l[i] = ab[i] /\ ab[Len(a) + j] = b[j] /\ r[Len(a) + j] = bc[j] /\ bc[j] = b[j]
      BY <1>1, <1>2, <1>3, <1>4, <3>1
    <3> QED
      BY <3>1, <3>2
  <2>3. CASE i > Len(a) + Len(b)
    <3> DEFINE j == i - (Len(a) + Len(b))
    <3>1. /\ j \in 1..Len(c) /\ Len(a) + Len(b) + j = i
          /\ Len(b) + j \in 1..(Len(b) + Len(c)) /\ Len(a) + (Len(b) + j) = i
      BY <1>1, <1>3, <2>3
    <3> HIDE DEF j
    <3>2. l[Len(a) + Len(b) + j] = c[j] /\ r[Len(a) + (Len(b) + j)] = bc[Len(b) + j] /\ bc[Len(b) + j] = c[j]
      BY <1>2, <1>3, <1>4, <3>1
    <3> QED
      BY <3>1, <3>2
  <2> QED
    BY <1>1, <1>3, <2>1, <2>2, <2>3
<1>6. l = r
  <2>1. Len(l) = Len(r)
    BY <1>1, <1>3, <1>4
  <2> QED
    BY <1>3, <1>4, <1>5, <2>1, SameSeq
<1> QED
  BY <1>6 DEF l, r, ab, bc, Associates

(* Nothing joined on either side.                                          *)
LEMMA JoinNothing == ASSUME NEW T, NEW a \in Seq(T) PROVE << >> \o a = a \o << >>
<1> DEFINE e == << >>
           l == e \o a
           r == a \o e
<1>1. e \in Seq(T) /\ Len(e) = 0 /\ Len(a) \in Nat
  OBVIOUS
<1> HIDE DEF e
<1>2. l \in Seq(T) /\ Len(l) = Len(e) + Len(a) /\ \A i \in 1..Len(a) : l[Len(e) + i] = a[i]
  BY <1>1, Joining
<1>3. r \in Seq(T) /\ Len(r) = Len(a) + Len(e) /\ \A i \in 1..Len(a) : r[i] = a[i]
  BY <1>1, Joining
<1> HIDE DEF l, r
<1>4. \A i \in 1..Len(a) : 0 + i = i
  OBVIOUS
<1>5. Len(l) = Len(r) /\ Len(l) = Len(a) /\ \A i \in 1..Len(a) : l[i] = r[i]
  BY <1>1, <1>2, <1>3, <1>4
<1>6. l = r
  BY <1>2, <1>3, <1>5, SameSeq
<1> QED
  BY <1>6 DEF l, r, e

(* A key read moves from the buffer's front to the end of what was read.   *)
LEMMA KeyRead ==
    ASSUME NEW T, NEW r \in Seq(T), NEW k \in Seq(T), k # << >>
    PROVE  /\ Append(r, Head(k)) \in Seq(T) /\ Tail(k) \in Seq(T) /\ Len(Tail(k)) = Len(k) - 1
           /\ Append(r, Head(k)) \o Tail(k) = r \o k
<1> DEFINE h == <<Head(k)>>
           t == Tail(k)
<1>1. h \in Seq(T) /\ t \in Seq(T) /\ Len(t) = Len(k) - 1 /\ Append(r, Head(k)) = r \o h /\ Append(r, Head(k)) \in Seq(T)
  OBVIOUS
<1>2. h \o t = k
  <2>1. /\ Len(h) = 1 /\ h[1] = k[1] /\ Len(k) \in Nat
        /\ \A i \in 1..Len(t) : t[i] = k[1 + i]
    OBVIOUS
  <2> HIDE DEF h, t
  <2>2. /\ h \o t \in Seq(T) /\ Len(h \o t) = Len(k) /\ (h \o t)[1] = k[1]
        /\ \A i \in 1..Len(t) : (h \o t)[1 + i] = t[i]
    BY <1>1, <2>1, Joining
  <2>3. ASSUME NEW i \in 1..Len(k) PROVE (h \o t)[i] = k[i]
    <3>1. CASE i = 1
      BY <2>2, <3>1
    <3>2. CASE i # 1
      <4>1. i - 1 \in 1..Len(t) /\ 1 + (i - 1) = i
        BY <1>1, <2>1, <3>2
      <4> QED
        BY <2>1, <2>2, <4>1
    <3> QED
      BY <3>1, <3>2
  <2> QED
    BY <2>2, <2>3, SameSeq
<1> HIDE DEF h, t
<1>3. Associates(r, h, t)
  BY <1>1, JoinTwice
<1>4. (r \o h) \o t = r \o k
  BY <1>2, <1>3 DEF Associates
<1> QED
  BY <1>1, <1>4 DEF t

(* find_first_fujinet_drive finds the drive that start-up announced.       *)
LEMMA DriveFound == FirstDrive(FromC, UnitOf) \in {NoDrive, FirstLetter}
<1> DEFINE found == {i \in DOMAIN FromC : UnitOf[i] = 0}
<1>1. /\ BlockDevices \in Nat /\ BlockDevices >= 2 /\ BlockDevices + 1 <= Len(Letters)
      /\ Letters \in Seq(STRING) /\ Len(Letters) \in Nat
  BY StartupAssumption
<1>2. /\ DOMAIN FromC = 1..(Len(Letters) - 2)
      /\ \A i \in 1..(Len(Letters) - 2) : FromC[i] = Letters[i + 2]
  BY <1>1 DEF FromC
<1>3. \A i \in DOMAIN FromC : UnitOf[i] = 0 => i = BlockDevices - 1
  <2>1. ASSUME NEW i \in DOMAIN FromC, UnitOf[i] = 0 PROVE i = BlockDevices - 1
    <3>1. UnitOf[i] = IoctlUnit(i + 1 - BlockDevices)
      BY DEF UnitOf
    <3>2. i \in Nat /\ i + 1 - BlockDevices = 0
      BY <1>1, <1>2, <2>1, <3>1 DEF IoctlUnit, NoUnit
    <3> QED
      BY <1>1, <3>2
  <2> QED
    BY <2>1
<1>4. CASE found = {}
  BY <1>4 DEF FirstDrive
<1>5. CASE found # {}
  <2>1. found = {BlockDevices - 1}
    BY <1>3, <1>5
  <2>2. (CHOOSE i \in found : \A j \in found : i <= j) = BlockDevices - 1
    BY <1>1, <2>1
  <2>3. FirstDrive(FromC, UnitOf) = FromC[BlockDevices - 1]
    BY <1>5, <2>2 DEF FirstDrive
  <2>4. BlockDevices - 1 \in 1..(Len(Letters) - 2) /\ BlockDevices - 1 + 2 = BlockDevices + 1
    BY <1>1
  <2> QED
    BY <1>2, <2>3, <2>4 DEF FirstLetter
<1> QED
  BY <1>4, <1>5

Symbols == UserKeys \cup {Template[i] : i \in 1..Len(Template)} \cup {NoDrive, FirstLetter}
Variables == [menu : BOOLEAN, pending : BOOLEAN, stuffing : BOOLEAN, pos : Nat, drive : {NoDrive, FirstLetter}]
Histories == [read : Seq(Symbols), before : Seq(Symbols), calm : BOOLEAN]

(* The command with a drive letter is as long as the template.             *)
LEMMA CommandIs ==
    ASSUME NEW d \in {NoDrive, FirstLetter}
    PROVE  Command(d) \in Seq(Symbols) /\ Len(Command(d)) = Len(Template) /\ Len(Template) \in Nat
<1> DEFINE C == Command(d)
<1>1. Len(Template) \in Nat /\ DOMAIN Template = 1..Len(Template)
  BY HotkeyAssumption
<1>2. \A i \in 1..Len(Template) : Template[i] \in Symbols /\ d \in Symbols
  BY DEF Symbols
<1> HIDE DEF Symbols
<1>3. C \in [1..Len(Template) -> Symbols]
  BY <1>1, <1>2 DEF Command
<1> HIDE DEF C
<1> QED
  BY <1>1, <1>3, FunctionSeq DEF C

(* run_stuff_step adds to the buffer the next keys of the command.         *)
LEMMA StuffedIs ==
    ASSUME NEW t \in Variables, NEW k \in Seq(Symbols), Len(k) <= KeyRoom, t.pos <= Len(Template)
    PROVE  LET s == Stuffed(t, k)
           IN /\ s.keys \in Seq(Symbols) /\ Len(s.keys) <= KeyRoom /\ s.tsr \in Variables
              /\ s.tsr.menu = t.menu /\ s.tsr.drive = t.drive
              /\ \E n \in Nat : /\ s.tsr.pos = t.pos + n /\ t.pos + n <= Len(Template)
                                /\ ~s.tsr.stuffing => t.pos + n = Len(Template)
                                /\ s.keys = k \o SubSeq(Command(t.drive), t.pos + 1, t.pos + n)
<1> DEFINE rest == Command(t.drive)
           n == IF KeyRoom - Len(k) < Len(rest) - t.pos THEN KeyRoom - Len(k) ELSE Len(rest) - t.pos
           part == SubSeq(rest, t.pos + 1, t.pos + n)
           more == t.pos + n < Len(rest)
           typing == [t EXCEPT !.pos = @ + n]
           u == [typing EXCEPT !.stuffing = more]
           s == Stuffed(t, k)
<1>1. t.drive \in {NoDrive, FirstLetter} /\ t.pos \in Nat
  BY DEF Variables
<1>2. rest \in Seq(Symbols) /\ Len(rest) = Len(Template) /\ Len(Template) \in Nat
  BY <1>1, CommandIs
<1>3. s = [keys |-> k \o part, tsr |-> u]
  BY DEF Stuffed, Variables
<1> HIDE DEF rest, s
<1>4. n \in Nat /\ t.pos + n <= Len(rest) /\ Len(k) + n <= KeyRoom
  BY <1>1, <1>2, HotkeyAssumption
<1> HIDE DEF n
<1>5. part \in Seq(Symbols) /\ Len(part) = n
  BY <1>1, <1>2, <1>4, Parted
<1> HIDE DEF part
<1>6. k \o part \in Seq(Symbols) /\ Len(k \o part) = Len(k) + n
  BY <1>5, Joining
<1>7. /\ u \in Variables /\ u.menu = t.menu /\ u.drive = t.drive
      /\ u.pos = t.pos + n /\ (~u.stuffing => t.pos + n = Len(rest))
  <2>1. more \in BOOLEAN /\ (~more => t.pos + n = Len(rest))
    BY <1>1, <1>2, <1>4
  <2> HIDE DEF more
  <2>2. /\ typing \in Variables /\ typing.menu = t.menu /\ typing.drive = t.drive
        /\ typing.pos = t.pos + n
    BY <1>1, <1>4 DEF Variables
  <2> HIDE DEF typing
  <2>3. /\ u \in Variables /\ u.menu = typing.menu /\ u.drive = typing.drive
        /\ u.pos = typing.pos /\ u.stuffing = more
    BY <2>1, <2>2 DEF Variables
  <2> QED
    BY <2>1, <2>2, <2>3
<1> HIDE DEF u, typing, more
<1>8. s.keys = k \o part /\ s.tsr = u
  BY <1>3
<1>9. \E m \in Nat : /\ s.tsr.pos = t.pos + m /\ t.pos + m <= Len(Template)
                     /\ ~s.tsr.stuffing => t.pos + m = Len(Template)
                     /\ s.keys = k \o SubSeq(rest, t.pos + 1, t.pos + m)
  <2>1. /\ s.tsr.pos = t.pos + n /\ t.pos + n <= Len(Template)
        /\ ~s.tsr.stuffing => t.pos + n = Len(Template)
        /\ s.keys = k \o SubSeq(rest, t.pos + 1, t.pos + n)
    BY <1>2, <1>4, <1>7, <1>8 DEF part
  <2> QED
    BY <1>4, <2>1
<1> QED
  BY <1>4, <1>6, <1>7, <1>8, <1>9 DEF s, rest

(* While nobody touches the keyboard, what DOS read and what is in the     *)
(* buffer are the keys that were waiting and the command so far.           *)
SoFar(t, k, h) ==
    h.calm =>
        /\ ~t.menu /\ t.drive = FirstLetter
        /\ h.read \o k = h.before \o SubSeq(Command(FirstLetter), 1, t.pos)
        /\ ~t.stuffing => t.pos = Len(Template)

TypingInv ==
    /\ keys \in Seq(Symbols) /\ Len(keys) <= KeyRoom
    /\ tsr \in Variables /\ tsr.pos <= Len(Template)
    /\ Installed # {} \/ tsr.menu => tsr.drive = FirstLetter
    /\ typed \in Histories /\ SoFar(tsr, keys, typed)

(* A step of run_stuff_step: as many keys as the buffer takes.             *)
LEMMA Stuffing ==
    ASSUME NEW t \in Variables, NEW k \in Seq(Symbols), Len(k) <= KeyRoom, t.pos <= Len(Template),
           NEW h \in Histories, t.stuffing => SoFar(t, k, h), h.calm => t.stuffing, Stuffs(t, k)
    PROVE  /\ keys' \in Seq(Symbols) /\ Len(keys') <= KeyRoom
           /\ tsr' \in Variables /\ tsr'.pos <= Len(Template)
           /\ tsr'.menu = t.menu /\ tsr'.drive = t.drive
           /\ SoFar(tsr', keys', h)
<1>1. CASE t.stuffing
  <2> DEFINE s == Stuffed(t, k)
  <2>1. /\ s.keys \in Seq(Symbols) /\ Len(s.keys) <= KeyRoom /\ s.tsr \in Variables
        /\ s.tsr.menu = t.menu /\ s.tsr.drive = t.drive
        /\ \E n \in Nat : /\ s.tsr.pos = t.pos + n /\ t.pos + n <= Len(Template)
                          /\ ~s.tsr.stuffing => t.pos + n = Len(Template)
                          /\ s.keys = k \o SubSeq(Command(t.drive), t.pos + 1, t.pos + n)
    BY StuffedIs
  <2>2. keys' = s.keys /\ tsr' = s.tsr
    BY <1>1 DEF Stuffs
  <2> HIDE DEF s
  <2>3. PICK n \in Nat : /\ tsr'.pos = t.pos + n /\ t.pos + n <= Len(Template)
                         /\ ~tsr'.stuffing => t.pos + n = Len(Template)
                         /\ keys' = k \o SubSeq(Command(t.drive), t.pos + 1, t.pos + n)
    BY <2>1, <2>2
  <2>4. tsr'.pos <= Len(Template)
    BY <2>3
  <2>5. ASSUME h.calm PROVE /\ h.read \o keys' = h.before \o SubSeq(Command(FirstLetter), 1, tsr'.pos)
                            /\ ~tsr'.stuffing => tsr'.pos = Len(Template)
    <3> DEFINE C == Command(FirstLetter)
               first == SubSeq(C, 1, t.pos)
               next == SubSeq(C, t.pos + 1, t.pos + n)
               r == h.read
               b == h.before
    <3>1. t.drive = FirstLetter /\ h.read \o k = h.before \o first
      BY <1>1, <2>5 DEF SoFar
    <3>2. C \in Seq(Symbols) /\ Len(C) = Len(Template) /\ Len(Template) \in Nat
      BY CommandIs
    <3>3. t.pos \in Nat /\ h.read \in Seq(Symbols) /\ h.before \in Seq(Symbols)
      BY DEF Variables, Histories
    <3> HIDE DEF C
    <3>4. next \in Seq(Symbols) /\ first \in Seq(Symbols) /\ first \o next = SubSeq(C, 1, t.pos + n)
      <4> DEFINE p == t.pos
      <4>1. p \in Nat /\ p + n <= Len(C) /\ C \in Seq(Symbols)
        BY <2>3, <3>2, <3>3
      <4>2. p \in 0..Len(C)
        BY <3>2, <4>1
      <4> HIDE DEF p, Symbols
      <4>3. SubSeq(C, p + 1, p + n) \in Seq(Symbols)
        BY <4>1, Parted
      <4>4. SubSeq(C, 1, p) \in Seq(Symbols)
        BY <4>1, <4>2, FirstOf
      <4>5. SubSeq(C, 1, p) \o SubSeq(C, p + 1, p + n) = SubSeq(C, 1, p + n)
        BY <4>1, PartOf
      <4> QED
        BY <4>3, <4>4, <4>5 DEF p
    <3>5. keys' = k \o next
      BY <2>3, <3>1 DEF C
    <3> HIDE DEF first, next, r, b
    <3>6. r \in Seq(Symbols) /\ b \in Seq(Symbols)
      BY <3>3 DEF r, b
    <3>7. r \o (k \o next) = b \o (first \o next)
      <4> HIDE DEF Symbols
      <4>1. next \in Seq(Symbols) /\ first \in Seq(Symbols) /\ k \in Seq(Symbols)
        BY <3>4
      <4>2. r \o k = b \o first
        BY <3>1 DEF r, b
      <4>3. Associates(r, k, next)
        BY <3>6, <4>1, JoinTwice
      <4>4. Associates(b, first, next)
        BY <3>6, <4>1, JoinTwice
      <4> QED
        BY <4>2, <4>3, <4>4 DEF Associates
    <3>8. h.read \o keys' = h.before \o SubSeq(C, 1, tsr'.pos)
      BY <2>3, <3>1, <3>4, <3>5, <3>7 DEF r, b
    <3>9. ~tsr'.stuffing => tsr'.pos = Len(Template)
      BY <2>3
    <3> QED
      BY <3>8, <3>9 DEF C
  <2>6. h.calm => ~t.menu /\ t.drive = FirstLetter
    BY <1>1 DEF SoFar
  <2>7. SoFar(tsr', keys', h)
    BY <2>1, <2>2, <2>5, <2>6 DEF SoFar
  <2> QED
    BY <2>1, <2>2, <2>4, <2>7
<1>2. CASE ~t.stuffing
  <2>1. keys' = k /\ tsr' = t
    BY <1>2 DEF Stuffs
  <2>2. ~h.calm
    BY <1>2
  <2> QED
    BY <2>1, <2>2 DEF SoFar
<1> QED
  BY <1>1, <1>2

(* No command at first.                                                    *)
LEMMA InitTyping == Init => TypingInv
<1> SUFFICES ASSUME Init PROVE TypingInv
  OBVIOUS
<1>1. keys = << >> /\ tsr = NoTsr /\ programs = << >> /\ vector = 0 /\ typed = NoCommand
  BY DEF Init
<1>2. Installed = {}
  <2>1. ChainInv /\ Linked(programs) /\ Len(programs) = 0
    BY <1>1, InitChain DEF ChainInv
  <2>2. Chain = {}
    BY <1>1, <2>1, ChainIsBelow, BelowIs
  <2> QED
    BY <2>2 DEF Installed
<1>3. tsr \in Variables /\ ~tsr.menu /\ tsr.pos <= Len(Template)
  <2>1. Len(Template) \in Nat /\ NoDrive = "none"
    BY HotkeyAssumption DEF NoDrive
  <2> QED
    BY <1>1, <2>1 DEF NoTsr, Variables
<1>4. typed \in Histories /\ ~typed.calm
  BY <1>1 DEF NoCommand, Histories
<1> QED
  BY <1>1, <1>2, <1>3, <1>4, HotkeyAssumption DEF TypingInv, SoFar

(* A program that comes or goes. *)
LEMMA LoadingTyping ==
    ASSUME ChainInv, TypingInv, Install(FirstDrive(FromC, UnitOf)) \/ Uninstall \/ OtherLoads \/ OtherGoes
    PROVE  TypingInv'
<1>1. CASE Install(FirstDrive(FromC, UnitOf))
  <2> DEFINE d == FirstDrive(FromC, UnitOf)
  <2>1. d = FirstLetter
    BY <1>1, DriveFound DEF Install
  <2>2. tsr' = [NoTsr EXCEPT !.drive = d] /\ typed' = NoCommand /\ keys' = keys
    BY <1>1 DEF Install
  <2> HIDE DEF d
  <2>3. tsr' \in Variables /\ tsr'.drive = FirstLetter /\ tsr'.pos <= Len(Template)
    <3>1. tsr' = [menu |-> FALSE, pending |-> FALSE, stuffing |-> FALSE, pos |-> 0, drive |-> d]
      BY <2>2 DEF NoTsr
    <3>2. Len(Template) \in Nat
      BY HotkeyAssumption
    <3> QED
      BY <2>1, <3>1, <3>2 DEF Variables
  <2>4. typed' \in Histories /\ ~typed'.calm
    BY <2>2 DEF NoCommand, Histories
  <2> QED
    BY <2>2, <2>3, <2>4 DEF TypingInv, SoFar
<1>2. CASE Uninstall
  <2>1. PICK i \in Installed : Unhook(i)
    BY <1>2 DEF Uninstall
  <2>2. Installed' = {}
    <3>1. Installed' \subseteq Installed \ {i}
      BY <2>1, ChainUnhooks DEF Unhook, Installed
    <3> QED
      BY <3>1 DEF ChainInv
  <2>3. tsr' = NoTsr /\ typed' = NoCommand /\ keys' = keys
    BY <1>2 DEF Uninstall
  <2>4. tsr' \in Variables /\ ~tsr'.menu /\ tsr'.pos <= Len(Template)
    <3>1. NoDrive = "none"
      BY DEF NoDrive
    <3> QED
      BY <2>3, <3>1, HotkeyAssumption DEF NoTsr, Variables
  <2>5. typed' \in Histories /\ ~typed'.calm
    BY <2>3 DEF NoCommand, Histories
  <2> QED
    BY <2>2, <2>3, <2>4, <2>5 DEF TypingInv, SoFar
<1>3. CASE OtherLoads \/ OtherGoes
  <2>1. Installed' \subseteq Installed
    <3>1. CASE OtherLoads
      BY <3>1, ChainLoads DEF OtherLoads
    <3>2. CASE OtherGoes
      <4>1. vector \in Chain
        <5>1. vector \in 1..Len(programs) /\ Linked(programs)
          BY <3>2 DEF OtherGoes, ChainInv
        <5> QED
          BY <5>1, BelowIs, ChainIsBelow
      <4> QED
        BY <3>2, <4>1, ChainUnhooks DEF OtherGoes
    <3> QED
      BY <1>3, <3>1, <3>2
  <2>2. UNCHANGED <<keys, tsr, typed>>
    BY <1>3 DEF OtherLoads, OtherGoes
  <2> QED
    BY <2>1, <2>2 DEF TypingInv
<1> QED
  BY <1>1, <1>2, <1>3

(* A key pressed, a key read. *)
LEMMA KeysTyping ==
    ASSUME ChainInv, TypingInv, (\E k \in UserKeys : Press(k)) \/ PressHotkey \/ DosReads
    PROVE  TypingInv'
<1>1. CASE \E k \in UserKeys : Press(k)
  <2>1. PICK k \in UserKeys : Press(k)
    BY <1>1
  <2>2. /\ keys' = IF Len(keys) < KeyRoom THEN Append(keys, k) ELSE keys
        /\ typed' = [typed EXCEPT !.calm = FALSE]
        /\ UNCHANGED <<tsr, programs, vector>>
    BY <2>1 DEF Press
  <2>3. k \in Symbols
    BY DEF Symbols
  <2>4. keys' \in Seq(Symbols) /\ Len(keys') <= KeyRoom
    <3> HIDE DEF Symbols
    <3>1. /\ Len(keys) \in Nat /\ KeyRoom \in Nat /\ keys \in Seq(Symbols) /\ Len(keys) <= KeyRoom
          /\ Append(keys, k) \in Seq(Symbols) /\ Len(Append(keys, k)) = Len(keys) + 1
      BY <2>3, HotkeyAssumption DEF TypingInv
    <3> QED
      BY <2>2, <3>1
  <2>5. typed' \in Histories /\ ~typed'.calm
    BY <2>2 DEF TypingInv, Histories
  <2>6. Installed' = Installed
    BY <2>2, ChainUntouched
  <2> QED
    BY <2>2, <2>4, <2>5, <2>6 DEF TypingInv, SoFar
<1>2. CASE PressHotkey
  <2>1. tsr' = [tsr EXCEPT !.pending = TRUE] /\ UNCHANGED <<keys, typed, programs, vector>>
    BY <1>2 DEF PressHotkey
  <2>2. /\ tsr' \in Variables /\ tsr'.menu = tsr.menu /\ tsr'.drive = tsr.drive /\ tsr'.pos = tsr.pos
        /\ tsr'.stuffing = tsr.stuffing
    BY <2>1 DEF TypingInv, Variables
  <2>3. Installed' = Installed
    BY <2>1, ChainUntouched
  <2> QED
    BY <2>1, <2>2, <2>3 DEF TypingInv, SoFar
<1>3. CASE DosReads
  <2>1. /\ keys # << >> /\ keys' = Tail(keys)
        /\ typed' = IF typed.calm THEN [typed EXCEPT !.read = Append(@, Head(keys))] ELSE typed
        /\ UNCHANGED <<tsr, programs, vector>>
    BY <1>3 DEF DosReads
  <2> DEFINE r == typed.read
             s == Append(r, Head(keys))
  <2>2. r \in Seq(Symbols) /\ keys \in Seq(Symbols) /\ Len(keys) <= KeyRoom
    BY DEF TypingInv, Histories
  <2>3. /\ s \in Seq(Symbols) /\ keys' \in Seq(Symbols) /\ Len(keys') = Len(keys) - 1
        /\ s \o keys' = r \o keys
    BY <2>1, <2>2, KeyRead
  <2>4. Installed' = Installed
    BY <2>1, ChainUntouched
  <2>5. Len(keys') <= KeyRoom
    BY <2>2, <2>3, HotkeyAssumption, ElementOf
  <2> HIDE DEF s
  <2>6. CASE typed.calm
    <3>1. typed' = [typed EXCEPT !.read = s]
      BY <2>1, <2>6 DEF s
    <3>2. typed' \in Histories /\ typed'.read = s /\ typed'.before = typed.before /\ typed'.calm = typed.calm
      BY <2>3, <3>1 DEF TypingInv, Histories
    <3> QED
      BY <2>1, <2>3, <2>4, <2>5, <3>2 DEF TypingInv, SoFar
  <2>7. CASE ~typed.calm
    BY <2>1, <2>3, <2>4, <2>5, <2>7 DEF TypingInv, SoFar
  <2> QED
    BY <2>6, <2>7
<1> QED
  BY <1>1, <1>2, <1>3

(* The menu shown and drawn away, the command typed when DOS is idle. *)
LEMMA MenuTyping ==
    ASSUME TypingInv, ShowMenu \/ IdleStuffs \/ Choose, Installed' = Installed
    PROVE  TypingInv'
<1>1. /\ keys \in Seq(Symbols) /\ Len(keys) <= KeyRoom
      /\ tsr \in Variables /\ tsr.pos <= Len(Template)
      /\ Installed # {} \/ tsr.menu => tsr.drive = FirstLetter
      /\ typed \in Histories /\ SoFar(tsr, keys, typed)
  BY DEF TypingInv
<1>2. CASE ShowMenu
  <2>1. /\ tsr' = [tsr EXCEPT !.pending = FALSE, !.menu = TRUE]
        /\ typed' = [typed EXCEPT !.calm = FALSE]
        /\ UNCHANGED keys /\ Installed # {}
    BY <1>2 DEF ShowMenu
  <2>2. tsr' \in Variables /\ tsr'.pos = tsr.pos /\ tsr'.drive = tsr.drive
    BY <1>1, <2>1 DEF Variables
  <2>3. typed' \in Histories /\ ~typed'.calm
    BY <1>1, <2>1 DEF Histories
  <2> QED
    BY <1>1, <2>1, <2>2, <2>3 DEF TypingInv, SoFar
<1>3. CASE IdleStuffs
  <2>1. Stuffs(tsr, keys) /\ tsr.stuffing /\ typed' = typed
    BY <1>3 DEF IdleStuffs
  <2>2. /\ keys' \in Seq(Symbols) /\ Len(keys') <= KeyRoom
        /\ tsr' \in Variables /\ tsr'.pos <= Len(Template)
        /\ tsr'.menu = tsr.menu /\ tsr'.drive = tsr.drive
        /\ SoFar(tsr', keys', typed)
    BY <1>1, <2>1, Stuffing
  <2> QED
    BY <1>1, <2>1, <2>2 DEF TypingInv
<1>4. CASE Choose
  <2> DEFINE k == Tail(keys)
             t == [tsr EXCEPT !.menu = FALSE]
             u == [t EXCEPT !.pos = 0, !.stuffing = TRUE]
             h == [read |-> << >>, before |-> k, calm |-> TRUE]
  <2>1. tsr.menu /\ keys # << >>
    BY <1>4 DEF Choose
  <2>2. k \in Seq(Symbols) /\ Len(k) <= KeyRoom
    BY <1>1, <2>1, KeyRead, ElementOf, HotkeyAssumption
  <2>3. /\ t \in Variables /\ ~t.menu /\ t.drive = FirstLetter
        /\ t.pos <= Len(Template) /\ t.stuffing = tsr.stuffing
    BY <1>1, <2>1 DEF Variables
  <2>4. CASE Head(keys) = "r"
    <3>1. Stuffs(u, k) /\ typed' = h
      BY <1>4, <2>4 DEF Choose
    <3> HIDE DEF t
    <3>2. u \in Variables /\ ~u.menu /\ u.drive = FirstLetter /\ u.pos = 0 /\ u.stuffing
      BY <2>3 DEF Variables
    <3> HIDE DEF u, k
    <3>3. h \in Histories /\ h.read = << >> /\ h.before = k /\ h.calm
      BY <2>2 DEF Histories
    <3> HIDE DEF h
    <3>4. u.pos <= Len(Template)
      BY <3>2, HotkeyAssumption
    <3>5. h.read \o k = h.before \o SubSeq(Command(FirstLetter), 1, u.pos)
      <4>1. SubSeq(Command(FirstLetter), 1, u.pos) = << >>
        BY <3>2, CommandIs
      <4>2. << >> \o k = k \o << >>
        BY <2>2, JoinNothing
      <4> QED
        BY <3>3, <4>1, <4>2
    <3>6. SoFar(u, k, h)
      BY <3>2, <3>5 DEF SoFar
    <3>7. /\ keys' \in Seq(Symbols) /\ Len(keys') <= KeyRoom
          /\ tsr' \in Variables /\ tsr'.pos <= Len(Template)
          /\ tsr'.menu = u.menu /\ tsr'.drive = u.drive
          /\ SoFar(tsr', keys', h)
      BY <2>2, <3>1, <3>2, <3>3, <3>4, <3>6, Stuffing
    <3> QED
      BY <3>1, <3>2, <3>3, <3>7 DEF TypingInv
  <2>5. CASE Head(keys) # "r"
    <3>1. Stuffs(t, k) /\ typed' = typed
      BY <1>4, <2>5 DEF Choose
    <3>2. ~typed.calm
      BY <1>1, <2>1 DEF SoFar
    <3> HIDE DEF t, k
    <3>3. SoFar(t, k, typed)
      BY <3>2 DEF SoFar
    <3>4. /\ keys' \in Seq(Symbols) /\ Len(keys') <= KeyRoom
          /\ tsr' \in Variables /\ tsr'.pos <= Len(Template)
          /\ tsr'.menu = t.menu /\ tsr'.drive = t.drive
          /\ SoFar(tsr', keys', typed)
      BY <1>1, <2>2, <2>3, <3>1, <3>2, <3>3, Stuffing
    <3> QED
      BY <1>1, <2>3, <3>1, <3>4 DEF TypingInv
  <2> QED
    BY <2>4, <2>5
<1> QED
  BY <1>2, <1>3, <1>4

(* Every step keeps what was typed.                                        *)
LEMMA StepTyping == ChainInv /\ TypingInv /\ [Next]_vars => TypingInv'
<1> SUFFICES ASSUME ChainInv, TypingInv, [Next]_vars PROVE TypingInv'
  OBVIOUS
<1>1. CASE UNCHANGED hotkey
  <2>1. UNCHANGED <<keys, tsr, programs, vector, typed>>
    BY <1>1 DEF hotkey
  <2>2. Installed' = Installed
    BY <2>1, ChainUntouched
  <2> QED
    BY <2>1, <2>2 DEF TypingInv
<1>2. CASE Keyboard
  <2>1. CASE ShowMenu \/ IdleStuffs \/ Choose
    <3>1. UNCHANGED <<programs, vector>>
      BY <2>1 DEF ShowMenu, IdleStuffs, Choose
    <3>2. Installed' = Installed
      BY <3>1, ChainUntouched
    <3> QED
      BY <2>1, <3>2, MenuTyping
  <2>2. CASE (\E k \in UserKeys : Press(k)) \/ PressHotkey \/ DosReads
    BY <2>2, KeysTyping
  <2>3. CASE Install(FirstDrive(FromC, UnitOf)) \/ Uninstall \/ OtherLoads \/ OtherGoes
    BY <2>3, LoadingTyping
  <2> QED
    BY <1>2, <2>1, <2>2, <2>3 DEF Keyboard, Typing, Loading, Menu
<1> QED
  BY <1>1, <1>2 DEF Next, Start, Configure, Version, Clock, vars

(* If nobody touches the keyboard after R is chosen, DOS reads the keys     *)
(* that were waiting and then the whole command (CommandTyped), whatever    *)
(* the command, however small the buffer, and wherever the driver's drives  *)
(* are among those that DOS has.                                            *)
THEOREM CommandReachesDos == Spec => []CommandTyped
<1>1. TypingInv => CommandTyped
  BY DEF TypingInv, SoFar, CommandTyped
<1> QED
  BY <1>1, InitChain, InitTyping, StepChain, StepTyping, PTL DEF Spec

-----------------------------------------------------------------------------
(* The environment.                                                        *)

OptionsOf == [length : Nat, value : BOOLEAN]
Progress == [end : 0..AreaSize, count : Nat, full : BOOLEAN]

(* The loop of parse_config: where it starts, one turn of it. *)
FirstTurn(o) == [end |-> Pointer * (Len(o) + 1), count |-> 0, full |-> FALSE]
Turn(o, t, i) ==
    LET c == Copied(t.end, o[i])
    IN IF t.full \/ t.end >= AreaSize THEN t
       ELSE [end |-> c.end, count |-> IF c.kept THEN i ELSE t.count, full |-> ~c.kept]
IsLayout(o, f) == f = [i \in 0..Len(o) |-> IF i = 0 THEN FirstTurn(o) ELSE Turn(o, f[i - 1], i)]
Turns(o) == CHOOSE f : IsLayout(o, f)

(* Layout is the last turn of the loop of parse_config.                    *)
LEMMA LayoutIsTurns == ASSUME NEW o PROVE Layout(o) = Turns(o)[Len(o)]
BY DEF Layout, Turns, IsLayout, FirstTurn, Turn

(* One option is copied within the area, or cut off at its end.            *)
LEMMA CopiedInArea ==
    ASSUME NEW at \in 0..AreaSize, at < AreaSize, NEW option \in OptionsOf
    PROVE  Copied(at, option).end \in 0..AreaSize /\ Copied(at, option).kept \in BOOLEAN
<1> DEFINE text == Least(AreaSize, at + option.length)
           named == IF text < AreaSize /\ ~option.value THEN text + 1 ELSE text
<1>1. AreaSize \in Nat /\ option.length \in Nat
  BY StartupAssumption DEF OptionsOf
<1>2. text \in 0..AreaSize
  BY <1>1 DEF Least
<1>3. Copied(at, option) = IF named = AreaSize THEN [end |-> AreaSize, kept |-> FALSE] ELSE [end |-> named + 1, kept |-> TRUE]
  BY DEF Copied
<1> HIDE DEF text
<1>4. named \in 0..AreaSize
  BY <1>1, <1>2
<1> HIDE DEF named
<1>5. CASE named = AreaSize
  BY <1>1, <1>3, <1>5
<1>6. CASE named # AreaSize
  BY <1>1, <1>3, <1>4, <1>6
<1> QED
  BY <1>5, <1>6

(* A turn stays within the area.                                           *)
LEMMA TurnInArea ==
    ASSUME NEW o \in Seq(OptionsOf), NEW i \in 1..Len(o), NEW t \in Progress
    PROVE  Turn(o, t, i) \in Progress
<1> DEFINE c == Copied(t.end, o[i])
<1>1. AreaSize \in Nat /\ t.end \in 0..AreaSize /\ o[i] \in OptionsOf /\ i \in Nat
  BY StartupAssumption, ElementOf DEF Progress
<1>2. CASE t.full \/ t.end >= AreaSize
  BY <1>2 DEF Turn
<1>3. CASE ~(t.full \/ t.end >= AreaSize)
  <2>1. c.end \in 0..AreaSize /\ c.kept \in BOOLEAN
    BY <1>1, <1>3, CopiedInArea
  <2>2. Turn(o, t, i) = [end |-> c.end, count |-> IF c.kept THEN i ELSE t.count, full |-> ~c.kept]
    BY <1>3 DEF Turn
  <2> HIDE DEF c
  <2>3. t.count \in Nat
    BY DEF Progress
  <2>4. (IF c.kept THEN i ELSE t.count) \in Nat
    BY <1>1, <2>3
  <2> QED
    BY <2>1, <2>2, <2>4 DEF Progress
<1> QED
  BY <1>2, <1>3

(* However many options there are, of whatever length.                     *)
LEMMA LayoutInArea ==
    ASSUME NEW o \in Seq(OptionsOf), Pointer * (Len(o) + 1) <= AreaSize
    PROVE  Layout(o).end \in 0..AreaSize
<1> DEFINE N == Len(o)
           p == [n \in 1..N |-> n - 1]
           g == [n \in 1..N |-> [v \in Progress |-> Turn(o, v, n)]]
           a == FirstTurn(o)
<1>1. N \in Nat /\ AreaSize \in Nat
  BY StartupAssumption
<1>2. a \in Progress
  BY <1>1 DEF FirstTurn, Progress, Pointer
<1>3. g \in [1..N -> [Progress -> Progress]]
  <2>1. \A n \in 1..N : [v \in Progress |-> Turn(o, v, n)] \in [Progress -> Progress]
    BY TurnInArea
  <2> QED
    BY <2>1
<1>4. p \in [1..N -> Nat] /\ \A n \in 1..N : p[n] < n /\ p[n] = n - 1
  BY <1>1
<1>5. Solvable(N, Progress, a, p, g)
  <2> HIDE DEF N, p, g, a
  <2> QED
    BY <1>1, <1>2, <1>3, <1>4, Recursion
<1>6. PICK f \in [0..N -> Progress] : Solves(f, N, a, p, g)
  BY <1>5 DEF Solvable
<1>7. IsLayout(o, f)
  <2>1. ASSUME NEW n \in 0..N PROVE f[n] = IF n = 0 THEN FirstTurn(o) ELSE Turn(o, f[n - 1], n)
    <3>1. CASE n = 0
      BY <1>6, <3>1 DEF Solves
    <3>2. CASE n # 0
      <4>1. n \in 1..N /\ n - 1 \in 0..N
        BY <1>1, <3>2
      <4>2. f[n - 1] \in Progress
        BY <4>1
      <4>3. f[n] = g[n][f[p[n]]]
        BY <1>6, <4>1 DEF Solves
      <4> QED
        BY <3>2, <4>1, <4>2, <4>3
    <3> QED
      BY <3>1, <3>2
  <2>2. f = [n \in 0..N |-> f[n]]
    OBVIOUS
  <2> QED
    BY <2>1, <2>2 DEF IsLayout
<1>8. IsLayout(o, Turns(o))
  BY <1>7 DEF Turns
<1> HIDE DEF p, g, a
(* Whatever function it is, its values are within the area. *)
<1>9. ASSUME NEW b, b = Turns(o) PROVE b[N] \in Progress
  <2>1. b = [i \in 0..N |-> IF i = 0 THEN FirstTurn(o) ELSE Turn(o, b[i - 1], i)]
    BY <1>8, <1>9 DEF IsLayout
  <2>2. b[0] = FirstTurn(o) /\ \A i \in 1..N : b[i] = Turn(o, b[i - 1], i)
    BY <1>1, <2>1
  <2> DEFINE S == {n \in Nat : n <= N => b[n] \in Progress}
  <2>3. ASSUME NEW n \in Nat, \A m \in 0..(n - 1) : m \in S PROVE n \in S
    <3> SUFFICES ASSUME n <= N PROVE b[n] \in Progress
      OBVIOUS
    <3>1. CASE n = 0
      BY <1>2, <2>2, <3>1 DEF a
    <3>2. CASE n # 0
      <4>1. n \in 1..N /\ n - 1 \in 0..(n - 1) /\ n - 1 <= N
        BY <1>1, <3>2
      <4>2. b[n - 1] \in Progress
        BY <2>3, <4>1
      <4> QED
        BY <2>2, <4>1, <4>2, TurnInArea
    <3> QED
      BY <3>1, <3>2
  <2>4. S \in SUBSET Nat
    OBVIOUS
  <2>5. S = Nat
    <3> HIDE DEF S
    <3> QED
      BY <2>3, <2>4, AllNumbers
  <2>6. N \in S
    BY <1>1, <2>5
  <2> QED
    BY <1>1, <2>6
<1>10. Layout(o) \in Progress
  BY <1>9, LayoutIsTurns
<1> QED
  BY <1>10 DEF Progress

EnvInv == used \in 0..AreaSize /\ (boot = "parse" => scenario \in Scenarios)

(* Only Configure fills the environment.                                   *)
LEMMA StepEnv == EnvInv /\ [Next]_vars => EnvInv'
<1> SUFFICES ASSUME EnvInv, [Next]_vars PROVE EnvInv'
  OBVIOUS
<1>1. CASE Configure
  <2>1. scenario \in Scenarios /\ used' = ParseConfig(scenario.options) /\ boot' \in {"version", "crashed"}
    BY <1>1 DEF EnvInv, Configure
  <2>2. scenario.options \in Seq(OptionsOf) /\ Pointer * (Len(scenario.options) + 1) <= AreaSize
    BY <2>1, FirmwareAssumption, FirmwareDiskAssumption DEF OptionsOf
  <2>3. AreaSize \in Nat /\ Pointer \in 0..AreaSize
    BY StartupAssumption DEF Pointer
  <2>4. used' \in 0..AreaSize
    BY <2>1, <2>2, <2>3, LayoutInArea DEF ParseConfig
  <2> QED
    BY <2>1, <2>4 DEF EnvInv
<1>2. CASE Version \/ Clock
  <2>1. used' = used /\ boot' # "parse"
    BY <1>2 DEF Version, VersionSent, VersionAnswered, VersionReturns, Clock
  <2> QED
    BY <2>1 DEF EnvInv
<1>3. CASE Up /\ UNCHANGED start
  BY <1>3 DEF EnvInv, Up, start
<1>4. CASE UNCHANGED vars
  <2>1. UNCHANGED <<used, boot, scenario>>
    BY <1>4 DEF vars, start, disk
  <2> QED
    BY <2>1 DEF EnvInv
<1> QED
  BY <1>1, <1>2, <1>3, <1>4 DEF Next, Start

(* The strings of the environment do not reach beyond the area (EnvInArea), *)
(* whatever the options and their lengths, and wherever in one it is full.  *)
THEOREM EnvironmentFits == Spec => []EnvInArea
<1>1. Init => EnvInv
  <2> SUFFICES ASSUME Init PROVE EnvInv
    OBVIOUS
  <2>1. used = 0 /\ scenario \in Scenarios /\ AreaSize \in Nat
    BY StartupAssumption DEF Init
  <2> QED
    BY <2>1 DEF EnvInv
<1>2. EnvInv => EnvInArea
  BY StartupAssumption DEF EnvInv, EnvInArea
<1> QED
  BY <1>1, <1>2, StepEnv, PTL DEF Spec

-----------------------------------------------------------------------------
(* Sequences: the first element and the rest.                              *)
LEMMA TailOf ==
    ASSUME NEW T, NEW l \in Seq(T), Len(l) > 0
    PROVE  /\ l # << >> /\ Head(l) = l[1] /\ Tail(l) \in Seq(T) /\ Len(Tail(l)) = Len(l) - 1
           /\ \A i \in 1..(Len(l) - 1) : Tail(l)[i] = l[i + 1]
OBVIOUS

(* The same of one joined from two.                                        *)
LEMMA HeadOf ==
    ASSUME NEW T, NEW a \in Seq(T), NEW b \in Seq(T), a # << >>
    PROVE  a \o b # << >> /\ Head(a \o b) = a[1] /\ Tail(a \o b) = Tail(a) \o b /\ Tail(a) \in Seq(T)
<1> DEFINE l == a \o b
           d == Tail(a)
           r == d \o b
<1>1. /\ l \in Seq(T) /\ Len(l) = Len(a) + Len(b) /\ Len(a) \in Nat /\ Len(b) \in Nat
      /\ \A i \in 1..Len(a) : l[i] = a[i]
      /\ \A i \in 1..Len(b) : l[Len(a) + i] = b[i]
  BY Joining
<1>2. Len(a) > 0
  OBVIOUS
<1>3. d \in Seq(T) /\ Len(d) = Len(a) - 1 /\ \A i \in 1..Len(d) : d[i] = a[i + 1]
  OBVIOUS
<1> HIDE DEF l, d
<1>4. /\ r \in Seq(T) /\ Len(r) = Len(d) + Len(b)
      /\ \A i \in 1..Len(d) : r[i] = d[i]
      /\ \A i \in 1..Len(b) : r[Len(d) + i] = b[i]
  <2>1. d \in Seq(T)
    BY <1>3
  <2> QED
    BY <2>1, Joining
<1> HIDE DEF r
<1>5. Len(l) > 0
  BY <1>1, <1>2
<1>6. l # << >> /\ Head(l) = l[1] /\ Tail(l) \in Seq(T) /\ Len(Tail(l)) = Len(l) - 1
      /\ \A i \in 1..(Len(l) - 1) : Tail(l)[i] = l[i + 1]
  <2>1. l \in Seq(T)
    BY <1>1
  <2> QED
    BY <1>5, <2>1, TailOf
<1>7. ASSUME NEW i \in 1..(Len(l) - 1) PROVE Tail(l)[i] = r[i]
  <2>1. CASE i <= Len(d)
    <3>1. i \in 1..Len(d) /\ i + 1 \in 1..Len(a)
      BY <1>1, <1>3, <2>1
    <3> QED
      BY <1>1, <1>3, <1>4, <1>6, <3>1
  <2>2. CASE i > Len(d)
    <3> DEFINE j == i - Len(d)
    <3>1. j \in 1..Len(b) /\ Len(d) + j = i /\ Len(a) + j = i + 1
      BY <1>1, <1>3, <2>2
    <3> HIDE DEF j
    <3>2. r[Len(d) + j] = b[j] /\ l[Len(a) + j] = b[j]
      BY <1>1, <1>4, <3>1
    <3> QED
      BY <1>6, <3>1, <3>2
  <2> QED
    BY <1>1, <1>3, <2>1, <2>2
<1>8. Tail(l) = r
  <2>1. Len(Tail(l)) = Len(r)
    BY <1>1, <1>3, <1>4, <1>6
  <2> QED
    BY <1>4, <1>6, <1>7, <2>1, SameSeq
<1>9. l[1] = a[1]
  BY <1>1, <1>2
<1> QED
  BY <1>3, <1>6, <1>8, <1>9 DEF l, d, r

(* Nothing in front, and one element.                                      *)
LEMMA NothingAhead == ASSUME NEW T, NEW b \in Seq(T) PROVE << >> \o b = b
<1> DEFINE e == << >>
           l == e \o b
<1>1. e \in Seq(T) /\ Len(e) = 0
  OBVIOUS
<1> HIDE DEF e
<1>2. l \in Seq(T) /\ Len(l) = Len(e) + Len(b) /\ Len(b) \in Nat /\ \A i \in 1..Len(b) : l[Len(e) + i] = b[i]
  BY <1>1, Joining
<1> HIDE DEF l
<1>3. \A i \in 1..Len(b) : 0 + i = i
  OBVIOUS
<1>4. Len(l) = Len(b) /\ \A i \in 1..Len(b) : l[i] = b[i]
  BY <1>1, <1>2, <1>3
<1>5. l = b
  BY <1>2, <1>4, SameSeq
<1> QED
  BY <1>5 DEF l, e

LEMMA OneAhead ==
    ASSUME NEW T, NEW c \in T, NEW b \in Seq(T)
    PROVE  /\ <<c>> \o b # << >> /\ Head(<<c>> \o b) = c /\ Tail(<<c>> \o b) = b
           /\ <<c>> \o b \in Seq(T) /\ Len(<<c>> \o b) = Len(b) + 1
<1> DEFINE a == <<c>>
           e == << >>
<1>1. a \in Seq(T) /\ a # << >> /\ a[1] = c /\ Tail(a) = e /\ e \in Seq(T) /\ Len(e) = 0 /\ Len(a) = 1
  OBVIOUS
<1>2. e \o b = b
  BY NothingAhead
<1> HIDE DEF a, e
<1>3. a \o b # << >> /\ Head(a \o b) = a[1] /\ Tail(a \o b) = Tail(a) \o b
  BY <1>1, HeadOf
<1>4. a \o b \in Seq(T) /\ Len(a \o b) = Len(a) + Len(b) /\ Len(b) \in Nat
  BY <1>1, Joining
<1>5. Tail(a) = e
  BY <1>1
<1>6. a \o b # << >> /\ Head(a \o b) = c /\ Tail(a \o b) = b /\ a \o b \in Seq(T) /\ Len(a \o b) = Len(b) + 1
  BY <1>1, <1>2, <1>3, <1>4, <1>5
<1> QED
  BY <1>6 DEF a

(* The first n elements are the first n - 1 and the n-th.                  *)
LEMMA OneLonger ==
    ASSUME NEW T, NEW l \in Seq(T), NEW n \in 1..Len(l)
    PROVE  Append(SubSeq(l, 1, n - 1), l[n]) = SubSeq(l, 1, n)
<1> DEFINE a == SubSeq(l, 1, n - 1)
           b == SubSeq(l, 1, n)
           c == Append(a, l[n])
<1>1. a \in Seq(T) /\ Len(a) = n - 1 /\ \A i \in 1..(n - 1) : a[i] = l[i]
  <2>1. n - 1 \in 0..Len(l)
    BY ElementOf
  <2> QED
    BY <2>1, FirstOf
<1>2. b \in Seq(T) /\ Len(b) = n /\ \A i \in 1..n : b[i] = l[i]
  BY FirstOf
<1>3. l[n] \in T
  OBVIOUS
<1> HIDE DEF a, b
<1>4. c \in Seq(T) /\ Len(c) = n /\ c[n] = l[n] /\ \A i \in 1..(n - 1) : c[i] = a[i]
  BY <1>1, <1>3
<1> HIDE DEF c
<1>5. \A i \in 1..n : c[i] = b[i]
  BY <1>1, <1>2, <1>4
<1>6. c = b
  BY <1>2, <1>4, <1>5, SameSeq
<1> QED
  BY <1>6 DEF a, b, c

-----------------------------------------------------------------------------
(* The frame.                                                              *)

(* How far a frame has been sent, and what of it is still to come, n bytes *)
(* of the payload from its beginning and from its end.                     *)
IsSent(l, f) == f = [n \in 0..Len(l) |-> IF n = 0 THEN <<"END">> ELSE f[n - 1] \o Encoded(l[n])]
Sent(l) == CHOOSE f : IsSent(l, f)
IsRest(l, f) == f = [n \in 0..Len(l) |-> IF n = 0 THEN <<"END">> ELSE Encoded(l[Len(l) - n + 1]) \o f[n - 1]]
Rest(l) == CHOOSE f : IsRest(l, f)

(* A frame is all that is sent and the last END.                           *)
LEMMA FrameIsSent == ASSUME NEW l PROVE Frame(l) = Append(Sent(l)[Len(l)], "END")
BY DEF Frame, Sent, IsSent

(* One byte on the way.                                                    *)
LEMMA EncodedIs ==
    ASSUME NEW b \in Bytes
    PROVE  /\ Encoded(b) \in Seq(Bytes) /\ Encoded(b) # << >> /\ Len(Encoded(b)) \in {1, 2}
           /\ \A i \in 1..Len(Encoded(b)) : Encoded(b)[i] # "END"
           /\ b \notin {"END", "ESC"} => Encoded(b) = <<b>>
           /\ b \in {"END", "ESC"} => Encoded(b) = <<"ESC", Escaped(b)>> /\ Unescaped(Escaped(b)) = b
           /\ {"END", "ESC", Escaped(b)} \subseteq Bytes
<1>1. {"END", "ESC", "ESC_END", "ESC_ESC"} \subseteq Bytes
  BY DEF Bytes, Specials
<1>2. CASE b \in {"END", "ESC"}
  <2>1. /\ Encoded(b) = <<"ESC", Escaped(b)>> /\ Escaped(b) \in {"ESC_END", "ESC_ESC"}
        /\ Unescaped(Escaped(b)) = b
    <3>1. CASE b = "END"
      BY <3>1 DEF Encoded, Escaped, Unescaped
    <3>2. CASE b = "ESC"
      BY <3>2 DEF Encoded, Escaped, Unescaped
    <3> QED
      BY <1>2, <3>1, <3>2
  <2>2. PICK c \in Bytes, d \in Bytes : c = "ESC" /\ d = Escaped(b)
    BY <1>1, <2>1
  <2> DEFINE e == Encoded(b)
  <2>3. e = <<c, d>> /\ c # "END" /\ d # "END"
    BY <2>1, <2>2
  <2> HIDE DEF e
  <2>4. e \in Seq(Bytes) /\ Len(e) = 2 /\ e[1] = c /\ e[2] = d
    BY <2>3
  <2>5. e # << >> /\ \A i \in 1..Len(e) : e[i] # "END"
    BY <2>3, <2>4
  <2> QED
    BY <1>1, <1>2, <2>1, <2>2, <2>4, <2>5 DEF e
<1>4. CASE b \notin {"END", "ESC"}
  <2>1. Encoded(b) = <<b>> /\ Escaped(b) = "ESC_ESC"
    BY <1>4 DEF Encoded, Escaped
  <2> QED
    BY <1>1, <1>4, <2>1
<1> QED
  BY <1>2, <1>4

(* What has been sent grows byte by byte.                                  *)
LEMMA SentIs ==
    ASSUME NEW l \in Seq(Bytes)
    PROVE  /\ Sent(l) \in [0..Len(l) -> Seq(Bytes)] /\ Sent(l)[0] = <<"END">>
           /\ \A n \in 1..Len(l) : Sent(l)[n] = Sent(l)[n - 1] \o Encoded(l[n])
<1> DEFINE N == Len(l)
           V == Seq(Bytes)
           p == [n \in 1..N |-> n - 1]
           g == [n \in 1..N |-> [v \in V |-> v \o Encoded(l[n])]]
           a == <<"END">>
<1>1. N \in Nat /\ \A n \in 1..N : Encoded(l[n]) \in V
  <2>1. N \in Nat /\ \A n \in 1..N : l[n] \in Bytes
    BY ElementOf
  <2> QED
    BY <2>1, EncodedIs
<1>2. a \in V
  BY DEF Bytes, Specials
<1>3. g \in [1..N -> [V -> V]]
  <2>1. ASSUME NEW n \in 1..N PROVE [v \in V |-> v \o Encoded(l[n])] \in [V -> V]
    <3>1. ASSUME NEW v \in V PROVE v \o Encoded(l[n]) \in V
      <4>1. Encoded(l[n]) \in V
        BY <1>1
      <4> QED
        BY <4>1, Joining
    <3> QED
      BY <3>1
  <2> HIDE DEF V
  <2> QED
    BY <2>1
<1>4. p \in [1..N -> Nat] /\ \A n \in 1..N : p[n] < n /\ p[n] = n - 1
  BY <1>1
<1>5. Solvable(N, V, a, p, g)
  <2> HIDE DEF N, V, p, g, a
  <2> QED
    BY <1>1, <1>2, <1>3, <1>4, Recursion
<1>6. PICK f \in [0..N -> V] : Solves(f, N, a, p, g)
  BY <1>5 DEF Solvable
<1>7. IsSent(l, f)
  <2>1. ASSUME NEW n \in 0..N PROVE f[n] = IF n = 0 THEN a ELSE f[n - 1] \o Encoded(l[n])
    <3>1. CASE n = 0
      BY <1>6, <3>1 DEF Solves
    <3>2. CASE n # 0
      <4>1. n \in 1..N /\ n - 1 \in 0..N
        BY <1>1, <3>2
      <4>2. f[n - 1] \in V
        BY <4>1
      <4>3. f[n] = g[n][f[p[n]]]
        BY <1>6, <4>1 DEF Solves
      <4> QED
        BY <1>4, <3>2, <4>1, <4>2, <4>3
    <3> QED
      BY <3>1, <3>2
  <2>2. f = [n \in 0..N |-> f[n]]
    OBVIOUS
  <2> QED
    BY <2>1, <2>2 DEF IsSent
<1>8. IsSent(l, Sent(l))
  BY <1>7 DEF Sent
<1>9. ASSUME NEW h, h = Sent(l) PROVE h[0] = a /\ \A n \in 1..N : h[n] = h[n - 1] \o Encoded(l[n])
  <2>1. h = [n \in 0..N |-> IF n = 0 THEN a ELSE h[n - 1] \o Encoded(l[n])]
    BY <1>8, <1>9 DEF IsSent
  <2> HIDE DEF a
  <2>2. \A n \in 0..N : h[n] = IF n = 0 THEN a ELSE h[n - 1] \o Encoded(l[n])
    BY <2>1
  <2> HIDE DEF N
  <2>3. 0 \in 0..N /\ \A n \in 1..N : n \in 0..N /\ n # 0
    BY <1>1
  <2> QED
    BY <2>2, <2>3
<1>10. ASSUME NEW h, h = Sent(l) PROVE h \in [0..N -> V]
  <2> DEFINE S == {n \in Nat : n <= N => h[n] \in V}
  <2>1. ASSUME NEW n \in Nat, \A m \in 0..(n - 1) : m \in S PROVE n \in S
    <3> SUFFICES ASSUME n <= N PROVE h[n] \in V
      OBVIOUS
    <3>1. CASE n = 0
      BY <1>2, <1>9, <1>10, <3>1
    <3>2. CASE n # 0
      <4>1. n \in 1..N /\ n - 1 \in 0..(n - 1) /\ n - 1 <= N
        BY <1>1, <3>2
      <4>2. h[n - 1] \in V /\ Encoded(l[n]) \in V
        BY <1>1, <2>1, <4>1
      <4>3. h[n] = h[n - 1] \o Encoded(l[n])
        BY <1>9, <1>10, <4>1
      <4> QED
        BY <4>2, <4>3, Joining
    <3> QED
      BY <3>1, <3>2
  <2>2. S \in SUBSET Nat
    OBVIOUS
  <2>3. S = Nat
    <3> HIDE DEF S
    <3> QED
      BY <2>1, <2>2, AllNumbers
  <2>4. \A n \in 0..N : h[n] \in V
    BY <1>1, <2>3
  <2>5. h = [n \in 0..N |-> IF n = 0 THEN a ELSE h[n - 1] \o Encoded(l[n])]
    BY <1>8, <1>10 DEF IsSent
  <2> HIDE DEF V, S
  <2> QED
    BY <2>4, <2>5
<1> QED
  BY <1>9, <1>10

(* What is to come is one byte more, from the last END on.                 *)
LEMMA RestIs ==
    ASSUME NEW l \in Seq(Bytes)
    PROVE  /\ Rest(l) \in [0..Len(l) -> Seq(Bytes)] /\ Rest(l)[0] = <<"END">>
           /\ \A n \in 1..Len(l) : Rest(l)[n] = Encoded(l[Len(l) - n + 1]) \o Rest(l)[n - 1]
<1> DEFINE N == Len(l)
           V == Seq(Bytes)
           p == [n \in 1..N |-> n - 1]
           g == [n \in 1..N |-> [v \in V |-> Encoded(l[Len(l) - n + 1]) \o v]]
           a == <<"END">>
<1>1. N \in Nat /\ \A n \in 1..N : Encoded(l[Len(l) - n + 1]) \in V
  <2>1. N \in Nat /\ \A n \in 1..N : l[N - n + 1] \in Bytes
    <3>1. N \in Nat /\ \A n \in 1..N : l[n] \in Bytes
      BY ElementOf
    <3>2. \A n \in 1..N : N - n + 1 \in 1..N
      BY <3>1
    <3> QED
      BY <3>1, <3>2
  <2> QED
    BY <2>1, EncodedIs
<1>2. a \in V
  BY DEF Bytes, Specials
<1>3. g \in [1..N -> [V -> V]]
  <2>1. ASSUME NEW n \in 1..N PROVE [v \in V |-> Encoded(l[Len(l) - n + 1]) \o v] \in [V -> V]
    <3>1. ASSUME NEW v \in V PROVE Encoded(l[Len(l) - n + 1]) \o v \in V
      <4>1. Encoded(l[Len(l) - n + 1]) \in V
        BY <1>1
      <4> QED
        BY <4>1, Joining
    <3> QED
      BY <3>1
  <2> HIDE DEF V
  <2> QED
    BY <2>1
<1>4. p \in [1..N -> Nat] /\ \A n \in 1..N : p[n] < n /\ p[n] = n - 1
  BY <1>1
<1>5. Solvable(N, V, a, p, g)
  <2> HIDE DEF N, V, p, g, a
  <2> QED
    BY <1>1, <1>2, <1>3, <1>4, Recursion
<1>6. PICK f \in [0..N -> V] : Solves(f, N, a, p, g)
  BY <1>5 DEF Solvable
<1>7. IsRest(l, f)
  <2>1. ASSUME NEW n \in 0..N PROVE f[n] = IF n = 0 THEN a ELSE Encoded(l[Len(l) - n + 1]) \o f[n - 1]
    <3>1. CASE n = 0
      BY <1>6, <3>1 DEF Solves
    <3>2. CASE n # 0
      <4>1. n \in 1..N /\ n - 1 \in 0..N
        BY <1>1, <3>2
      <4>2. f[n - 1] \in V
        BY <4>1
      <4>3. f[n] = g[n][f[p[n]]]
        BY <1>6, <4>1 DEF Solves
      <4> QED
        BY <1>4, <3>2, <4>1, <4>2, <4>3
    <3> QED
      BY <3>1, <3>2
  <2>2. f = [n \in 0..N |-> f[n]]
    OBVIOUS
  <2> QED
    BY <2>1, <2>2 DEF IsRest
<1>8. IsRest(l, Rest(l))
  BY <1>7 DEF Rest
<1>9. ASSUME NEW h, h = Rest(l) PROVE h[0] = a /\ \A n \in 1..N : h[n] = Encoded(l[Len(l) - n + 1]) \o h[n - 1]
  <2>1. h = [n \in 0..N |-> IF n = 0 THEN a ELSE Encoded(l[Len(l) - n + 1]) \o h[n - 1]]
    BY <1>8, <1>9 DEF IsRest
  <2> HIDE DEF a
  <2>2. \A n \in 0..N : h[n] = IF n = 0 THEN a ELSE Encoded(l[Len(l) - n + 1]) \o h[n - 1]
    BY <2>1
  <2> HIDE DEF N
  <2>3. 0 \in 0..N /\ \A n \in 1..N : n \in 0..N /\ n # 0
    BY <1>1
  <2> QED
    BY <2>2, <2>3
<1>10. ASSUME NEW h, h = Rest(l) PROVE h \in [0..N -> V]
  <2> DEFINE S == {n \in Nat : n <= N => h[n] \in V}
  <2>1. ASSUME NEW n \in Nat, \A m \in 0..(n - 1) : m \in S PROVE n \in S
    <3> SUFFICES ASSUME n <= N PROVE h[n] \in V
      OBVIOUS
    <3>1. CASE n = 0
      BY <1>2, <1>9, <1>10, <3>1
    <3>2. CASE n # 0
      <4>1. n \in 1..N /\ n - 1 \in 0..(n - 1) /\ n - 1 <= N
        BY <1>1, <3>2
      <4>2. h[n - 1] \in V /\ Encoded(l[Len(l) - n + 1]) \in V
        BY <1>1, <2>1, <4>1
      <4>3. h[n] = Encoded(l[Len(l) - n + 1]) \o h[n - 1]
        BY <1>9, <1>10, <4>1
      <4> QED
        BY <4>2, <4>3, Joining
    <3> QED
      BY <3>1, <3>2
  <2>2. S \in SUBSET Nat
    OBVIOUS
  <2>3. S = Nat
    <3> HIDE DEF S
    <3> QED
      BY <2>1, <2>2, AllNumbers
  <2>4. \A n \in 0..N : h[n] \in V
    BY <1>1, <2>3
  <2>5. h = [n \in 0..N |-> IF n = 0 THEN a ELSE Encoded(l[Len(l) - n + 1]) \o h[n - 1]]
    BY <1>8, <1>10 DEF IsRest
  <2> HIDE DEF V, S
  <2> QED
    BY <2>4, <2>5
<1> QED
  BY <1>9, <1>10

(* What is to come ends with the only END in it.                           *)
Ending(r) == /\ r \in Seq(Bytes) /\ r # << >> /\ r[Len(r)] = "END"
             /\ \A i \in 1..(Len(r) - 1) : r[i] # "END"

LEMMA LongerEnds ==
    ASSUME NEW b \in Bytes, NEW r, Ending(r)
    PROVE  Ending(Encoded(b) \o r)
<1> DEFINE e == Encoded(b)
           l == e \o r
<1>1. e \in Seq(Bytes) /\ Len(e) \in Nat /\ \A i \in 1..Len(e) : e[i] # "END"
  BY EncodedIs
<1>2. r \in Seq(Bytes) /\ Len(r) \in Nat /\ Len(r) > 0
  BY DEF Ending
<1> HIDE DEF e
<1>3. /\ l \in Seq(Bytes) /\ Len(l) = Len(e) + Len(r)
      /\ \A i \in 1..Len(e) : l[i] = e[i]
      /\ \A i \in 1..Len(r) : l[Len(e) + i] = r[i]
  <2>1. e \in Seq(Bytes) /\ r \in Seq(Bytes)
    BY <1>1, <1>2
  <2> QED
    BY <2>1, Joining
<1> HIDE DEF l
<1>4. l # << >>
  BY <1>1, <1>2, <1>3
<1>5. l[Len(l)] = "END"
  <2>1. Len(r) \in 1..Len(r)
    BY <1>2
  <2> QED
    BY <1>3, <2>1 DEF Ending
<1>6. ASSUME NEW i \in 1..(Len(l) - 1) PROVE l[i] # "END"
  <2>1. CASE i <= Len(e)
    <3>1. i \in 1..Len(e)
      BY <1>1, <2>1
    <3> QED
      BY <1>1, <1>3, <3>1
  <2>2. CASE i > Len(e)
    <3>1. i - Len(e) \in 1..(Len(r) - 1) /\ i - Len(e) \in 1..Len(r) /\ Len(e) + (i - Len(e)) = i
      BY <1>1, <1>2, <1>3, <2>2
    <3>2. l[Len(e) + (i - Len(e))] = r[i - Len(e)]
      BY <1>3, <3>1
    <3> QED
      BY <3>1, <3>2 DEF Ending
  <2> QED
    BY <1>1, <2>1, <2>2
<1>7. Ending(l)
  BY <1>3, <1>4, <1>5, <1>6 DEF Ending
<1> QED
  BY <1>7 DEF l, e

LEMMA RestEnds == ASSUME NEW l \in Seq(Bytes) PROVE \A n \in 0..Len(l) : Ending(Rest(l)[n])
<1> DEFINE h == Rest(l)
           S == {n \in Nat : n <= Len(l) => Ending(h[n])}
<1>1. Len(l) \in Nat /\ h[0] = <<"END">> /\ \A n \in 1..Len(l) : h[n] = Encoded(l[Len(l) - n + 1]) \o h[n - 1]
  <2>1. Len(l) \in Nat
    OBVIOUS
  <2>2. h[0] = <<"END">>
    BY RestIs
  <2>3. \A n \in 1..Len(l) : h[n] = Encoded(l[Len(l) - n + 1]) \o h[n - 1]
    BY RestIs
  <2> QED
    BY <2>1, <2>2, <2>3
<1> HIDE DEF h
<1>2. ASSUME NEW n \in Nat, \A m \in 0..(n - 1) : m \in S PROVE n \in S
  <2> SUFFICES ASSUME n <= Len(l) PROVE Ending(h[n])
    OBVIOUS
  <2>1. CASE n = 0
    <3>1. PICK e \in Bytes : e = "END"
      BY DEF Bytes, Specials
    <3> DEFINE x == <<e>>
    <3>2. x \in Seq(Bytes) /\ Len(x) = 1 /\ x[1] = e /\ x # << >>
      OBVIOUS
    <3>3. h[n] = x
      BY <1>1, <2>1, <3>1
    <3> HIDE DEF x
    <3>4. Ending(x)
      BY <3>1, <3>2 DEF Ending
    <3> QED
      BY <3>3, <3>4
  <2>2. CASE n # 0
    <3>1. n \in 1..Len(l) /\ n - 1 \in 0..(n - 1) /\ n - 1 <= Len(l)
      BY <1>1, <2>2
    <3>2. Ending(h[n - 1])
      BY <1>2, <3>1
    <3>3. Len(l) - n + 1 \in 1..Len(l)
      BY <1>1, <3>1
    <3>4. l[Len(l) - n + 1] \in Bytes
      BY <3>3, ElementOf
    <3>5. Ending(Encoded(l[Len(l) - n + 1]) \o h[n - 1])
      BY <3>2, <3>4, LongerEnds
    <3> QED
      BY <1>1, <3>1, <3>5
  <2> QED
    BY <2>1, <2>2
<1>3. S \in SUBSET Nat
  OBVIOUS
<1>4. S = Nat
  <2> HIDE DEF S
  <2> QED
    BY <1>2, <1>3, AllNumbers
<1>5. \A n \in 0..Len(l) : Ending(h[n])
  BY <1>1, <1>4
<1> QED
  BY <1>5 DEF h

(* A frame is an END and what is to come then.                             *)
LEMMA FrameBegins == ASSUME NEW l \in Seq(Bytes) PROVE Frame(l) = <<"END">> \o Rest(l)[Len(l)]
<1> DEFINE N == Len(l)
           s == Sent(l)
           r == Rest(l)
           F == Frame(l)
           W(n) == s[N - n] \o r[n]
           S == {n \in Nat : n <= N => W(n) = F}
<1>0. N \in Nat /\ \A n \in 1..N : Encoded(l[n]) \in Seq(Bytes)
  <2>1. N \in Nat /\ \A n \in 1..N : l[n] \in Bytes
    BY ElementOf
  <2> QED
    BY <2>1, EncodedIs
<1>1. s \in [0..N -> Seq(Bytes)] /\ s[0] = <<"END">> /\ \A n \in 1..N : s[n] = s[n - 1] \o Encoded(l[n])
  BY SentIs
<1>2. r \in [0..N -> Seq(Bytes)] /\ r[0] = <<"END">> /\ \A n \in 1..N : r[n] = Encoded(l[N - n + 1]) \o r[n - 1]
  BY RestIs
<1>3. F = Append(s[N], "END")
  BY FrameIsSent
<1> HIDE DEF s, r, F, N, W
<1>4. ASSUME NEW n \in Nat, \A m \in 0..(n - 1) : m \in S PROVE n \in S
  <2> SUFFICES ASSUME n <= N PROVE W(n) = F
    OBVIOUS
  <2>1. CASE n = 0
    <3>1. s[N] \in Seq(Bytes) /\ "END" \in Bytes
      BY <1>0, <1>1 DEF Bytes, Specials
    <3>2. PICK a \in Seq(Bytes), e \in Bytes : a = s[N] /\ e = "END"
      BY <3>1
    <3>3. a \o <<e>> = Append(a, e)
      OBVIOUS
    <3>4. N - n = N
      BY <1>0, <2>1
    <3> QED
      BY <1>2, <1>3, <2>1, <3>2, <3>3, <3>4 DEF W
  <2>2. CASE n # 0
    <3>1. /\ n \in 1..N /\ n - 1 \in 0..(n - 1) /\ n - 1 \in 0..N
          /\ N - n \in 0..N /\ N - n + 1 \in 1..N /\ N - (n - 1) = N - n + 1 /\ N - n + 1 - 1 = N - n
      BY <1>0, <2>2
    <3>2. s[N - n + 1] \o r[n - 1] = F
      <4>1. W(n - 1) = F
        BY <1>4, <3>1
      <4> QED
        BY <3>1, <4>1 DEF W
    <3>3. s[N - n + 1] = s[N - n] \o Encoded(l[N - n + 1]) /\ r[n] = Encoded(l[N - n + 1]) \o r[n - 1]
      <4>1. \A k \in 1..N : s[k] = s[k - 1] \o Encoded(l[k])
        BY <1>1
      <4>2. \A k \in 1..N : r[k] = Encoded(l[N - k + 1]) \o r[k - 1]
        BY <1>2
      <4>3. PICK k \in 1..N : k = N - n + 1 /\ k - 1 = N - n
        BY <3>1
      <4>4. s[k] = s[k - 1] \o Encoded(l[k])
        BY <4>1
      <4>5. r[n] = Encoded(l[N - n + 1]) \o r[n - 1]
        BY <3>1, <4>2
      <4> QED
        BY <4>3, <4>4, <4>5
    <3>4. PICK a \in Seq(Bytes), b \in Seq(Bytes), c \in Seq(Bytes) :
             a = s[N - n] /\ b = Encoded(l[N - n + 1]) /\ c = r[n - 1]
      BY <1>0, <1>1, <1>2, <3>1
    <3>5. (a \o b) \o c = a \o (b \o c)
      BY JoinTwice DEF Associates
    <3> QED
      BY <3>2, <3>3, <3>4, <3>5 DEF W
  <2> QED
    BY <2>1, <2>2
<1>5. S \in SUBSET Nat
  OBVIOUS
<1>6. S = Nat
  <2> HIDE DEF S
  <2> QED
    BY <1>4, <1>5, AllNumbers
<1>7. N \in Nat /\ N - N = 0
  BY <1>0
<1>8. W(N) = F
  BY <1>6, <1>7
<1>9. <<"END">> \o r[N] = F
  BY <1>1, <1>7, <1>8 DEF W
<1> QED
  BY <1>9 DEF r, N, F

-----------------------------------------------------------------------------
(* The two buffers.  What is stored, what the buffer in hand has room for  *)
(* and what the other one has add up to the sum of the two lengths, and    *)
(* there is room whenever another byte is looked at; once the data buffer   *)
(* has been begun, the header's is full. *)

PortFields == {"pc", "todo", "out", "got", "room", "more", "reason", "silent"}
Buffers(p) == DOMAIN p = PortFields /\ IsSeq(p.got)
Roomy(p) ==
    /\ p.room \in Nat \ {0} /\ p.more \in {0, DataLen}
    /\ Len(p.got) + p.room + p.more = HdrLen + DataLen
    /\ DataBegun(p) => Len(p.got) >= HdrLen
Busy(p) == p.pc \in {"sync", "skip", "frame", "escape"}
PortInv ==
    /\ Buffers(port)
    /\ port.pc \in {"idle", "put"} => port.got = << >>
    /\ Busy(port) => Roomy(port)
    /\ Len(port.got) <= HdrLen + DataLen

(* The invariant gives the property, and holds at the start. *)
LEMMA PortInvHolds == (PortInv => BuffersKept) /\ (Init => PortInv)
<1>1. PortInv => BuffersKept
  BY DEF PortInv, BuffersKept
<1>2. ASSUME Init
      PROVE  PortInv
  <2>1. port = PortIdle
    BY <1>2 DEF Init
  <2>2. << >> \in Seq({}) /\ Len(<< >>) = 0 /\ HdrLen + DataLen >= 0
    BY SlipPortAssumption
  <2> QED
    BY <2>1, <2>2 DEF PortIdle, PortInv, Buffers, PortFields, Busy, IsSeq
<1> QED
  BY <1>1, <1>2

(* A remark is found, or lost in the data buffer's segment, and changes     *)
(* nothing else. *)
LEMMA NoteIs ==
    ASSUME NEW p, NEW why, DOMAIN p = PortFields
    PROVE  LET t == Note(p, why) IN
           /\ DOMAIN t = PortFields /\ t.pc = p.pc /\ t.out = p.out /\ t.got = p.got
           /\ t.room = p.room /\ t.more = p.more /\ t.silent = p.silent
           /\ t.reason = why \/ (t.reason = p.reason /\ ~DataNear /\ DataBegun(p))
<1>1. CASE DataBegun(p) /\ ~DataNear
  <2>1. Note(p, why) = p
    BY <1>1 DEF Note
  <2> QED
    BY <1>1, <2>1
<1>2. CASE ~(DataBegun(p) /\ ~DataNear)
  <2>1. Note(p, why) = [p EXCEPT !.reason = why]
    BY <1>2 DEF Note
  <2> QED
    BY <2>1 DEF PortFields
<1> QED
  BY <1>1, <1>2

(* What a byte, marked or not, makes of the routine before it is taken. *)
LEMMA MarkedIs ==
    ASSUME NEW p, NEW error, DOMAIN p = PortFields
    PROVE  LET t == Marked(p, error) IN
           /\ DOMAIN t = PortFields /\ t.pc = p.pc /\ t.out = p.out /\ t.got = p.got
           /\ t.room = p.room /\ t.more = p.more
<1>1. CASE error = "flagged"
  <2>1. Marked(p, error) = Note(p, "line")
    BY <1>1 DEF Marked
  <2> QED
    BY <2>1, NoteIs
<1>2. CASE error = "silent"
  <2>1. Marked(p, error) = [p EXCEPT !.silent = TRUE]
    BY <1>2 DEF Marked
  <2> QED
    BY <2>1 DEF PortFields
<1>3. CASE error \notin {"flagged", "silent"}
  <2>1. Marked(p, error) = p
    BY <1>3 DEF Marked
  <2> QED
    BY <2>1
<1> QED
  BY <1>1, <1>2, <1>3

(* A byte is stored while there is room for it, and the end of the room is  *)
(* remarked, or lost behind a whole header. *)
LEMMA StoredFits ==
    ASSUME NEW p, NEW b, Buffers(p), Roomy(p)
    PROVE  /\ Buffers(Stored(p, b))
           /\ Stored(p, b).pc \in {"frame", "done"}
           /\ Stored(p, b).pc = "frame" => Roomy(Stored(p, b))
           /\ Len(Stored(p, b).got) <= HdrLen + DataLen
           /\ Stored(p, b).pc = "done" =>
                  Stored(p, b).reason = "full" \/ (~DataNear /\ Len(Stored(p, b).got) >= HdrLen)
<1> DEFINE q == [p EXCEPT !.got = Append(@, b), !.room = @ - 1, !.pc = "frame"]
<1>1. PICK S : p.got \in Seq(S)
  BY DEF Buffers, IsSeq
<1>2. p.got \in Seq(S \cup {b}) /\ Len(p.got) \in Nat
  BY <1>1
<1>3. Append(p.got, b) \in Seq(S \cup {b}) /\ Len(Append(p.got, b)) = Len(p.got) + 1
  BY <1>2
<1>4. IsSeq(Append(p.got, b))
  BY <1>3 DEF IsSeq
<1>5. /\ DOMAIN q = PortFields /\ q.got = Append(p.got, b) /\ q.room = p.room - 1
      /\ q.pc = "frame" /\ q.more = p.more
  BY DEF Buffers, PortFields
<1> HIDE DEF q
<1>6. /\ q.room \in Nat /\ q.more \in Nat /\ Len(q.got) \in Nat
      /\ Len(q.got) + q.room + q.more = HdrLen + DataLen
  <2>1. /\ p.room \in Nat \ {0} /\ p.more \in Nat
        /\ Len(p.got) + p.room + p.more = HdrLen + DataLen
    BY SlipPortAssumption DEF Roomy
  <2>2. q.room = p.room - 1 /\ q.more = p.more /\ Len(q.got) = Len(p.got) + 1
    BY <1>3, <1>5
  <2>3. q.room \in Nat
    BY <2>1, <2>2
  <2>4. q.more \in Nat
    BY <2>1, <2>2
  <2>5. Len(q.got) \in Nat
    BY <1>2, <2>2
  <2>6. Len(q.got) + q.room + q.more = Len(p.got) + p.room + p.more
    <3>1. \A l, r, m, k, t, n \in Int : k = l + 1 /\ t = r - 1 /\ n = m => k + t + n = l + r + m
      OBVIOUS
    <3>2. /\ {Len(p.got), p.room, p.more} \subseteq Int
          /\ {Len(q.got), q.room, q.more} \subseteq Int
      BY <1>2, <2>1, <2>3, <2>4, <2>5
    <3> QED
      BY <2>2, <3>1, <3>2
  <2> QED
    BY <2>1, <2>3, <2>4, <2>5, <2>6
<1>7. CASE q.room = 0 /\ q.more = 0
  <2>1. Stored(p, b) = [Note(q, "full") EXCEPT !.pc = "done"]
    BY <1>7 DEF Stored, Ends, q
  <2>2. /\ DOMAIN Stored(p, b) = PortFields /\ Stored(p, b).got = q.got /\ Stored(p, b).pc = "done"
    <3>1. PICK n : n = Note(q, "full") /\ DOMAIN n = PortFields /\ n.got = q.got
      BY <1>5, NoteIs
    <3>2. Stored(p, b) = [n EXCEPT !.pc = "done"]
      BY <2>1, <3>1
    <3> QED
      BY <3>1, <3>2 DEF PortFields
  <2>3. Len(q.got) <= HdrLen + DataLen /\ Len(q.got) >= HdrLen
    BY <1>6, <1>7, SlipPortAssumption
  <2>6. Stored(p, b).reason = "full" \/ ~DataNear
    <3>1. PICK n : n = Note(q, "full") /\ DOMAIN n = PortFields /\ (n.reason = "full" \/ ~DataNear)
      BY <1>5, NoteIs
    <3>2. Stored(p, b) = [n EXCEPT !.pc = "done"]
      BY <2>1, <3>1
    <3> QED
      BY <3>1, <3>2 DEF PortFields
  <2>4. Buffers(Stored(p, b))
    BY <1>4, <1>5, <2>2 DEF Buffers
  <2>5. /\ Stored(p, b).pc = "done" /\ Len(Stored(p, b).got) <= HdrLen + DataLen
        /\ Len(Stored(p, b).got) >= HdrLen
    BY <2>2, <2>3
  <2> QED
    BY <2>4, <2>5, <2>6
<1>8. CASE q.room = 0 /\ q.more # 0
  <2>1. Stored(p, b) = [q EXCEPT !.room = @ + q.more, !.more = 0]
    BY <1>8 DEF Stored, q
  <2>2. /\ DOMAIN Stored(p, b) = PortFields /\ Stored(p, b).got = q.got /\ Stored(p, b).pc = "frame"
        /\ Stored(p, b).room = q.room + q.more /\ Stored(p, b).more = 0
    BY <2>1, <1>5 DEF PortFields
  <2>3. q.more = DataLen
    BY <1>5, <1>8 DEF Roomy
  <2>4. Len(q.got) = HdrLen
    BY <1>6, <1>8, <2>3, SlipPortAssumption
  <2>5. Buffers(Stored(p, b))
    BY <1>4, <1>5, <2>2 DEF Buffers
  <2>6. Roomy(Stored(p, b)) /\ Len(Stored(p, b).got) <= HdrLen + DataLen
    BY <1>8, <2>2, <2>3, <2>4, SlipPortAssumption DEF Roomy
  <2> QED
    BY <2>2, <2>5, <2>6
<1>9. CASE q.room # 0
  <2>1. Stored(p, b) = q
    BY <1>9 DEF Stored, q
  <2>2. Buffers(q)
    BY <1>4, <1>5 DEF Buffers
  <2>3. q.room \in Nat \ {0} /\ q.more \in Nat /\ Len(q.got) + q.room + q.more = HdrLen + DataLen
    BY <1>6, <1>9
  <2>4. Len(q.got) <= HdrLen + DataLen
    BY <1>6
  <2>5. DataBegun(q) => Len(q.got) >= HdrLen
    <3>1. DataBegun(q) => Len(p.got) >= HdrLen
      BY <1>5 DEF Roomy, DataBegun
    <3>2. Len(q.got) = Len(p.got) + 1
      BY <1>3, <1>5
    <3> QED
      BY <1>2, <3>1, <3>2, SlipPortAssumption
  <2>6. q.more \in {0, DataLen}
    BY <1>5 DEF Roomy
  <2> QED
    BY <1>5, <2>1, <2>2, <2>3, <2>4, <2>5, <2>6 DEF Roomy
<1> QED
  BY <1>7, <1>8, <1>9

(* What one byte makes of the routine. *)
LEMMA TookFits ==
    ASSUME NEW p, NEW b, Buffers(p), Busy(p), Roomy(p)
    PROVE  /\ Buffers(Took(p, b))
           /\ Took(p, b).pc \in {"sync", "skip", "frame", "escape", "done"}
           /\ Busy(Took(p, b)) => Roomy(Took(p, b))
           /\ Len(Took(p, b).got) <= HdrLen + DataLen
<1>1. Len(p.got) <= HdrLen + DataLen
  <2>1. Len(p.got) \in Nat
    BY DEF Buffers, IsSeq
  <2> QED
    BY <2>1, SlipPortAssumption DEF Roomy
<1>2. ASSUME NEW pc \in {"skip", "escape", "done"}
      PROVE  LET r == [p EXCEPT !.pc = pc] IN
             Buffers(r) /\ r.pc = pc /\ Roomy(r) /\ Len(r.got) <= HdrLen + DataLen
  <2> DEFINE r == [p EXCEPT !.pc = pc]
  <2>1. /\ DOMAIN r = PortFields /\ r.pc = pc /\ r.got = p.got
        /\ r.room = p.room /\ r.more = p.more
    BY DEF Buffers, PortFields
  <2> HIDE DEF r
  <2>2. Buffers(r) /\ r.pc = pc /\ Roomy(r) /\ Len(r.got) <= HdrLen + DataLen
    BY <1>1, <2>1 DEF Buffers, Roomy, DataBegun
  <2> QED
    BY <2>2 DEF r
<1>3. Took(p, b) \in {p, [p EXCEPT !.pc = "skip"], [p EXCEPT !.pc = "escape"], [p EXCEPT !.pc = "done"],
                      Stored(p, b), Stored(p, Unescaped(b))}
  BY DEF Took, Decode, Ends, Busy
<1>4. CASE Took(p, b) = p
  BY <1>1, <1>4 DEF Busy
<1>5. CASE Took(p, b) \in {[p EXCEPT !.pc = "skip"], [p EXCEPT !.pc = "escape"], [p EXCEPT !.pc = "done"]}
  BY <1>2, <1>5 DEF Busy
<1>6. CASE Took(p, b) = Stored(p, b)
  BY <1>6, StoredFits DEF Busy
<1>7. CASE Took(p, b) = Stored(p, Unescaped(b))
  BY <1>7, StoredFits DEF Busy
<1> QED
  BY <1>3, <1>4, <1>5, <1>6, <1>7

(* The steps of the port, and its beginning and end in Version. *)
LEMMA PortKeeps ==
    ASSUME PortInv, Version
    PROVE  PortInv'
<1>0. /\ DOMAIN port = PortFields /\ IsSeq(port.got) /\ Len(port.got) <= HdrLen + DataLen
      /\ HdrLen + DataLen >= 0 /\ HdrLen \in Nat \ {0} /\ DataLen \in Nat
  BY SlipPortAssumption DEF PortInv, Buffers
<1>1. CASE VersionSent
  <2>1. port' = [PortIdle EXCEPT !.pc = "put", !.todo = VersionRequest, !.out = <<"END">>]
    BY <1>1 DEF VersionSent, PutStarts
  <2>2. DOMAIN port' = PortFields /\ port'.got = << >> /\ port'.pc = "put"
    BY <2>1 DEF PortIdle, PortFields
  <2>3. IsSeq(port'.got)
    <3>1. << >> \in Seq({})
      OBVIOUS
    <3> QED
      BY <2>2, <3>1 DEF IsSeq
  <2> QED
    BY <1>0, <2>2, <2>3 DEF PortInv, Buffers, Busy, IsSeq
<1>2. ASSUME NEW w, PutEnds(w)
      PROVE  PortInv'
  <2>1. /\ port.pc = "put"
        /\ port' = [port EXCEPT !.pc = "sync", !.out = Append(@, "END"), !.room = HdrLen, !.more = DataLen]
    BY <1>2 DEF PutEnds
  <2>2. /\ DOMAIN port' = PortFields /\ port'.pc = "sync" /\ port'.room = HdrLen /\ port'.more = DataLen
        /\ port'.got = port.got
    BY <1>0, <2>1 DEF PortFields
  <2>3. port'.got = << >>
    BY <2>1, <2>2 DEF PortInv
  <2> QED
    BY <1>0, <2>2, <2>3 DEF PortInv, Buffers, Busy, Roomy, DataBegun, IsSeq
<1>3. CASE VersionReturns
  <2>1. port' = PortIdle
    BY <1>3 DEF VersionReturns
  <2>2. DOMAIN port' = PortFields /\ port'.got = << >> /\ port'.pc = "idle"
    BY <2>1 DEF PortIdle, PortFields
  <2>3. IsSeq(port'.got)
    <3>1. << >> \in Seq({})
      OBVIOUS
    <3> QED
      BY <2>2, <3>1 DEF IsSeq
  <2> QED
    BY <1>0, <2>2, <2>3 DEF PortInv, Buffers, Busy, IsSeq
<1>4. CASE Put
  <2>1. DOMAIN port' = PortFields /\ port'.got = port.got /\ port'.pc = "put" /\ port.pc = "put"
    BY <1>0, <1>4 DEF Put, PortFields
  <2> QED
    BY <1>0, <2>1 DEF PortInv, Buffers, Busy, IsSeq
<1>5. CASE Get
  <2> DEFINE c == Head(wire)
             p == Marked(port, c.error)
  <2>1. /\ DOMAIN p = PortFields /\ p.got = port.got /\ p.pc = port.pc
        /\ p.room = port.room /\ p.more = port.more
    BY <1>0, MarkedIs
  <2>2. port' = Took(p, c.byte) /\ Busy(port)
    BY <1>5 DEF Get, Receiving, Busy
  <2> HIDE DEF p, c
  <2>3. Buffers(p) /\ Busy(p) /\ Roomy(p)
    BY <1>0, <2>1, <2>2 DEF PortInv, Buffers, Busy, Roomy, DataBegun
  <2>4. /\ Buffers(port') /\ port'.pc \in {"sync", "skip", "frame", "escape", "done"}
        /\ Busy(port') => Roomy(port')
        /\ Len(port'.got) <= HdrLen + DataLen
    BY <2>2, <2>3, TookFits
  <2> QED
    BY <2>4 DEF PortInv, Buffers, Busy, Roomy, IsSeq
<1>6. CASE GetNothing
  <2>0. PICK n : n = Note(port, "timeout") /\ DOMAIN n = PortFields /\ n.got = port.got
    BY <1>0, NoteIs
  <2>1. DOMAIN port' = PortFields /\ port'.got = port.got /\ port'.pc = "done"
    BY <1>6, <2>0 DEF GetNothing, Ends, PortFields
  <2> QED
    BY <1>0, <2>1 DEF PortInv, Buffers, Busy, IsSeq
<1> QED
  BY <1>1, <1>2, <1>3, <1>4, <1>5, <1>6 DEF Version, VersionAnswered, PortMoves

LEMMA StepPort == PortInv /\ [Next]_vars => PortInv'
<1> SUFFICES ASSUME PortInv, [Next]_vars PROVE PortInv'
  OBVIOUS
<1>1. CASE Version
  BY <1>1, PortKeeps
<1>2. CASE UNCHANGED serial
  BY <1>2 DEF serial, PortInv, Buffers, Busy, Roomy, DataBegun, IsSeq
<1> QED
  BY <1>1, <1>2 DEF Next, Start, Configure, Clock, vars

(* Whatever comes on the line, and however long the two buffers are, port  *)
(* stores no byte of it beyond them (port_getbuf_slip_dual). *)
THEOREM NothingBeyondBuffers == Spec => []BuffersKept
<1>1. Init => PortInv
  BY PortInvHolds
<1>2. PortInv /\ [Next]_vars => PortInv'
  BY StepPort
<1>3. PortInv => BuffersKept
  BY PortInvHolds
<1> QED
  BY <1>1, <1>2, <1>3, PTL DEF Spec

-----------------------------------------------------------------------------
(* The receiver.                                                           *)

Shaped(p) == DOMAIN p = PortFields

(* What may be taken for an answer to what the FujiNet answers with r.     *)
Believed(r) == {r} \cup Earlier

(* What is handed up without a remark, and what has the header at least    *)
(* where remarks about the data are lost.                                  *)
HeaderKnown(got, r) == ~DataNear /\ \E l \in Believed(r) : SameHeader(got, l)
Heeded(got, r) == got \in Believed(r) \/ HeaderKnown(got, r)

(* What is to come, while every byte was what had been sent: the rest of a *)
(* frame, of a pair, a frame or nothing, or junk up to an END before that. *)
InFrame(got, R, r) ==
    \E l \in Believed(r), Z \in Seq(Bytes) : \E n \in 0..Len(l) :
        got = SubSeq(l, 1, n) /\ R = Rest(l)[Len(l) - n] \o Z
InEscape(got, R, r) ==
    \E l \in Believed(r), Z \in Seq(Bytes) : \E n \in 1..Len(l) :
        /\ l[n] \in {"END", "ESC"} /\ got = SubSeq(l, 1, n - 1)
        /\ R = (<<Escaped(l[n])>> \o Rest(l)[Len(l) - n]) \o Z
Begins(R, r) ==
    \/ R = << >> \/ R = Frame(r)
    \/ \E l \in Believed(r), Z \in {<< >>, Frame(r)} : R = Rest(l)[Len(l)] \o Z
Awaits(R, r) == \E t, U \in Seq(Bytes) : Ending(t) /\ Begins(U, r) /\ R = t \o U

Hearing(p, R, r) ==
    /\ p.pc \in {"sync", "skip"} => p.got = << >>
    /\ p.pc = "sync" => Awaits(R, r)
    /\ p.pc = "skip" => Begins(R, r)
    /\ p.pc = "frame" => InFrame(p.got, R, r)
    /\ p.pc = "escape" => InEscape(p.got, R, r)
    /\ p.pc = "done" => Heeded(p.got, r)

(* Another byte is stored; the buffers may be full then.                   *)
LEMMA StoredIs ==
    ASSUME NEW p, NEW b, Shaped(p)
    PROVE  LET t == Stored(p, b) IN
           /\ Shaped(t) /\ t.out = p.out /\ t.got = Append(p.got, b) /\ t.reason \in {p.reason, "full"}
           /\ t.pc \in {"frame", "done"} /\ t.silent = p.silent
<1> DEFINE q == [p EXCEPT !.got = Append(@, b), !.room = @ - 1, !.pc = "frame"]
           t == Stored(p, b)
<1>1. /\ DOMAIN q = PortFields /\ q.out = p.out /\ q.got = Append(p.got, b) /\ q.reason = p.reason
      /\ q.pc = "frame" /\ q.silent = p.silent
  BY DEF Shaped, PortFields
<1>2. \/ t = q
      \/ t = [q EXCEPT !.room = @ + q.more, !.more = 0]
      \/ t = [Note(q, "full") EXCEPT !.pc = "done"]
  <2> HIDE DEF q
  <2>1. t = CASE q.room = 0 /\ q.more = 0 -> Ends(Note(q, "full"))
              [] q.room = 0 /\ q.more # 0 -> [q EXCEPT !.room = @ + q.more, !.more = 0]
              [] OTHER -> q
    BY DEF Stored, q
  <2> HIDE DEF t
  <2>2. CASE q.room = 0 /\ q.more = 0
    BY <2>1, <2>2 DEF Ends
  <2>3. CASE q.room = 0 /\ q.more # 0
    BY <2>1, <2>3
  <2>4. CASE q.room # 0
    BY <2>1, <2>4
  <2> QED
    BY <2>2, <2>3, <2>4
<1> HIDE DEF q, t
<1>3. /\ Shaped(t) /\ t.out = p.out /\ t.got = Append(p.got, b) /\ t.reason \in {p.reason, "full"}
      /\ t.pc \in {"frame", "done"} /\ t.silent = p.silent
  <2>1. CASE t = q
    BY <1>1, <2>1 DEF Shaped
  <2>2. CASE t = [q EXCEPT !.room = @ + q.more, !.more = 0]
    BY <1>1, <2>2 DEF Shaped, PortFields
  <2>3. CASE t = [Note(q, "full") EXCEPT !.pc = "done"]
    <3>1. PICK n : /\ n = Note(q, "full") /\ DOMAIN n = PortFields /\ n.got = q.got /\ n.out = q.out
                   /\ n.silent = q.silent /\ n.reason \in {q.reason, "full"}
      BY <1>1, NoteIs
    <3>2. t = [n EXCEPT !.pc = "done"]
      BY <2>3, <3>1
    <3> QED
      BY <1>1, <3>1, <3>2 DEF Shaped, PortFields
  <2> QED
    BY <1>2, <2>1, <2>2, <2>3
<1> QED
  BY <1>3 DEF t

(* What was stored stays.                                                  *)
Grown(got, before) == got = before \/ \E x : got = Append(before, x)
LEMMA GrownIs == (\A got : Grown(got, got)) /\ \A before, x : Grown(Append(before, x), before)
BY DEF Grown

(* A byte in a frame.                                                      *)
LEMMA DecodeIs ==
    ASSUME NEW p, NEW b, Shaped(p)
    PROVE  LET t == Decode(p, b) IN
           /\ Shaped(t) /\ t.out = p.out /\ t.reason \in {p.reason, "full"} /\ t.silent = p.silent
           /\ Grown(t.got, p.got)
           /\ b = "END" => t.got = p.got /\ t.pc = "done"
           /\ b = "ESC" => t.got = p.got /\ t.pc = "escape"
           /\ b \notin {"END", "ESC"} => t = Stored(p, b)
           /\ t.pc \in {"frame", "escape", "done"}
<1>1. CASE b = "END"
  <2>1. Decode(p, b) = [p EXCEPT !.pc = "done"]
    BY <1>1 DEF Decode, Ends
  <2> QED
    BY <1>1, <2>1, GrownIs DEF Shaped, PortFields
<1>2. CASE b = "ESC"
  <2>1. Decode(p, b) = [p EXCEPT !.pc = "escape"]
    BY <1>2 DEF Decode
  <2> QED
    BY <1>2, <2>1, GrownIs DEF Shaped, PortFields
<1>3. CASE b \notin {"END", "ESC"}
  <2>1. Decode(p, b) = Stored(p, b)
    BY <1>3 DEF Decode
  <2>2. PICK t : /\ t = Stored(p, b) /\ Shaped(t) /\ t.out = p.out /\ t.got = Append(p.got, b)
                 /\ t.reason \in {p.reason, "full"} /\ t.pc \in {"frame", "done"} /\ t.silent = p.silent
    BY StoredIs
  <2>3. Grown(t.got, p.got)
    BY <2>2, GrownIs
  <2> QED
    BY <1>3, <2>1, <2>2, <2>3
<1> QED
  BY <1>1, <1>2, <1>3

(* Whatever byte is taken.                                                 *)
LEMMA TookIs ==
    ASSUME NEW p, NEW b, Shaped(p), p.pc \in {"sync", "skip", "frame", "escape"}
    PROVE  LET t == Took(p, b) IN
           /\ Shaped(t) /\ t.out = p.out /\ t.reason \in {p.reason, "full"} /\ t.silent = p.silent
           /\ Grown(t.got, p.got)
           /\ t.pc \in {"sync", "skip", "frame", "escape", "done"}
<1>1. CASE p.pc = "sync" /\ b = "END"
  <2>1. Took(p, b) = [p EXCEPT !.pc = "skip"]
    BY <1>1 DEF Took
  <2> QED
    BY <2>1, GrownIs DEF Shaped, PortFields
<1>2. CASE (p.pc = "sync" /\ b # "END") \/ (p.pc = "skip" /\ b = "END")
  <2>1. Took(p, b) = p
    BY <1>2 DEF Took
  <2> QED
    BY <2>1, GrownIs
<1>3. CASE p.pc = "frame" \/ (p.pc = "skip" /\ b # "END")
  <2>1. Took(p, b) = Decode(p, b)
    BY <1>3 DEF Took
  <2> QED
    BY <2>1, DecodeIs
<1>4. CASE p.pc = "escape"
  <2>1. Took(p, b) = Stored(p, Unescaped(b))
    BY <1>4 DEF Took
  <2> DEFINE c == Unescaped(b)
  <2> HIDE DEF c
  <2>2. PICK t : /\ t = Stored(p, c) /\ Shaped(t) /\ t.out = p.out /\ t.got = Append(p.got, c)
                 /\ t.reason \in {p.reason, "full"} /\ t.pc \in {"frame", "done"} /\ t.silent = p.silent
    BY StoredIs
  <2>3. Grown(t.got, p.got)
    BY <2>2, GrownIs
  <2>4. Took(p, b) = t
    BY <2>1, <2>2 DEF c
  <2> QED
    BY <2>2, <2>3, <2>4
<1> QED
  BY <1>1, <1>2, <1>3, <1>4

(* The next byte of the payload begins to come.                            *)
LEMMA NextByte ==
    ASSUME NEW l \in Seq(Bytes), NEW Z \in Seq(Bytes), NEW n \in 1..Len(l)
    PROVE  LET R == Rest(l)[Len(l) - n + 1] \o Z
               q == Rest(l)[Len(l) - n]
           IN
           /\ q \in Seq(Bytes) /\ l[n] \in Bytes
           /\ l[n] \notin {"END", "ESC"} => Head(R) = l[n] /\ Tail(R) = q \o Z
           /\ l[n] \in {"END", "ESC"} => Head(R) = "ESC" /\ Tail(R) = (<<Escaped(l[n])>> \o q) \o Z
<1> DEFINE m == Len(l) - n + 1
           q == Rest(l)[Len(l) - n]
           a == Rest(l)[m]
           R == a \o Z
           b == l[n]
<1>1. m \in 1..Len(l) /\ Len(l) - n \in 0..Len(l) /\ m - 1 = Len(l) - n /\ Len(l) - m + 1 = n
  <2>1. Len(l) \in Nat
    OBVIOUS
  <2> QED
    BY <2>1
<1>2. b \in Bytes
  BY ElementOf
<1>3. q \in Seq(Bytes)
  <2>1. Rest(l) \in [0..Len(l) -> Seq(Bytes)]
    BY RestIs
  <2> QED
    BY <1>1, <2>1
<1>4. a = Encoded(b) \o q
  <2>1. \A k \in 1..Len(l) : Rest(l)[k] = Encoded(l[Len(l) - k + 1]) \o Rest(l)[k - 1]
    BY RestIs
  <2>2. Rest(l)[m] = Encoded(l[Len(l) - m + 1]) \o Rest(l)[m - 1]
    BY <1>1, <2>1
  <2> QED
    BY <1>1, <2>2
<1> HIDE DEF m, q, a, b
<1>5. CASE b \notin {"END", "ESC"}
  <2>1. a = <<b>> \o q
    BY <1>2, <1>4, <1>5, EncodedIs
  <2>2. a # << >> /\ Head(a) = b /\ Tail(a) = q /\ a \in Seq(Bytes)
    BY <1>2, <1>3, <2>1, OneAhead
  <2>3. a[1] = b
    BY <2>2
  <2>4. Head(R) = a[1] /\ Tail(R) = Tail(a) \o Z
    BY <2>2, HeadOf
  <2>5. Head(R) = b /\ Tail(R) = q \o Z
    BY <2>2, <2>3, <2>4
  <2> QED
    BY <1>1, <1>2, <1>3, <1>5, <2>5 DEF a, q, b, m
<1>6. CASE b \in {"END", "ESC"}
  <2>1. Encoded(b) = <<"ESC", Escaped(b)>> /\ Escaped(b) \in Bytes /\ "ESC" \in Bytes
    BY <1>2, <1>6, EncodedIs
  <2>2. PICK c \in Bytes, d \in Bytes : c = "ESC" /\ d = Escaped(b)
    BY <2>1
  <2> DEFINE s == <<d>> \o q
  <2>3. s \in Seq(Bytes)
    BY <1>3, OneAhead
  <2>4. a = <<c>> \o s
    <3>1. <<c>> \in Seq(Bytes) /\ <<d>> \in Seq(Bytes)
      OBVIOUS
    <3>0. <<c>> \o <<d>> = <<c, d>>
      <4> DEFINE x == <<c>>
                 y == <<c, d>>
                 w == <<d>>
                 z == x \o w
      <4>1. x \in Seq(Bytes) /\ Len(x) = 1 /\ x[1] = c
        OBVIOUS
      <4>2. y \in Seq(Bytes) /\ Len(y) = 2 /\ y[1] = c /\ y[2] = d
        OBVIOUS
      <4>3. w \in Seq(Bytes) /\ Len(w) = 1 /\ w[1] = d
        OBVIOUS
      <4> HIDE DEF x, y, w
      <4>4. /\ z \in Seq(Bytes) /\ Len(z) = Len(x) + Len(w)
            /\ \A i \in 1..Len(x) : z[i] = x[i]
            /\ \A i \in 1..Len(w) : z[Len(x) + i] = w[i]
        <5>1. x \in Seq(Bytes) /\ w \in Seq(Bytes)
          BY <4>1, <4>3
        <5> QED
          BY <5>1, Joining
      <4> HIDE DEF z
      <4>5. z[1] = y[1] /\ z[2] = y[2] /\ Len(z) = 2
        BY <4>1, <4>2, <4>3, <4>4
      <4>6. \A i \in 1..2 : z[i] = y[i]
        BY <4>5
      <4>7. z = y
        BY <4>2, <4>4, <4>5, <4>6, SameSeq
      <4> QED
        BY <4>7 DEF x, y, z, w
    <3>2. (<<c>> \o <<d>>) \o q = <<c>> \o (<<d>> \o q)
      BY <1>3, <3>1, JoinTwice DEF Associates
    <3> QED
      BY <1>4, <2>1, <2>2, <3>0, <3>2
  <2> HIDE DEF s
  <2>5. a # << >> /\ Head(a) = c /\ Tail(a) = s /\ a \in Seq(Bytes)
    BY <2>3, <2>4, OneAhead
  <2>6. a[1] = c
    BY <2>5
  <2>7. Head(R) = a[1] /\ Tail(R) = Tail(a) \o Z
    BY <2>5, HeadOf
  <2>8. Head(R) = "ESC" /\ Tail(R) = s \o Z /\ s = <<Escaped(b)>> \o q
    BY <2>2, <2>5, <2>6, <2>7 DEF s
  <2> QED
    BY <1>1, <1>2, <1>3, <1>6, <2>8 DEF a, q, b, m
<1> QED
  BY <1>5, <1>6

LEMMA BelievedIs == ASSUME NEW r \in Seq(Bytes), NEW l \in Believed(r) PROVE l \in Seq(Bytes)
BY FirmwareAssumption DEF Believed

(* The payload of a frame as far as it came, and what was stored without   *)
(* room for more.                                                          *)
LEMMA PartIsHeeded ==
    ASSUME NEW r \in Seq(Bytes), NEW l \in Believed(r), NEW n \in 0..Len(l), NEW got,
           got = SubSeq(l, 1, n), Len(got) >= HdrLen
    PROVE  SameHeader(got, l)
<1>1. l \in Seq(Bytes) /\ HdrLen \in Nat
  BY BelievedIs, SlipPortAssumption
<1>2. got \in Seq(Bytes) /\ Len(got) = n /\ \A i \in 1..n : got[i] = l[i]
  BY <1>1, FirstOf
<1>3. HdrLen <= n /\ n <= Len(l) /\ Len(l) \in Nat /\ n \in Nat
  <2>1. Len(l) \in Nat
    BY <1>1
  <2> QED
    BY <1>2, <2>1
<1> DEFINE x == SubSeq(got, 1, HdrLen)
           y == SubSeq(l, 1, HdrLen)
<1>4. x \in Seq(Bytes) /\ Len(x) = HdrLen /\ \A i \in 1..HdrLen : x[i] = got[i]
  <2>1. HdrLen \in 0..Len(got)
    BY <1>1, <1>2, <1>3
  <2> QED
    BY <1>2, <2>1, FirstOf
<1>5. y \in Seq(Bytes) /\ Len(y) = HdrLen /\ \A i \in 1..HdrLen : y[i] = l[i]
  <2>1. HdrLen \in 0..Len(l)
    BY <1>1, <1>3
  <2> QED
    BY <1>1, <2>1, FirstOf
<1> HIDE DEF x, y
<1>6. \A i \in 1..HdrLen : x[i] = y[i]
  <2>1. \A i \in 1..HdrLen : i \in 1..n
    BY <1>1, <1>3
  <2> QED
    BY <1>2, <1>4, <1>5, <2>1
<1>7. x = y
  BY <1>4, <1>5, <1>6, SameSeq
<1>8. Len(l) >= HdrLen
  BY <1>1, <1>3
<1> QED
  BY <1>7, <1>8 DEF SameHeader, x, y

LEMMA StoredHears ==
    ASSUME NEW p, Buffers(p), Roomy(p), NEW b, NEW r \in Seq(Bytes), NEW l \in Believed(r), NEW n \in 0..Len(l),
           Stored(p, b).got = SubSeq(l, 1, n), NEW R, InFrame(SubSeq(l, 1, n), R, r)
    PROVE  Stored(p, b).reason = "full" \/ Hearing(Stored(p, b), R, r)
<1> DEFINE t == Stored(p, b)
<1>1. /\ t.pc \in {"frame", "done"} /\ t.got = SubSeq(l, 1, n) /\ InFrame(t.got, R, r)
      /\ t.pc = "done" => t.reason = "full" \/ (~DataNear /\ Len(t.got) >= HdrLen)
  BY StoredFits
<1> HIDE DEF t
<1>2. CASE t.pc = "frame"
  BY <1>1, <1>2 DEF Hearing, t
<1>3. CASE t.pc = "done" /\ t.reason # "full"
  <2>1. ~DataNear /\ SameHeader(t.got, l)
    BY <1>1, <1>3, PartIsHeeded
  <2>2. Heeded(t.got, r)
    BY <2>1 DEF Heeded, HeaderKnown
  <2> QED
    BY <1>3, <2>2 DEF Hearing, t
<1> QED
  BY <1>1, <1>2, <1>3 DEF t

LEMMA DecodeHears ==
    ASSUME NEW p, Buffers(p), Roomy(p), NEW r \in Seq(Bytes), NEW l \in Believed(r), NEW Z \in Seq(Bytes),
           NEW n \in 1..Len(l), p.got = SubSeq(l, 1, n - 1)
    PROVE  LET R == Rest(l)[Len(l) - n + 1] \o Z
               t == Decode(p, Head(R))
           IN  Head(R) # "END" /\ (t.reason = "full" \/ Hearing(t, Tail(R), r))
<1> DEFINE b == l[n]
           q == Rest(l)[Len(l) - n]
           R == Rest(l)[Len(l) - n + 1] \o Z
           t == Decode(p, Head(R))
<1>0. l \in Seq(Bytes)
  BY BelievedIs
<1>1. n \in 0..Len(l)
  <2>1. Len(l) \in Nat
    BY <1>0
  <2> QED
    BY <2>1
<1>2. /\ b \notin {"END", "ESC"} => Head(R) = b /\ Tail(R) = q \o Z
      /\ b \in {"END", "ESC"} => Head(R) = "ESC" /\ Tail(R) = (<<Escaped(b)>> \o q) \o Z
  BY <1>0, NextByte
<1>3. Head(R) # "END"
  BY <1>2
<1> HIDE DEF R
<1>4. CASE b \notin {"END", "ESC"}
  <2>1. t = Stored(p, b)
    BY <1>2, <1>4, DecodeIs DEF Buffers, Shaped
  <2> DEFINE v == Stored(p, b)
  <2>2. v.got = Append(p.got, b)
    <3> HIDE DEF b
    <3> QED
      BY StoredIs DEF Buffers, Shaped
  <2>3. v.got = SubSeq(l, 1, n)
    <3> HIDE DEF v
    <3> QED
      BY <1>0, <2>2, OneLonger
  <2>4. InFrame(SubSeq(l, 1, n), Tail(R), r)
    BY <1>1, <1>2, <1>4 DEF InFrame
  <2>5. v.reason = "full" \/ Hearing(v, Tail(R), r)
    <3> HIDE DEF b
    <3> QED
      BY <1>1, <2>3, <2>4, StoredHears
  <2>6. t = v
    BY <2>1
  <2> HIDE DEF t, v
  <2>7. t.reason = "full" \/ Hearing(t, Tail(R), r)
    BY <2>5, <2>6
  <2> QED
    BY <1>3, <2>7 DEF t, R
<1>5. CASE b \in {"END", "ESC"}
  <2>1. t.got = p.got /\ t.pc = "escape"
    BY <1>2, <1>5, DecodeIs DEF Buffers, Shaped
  <2>2. InEscape(t.got, Tail(R), r)
    BY <1>2, <1>5, <2>1 DEF InEscape
  <2> HIDE DEF t
  <2>3. Hearing(t, Tail(R), r)
    BY <2>1, <2>2 DEF Hearing
  <2> QED
    BY <1>3, <2>3 DEF t, R
<1> QED
  BY <1>4, <1>5

(* In a frame: another byte of the payload, or the END behind it.          *)
LEMMA FrameHears ==
    ASSUME NEW p, Buffers(p), Roomy(p), NEW r \in Seq(Bytes), NEW R, InFrame(p.got, R, r)
    PROVE  LET t == Decode(p, Head(R)) IN t.reason = "full" \/ Hearing(t, Tail(R), r)
<1>1. PICK l \in Believed(r), Z \in Seq(Bytes) : \E n \in 0..Len(l) :
         p.got = SubSeq(l, 1, n) /\ R = Rest(l)[Len(l) - n] \o Z
  BY DEF InFrame
<1>2. PICK n \in 0..Len(l) : p.got = SubSeq(l, 1, n) /\ R = Rest(l)[Len(l) - n] \o Z
  BY <1>1
<1>3. l \in Seq(Bytes) /\ Len(l) \in Nat
  <2>1. l \in Seq(Bytes)
    BY BelievedIs
  <2> QED
    BY <2>1
<1>4. CASE n = Len(l)
  <2>1. Len(l) - n = 0
    BY <1>3, <1>4
  <2>2. Rest(l)[0] = <<"END">>
    BY <1>3, RestIs
  <2>3. R = <<"END">> \o Z
    BY <1>2, <2>1, <2>2
  <2>4. Head(R) = "END"
    <3>1. "END" \in Bytes
      BY DEF Bytes, Specials
    <3> QED
      BY <2>3, <3>1, OneAhead
  <2>5. SubSeq(l, 1, n) = l
    <3> DEFINE x == SubSeq(l, 1, n)
    <3>1. x \in Seq(Bytes) /\ Len(x) = n /\ \A i \in 1..n : x[i] = l[i]
      BY <1>3, FirstOf
    <3> HIDE DEF x
    <3>2. x = l
      BY <1>3, <1>4, <3>1, SameSeq
    <3> QED
      BY <3>2 DEF x
  <2> DEFINE t == Decode(p, Head(R))
  <2>6. t.got = l /\ t.pc = "done"
    <3> DEFINE v == Decode(p, "END")
    <3>1. v.got = p.got /\ v.pc = "done"
      BY DecodeIs DEF Buffers, Shaped
    <3>2. t = v
      BY <2>4
    <3>3. p.got = l
      BY <1>2, <2>5
    <3> HIDE DEF v, t
    <3> QED
      BY <3>1, <3>2, <3>3
  <2> HIDE DEF t
  <2>7. Hearing(t, Tail(R), r)
    BY <2>6 DEF Hearing, Heeded
  <2> QED
    BY <2>7 DEF t
<1>5. CASE n # Len(l)
  <2>1. PICK m \in 1..Len(l) : m - 1 = n /\ Len(l) - m + 1 = Len(l) - n
    <3>1. n + 1 \in 1..Len(l) /\ (n + 1) - 1 = n /\ Len(l) - (n + 1) + 1 = Len(l) - n
      BY <1>3, <1>5
    <3> QED
      BY <3>1
  <2>2. p.got = SubSeq(l, 1, m - 1) /\ R = Rest(l)[Len(l) - m + 1] \o Z
    BY <1>2, <2>1
  <2> QED
    BY <2>2, DecodeHears
<1> QED
  BY <1>4, <1>5

(* The second byte of a pair.                                              *)
LEMMA EscapeHears ==
    ASSUME NEW p, Buffers(p), Roomy(p), NEW r \in Seq(Bytes), NEW R, InEscape(p.got, R, r)
    PROVE  LET t == Stored(p, Unescaped(Head(R))) IN t.reason = "full" \/ Hearing(t, Tail(R), r)
<1>1. PICK l \in Believed(r), Z \in Seq(Bytes) : \E n \in 1..Len(l) :
         /\ l[n] \in {"END", "ESC"} /\ p.got = SubSeq(l, 1, n - 1)
         /\ R = (<<Escaped(l[n])>> \o Rest(l)[Len(l) - n]) \o Z
  BY DEF InEscape
<1>2. PICK n \in 1..Len(l) :
         /\ l[n] \in {"END", "ESC"} /\ p.got = SubSeq(l, 1, n - 1)
         /\ R = (<<Escaped(l[n])>> \o Rest(l)[Len(l) - n]) \o Z
  BY <1>1
<1>3. l \in Seq(Bytes)
  BY BelievedIs
<1> DEFINE q == Rest(l)[Len(l) - n]
           c == Escaped(l[n])
           s == <<c>> \o q
           t == Stored(p, Unescaped(Head(R)))
<1>4. n \in 0..Len(l) /\ Len(l) - n \in 0..Len(l)
  <2>1. Len(l) \in Nat
    BY <1>3
  <2> QED
    BY <2>1
<1>5. q \in Seq(Bytes)
  <2>1. Rest(l) \in [0..Len(l) -> Seq(Bytes)]
    BY <1>3, RestIs
  <2> QED
    BY <1>4, <2>1
<1>6. c \in Bytes /\ Unescaped(c) = l[n]
  <2>1. l[n] \in Bytes
    BY <1>3, ElementOf
  <2> QED
    BY <1>2, <2>1, EncodedIs
<1> HIDE DEF c, q
<1>7. s \in Seq(Bytes) /\ s # << >> /\ Head(s) = c /\ Tail(s) = q
  BY <1>5, <1>6, OneAhead
<1>8. R = s \o Z
  BY <1>2 DEF c, q
<1> HIDE DEF s
<1>9. s[1] = c
  BY <1>7
<1>10. Head(R) = c /\ Tail(R) = q \o Z
  BY <1>7, <1>8, <1>9, HeadOf
<1> DEFINE v == Stored(p, l[n])
<1>11. t = v
  BY <1>6, <1>10
<1>12. v.got = SubSeq(l, 1, n)
  <2>1. v.got = Append(p.got, l[n])
    BY StoredIs DEF Buffers, Shaped
  <2> HIDE DEF v
  <2> QED
    BY <1>2, <1>3, <2>1, OneLonger
<1>13. InFrame(SubSeq(l, 1, n), Tail(R), r)
  BY <1>4, <1>10 DEF InFrame, q
<1>14. v.reason = "full" \/ Hearing(v, Tail(R), r)
  BY <1>4, <1>12, <1>13, StoredHears
<1> HIDE DEF t, v
<1>15. t.reason = "full" \/ Hearing(t, Tail(R), r)
  BY <1>11, <1>14
<1> QED
  BY <1>15 DEF t

(* Behind the first END: the payload begins to come, or there is none.     *)
LEMMA RestFirst ==
    ASSUME NEW r \in Seq(Bytes), NEW l \in Seq(Bytes), NEW Z \in Seq(Bytes)
    PROVE  LET R == Rest(l)[Len(l)] \o Z IN
           /\ Len(l) = 0 => Head(R) = "END" /\ Tail(R) = Z
           /\ Len(l) # 0 => 1 \in 1..Len(l) /\ R = Rest(l)[Len(l) - 1 + 1] \o Z
<1>1. Len(l) \in Nat
  OBVIOUS
<1>2. CASE Len(l) = 0
  <2>1. Rest(l)[Len(l)] = <<"END">>
    <3>1. Rest(l)[0] = <<"END">>
      BY RestIs
    <3> QED
      BY <1>2, <3>1
  <2>2. PICK e \in Bytes : e = "END"
    BY DEF Bytes, Specials
  <2>3. Head(<<e>> \o Z) = e /\ Tail(<<e>> \o Z) = Z
    BY OneAhead
  <2> QED
    BY <1>2, <2>1, <2>2, <2>3
<1>3. CASE Len(l) # 0
  <2>1. 1 \in 1..Len(l) /\ Len(l) - 1 + 1 = Len(l)
    BY <1>1, <1>3
  <2> QED
    BY <1>3, <2>1
<1> QED
  BY <1>2, <1>3

LEMMA SkipHears ==
    ASSUME NEW p, Buffers(p), Roomy(p), p.pc = "skip", p.got = << >>, NEW r \in Seq(Bytes),
           NEW R, R # << >>, Begins(R, r)
    PROVE  LET t == Took(p, Head(R)) IN t.reason = "full" \/ Hearing(t, Tail(R), r)
<1> DEFINE t == Took(p, Head(R))
<1>1. Frame(r) \in Seq(Bytes) /\ Rest(r)[Len(r)] \in Seq(Bytes) /\ r \in Believed(r)
  <2>1. Len(r) \in 0..Len(r)
    <3>1. Len(r) \in Nat
      OBVIOUS
    <3> QED
      BY <3>1
  <2>2. Rest(r)[Len(r)] \in Seq(Bytes)
    <3>1. Rest(r) \in [0..Len(r) -> Seq(Bytes)]
      BY RestIs
    <3> QED
      BY <2>1, <3>1
  <2>3. PICK e \in Bytes : e = "END"
    BY DEF Bytes, Specials
  <2>4. <<e>> \o Rest(r)[Len(r)] \in Seq(Bytes)
    BY <2>2, OneAhead
  <2>5. Frame(r) = <<e>> \o Rest(r)[Len(r)]
    BY <2>3, FrameBegins
  <2> QED
    BY <2>2, <2>4, <2>5 DEF Believed
<1>2. ASSUME Head(R) = "END", Begins(Tail(R), r) PROVE Hearing(t, Tail(R), r)
  <2>1. t = p
    BY <1>2 DEF Took
  <2> HIDE DEF t
  <2> QED
    BY <1>2, <2>1 DEF Hearing
<1>3. ASSUME R = Frame(r) PROVE t.reason = "full" \/ Hearing(t, Tail(R), r)
  <2> DEFINE q == Rest(r)[Len(r)]
             N == << >>
  <2>1. PICK e \in Bytes : e = "END"
    BY DEF Bytes, Specials
  <2>2. q \in Seq(Bytes)
    BY <1>1
  <2>3. R = <<e>> \o q
    BY <1>3, <2>1, FrameBegins
  <2>4. Head(R) = "END" /\ Tail(R) = q
    BY <2>1, <2>2, <2>3, OneAhead
  <2>5. q = q \o N
    <3>1. N \o q = q \o N
      BY <2>2, JoinNothing
    <3>2. N \o q = q
      BY <2>2, NothingAhead
    <3> QED
      BY <3>1, <3>2
  <2>6. Begins(q, r)
    BY <1>1, <2>5 DEF Begins
  <2> HIDE DEF q
  <2>7. Hearing(t, Tail(R), r)
    BY <1>2, <2>4, <2>6
  <2> QED
    BY <2>7
<1>4. ASSUME NEW l \in Believed(r), NEW Z \in {<< >>, Frame(r)}, R = Rest(l)[Len(l)] \o Z
      PROVE  t.reason = "full" \/ Hearing(t, Tail(R), r)
  <2>1. l \in Seq(Bytes)
    BY BelievedIs
  <2>2. Z \in Seq(Bytes)
    <3>1. CASE Z = << >>
      BY <3>1
    <3>2. CASE Z = Frame(r)
      BY <1>1, <3>2
    <3> QED
      BY <3>1, <3>2
  <2>3. CASE Len(l) = 0
    <3>1. Head(R) = "END" /\ Tail(R) = Z
      BY <1>4, <2>1, <2>2, <2>3, RestFirst
    <3>2. Begins(Z, r)
      BY DEF Begins
    <3> QED
      BY <1>2, <3>1, <3>2
  <2>4. CASE Len(l) # 0
    <3>1. 1 \in 1..Len(l) /\ R = Rest(l)[Len(l) - 1 + 1] \o Z
      BY <1>4, <2>1, <2>2, <2>4, RestFirst
    <3>2. SubSeq(l, 1, 1 - 1) = << >>
      <4> DEFINE x == SubSeq(l, 1, 1 - 1)
      <4>1. 1 - 1 \in 0..Len(l) /\ 1 - 1 = 0
        BY <3>1
      <4>2. x \in Seq(Bytes) /\ Len(x) = 1 - 1
        BY <2>1, <4>1, FirstOf
      <4> HIDE DEF x
      <4>3. x = << >>
        BY <4>1, <4>2
      <4> QED
        BY <4>3 DEF x
    <3>3. Head(R) # "END" /\ (Decode(p, Head(R)).reason = "full" \/ Hearing(Decode(p, Head(R)), Tail(R), r))
      <4>1. PICK n \in 1..Len(l) : n = 1
        BY <3>1
      <4>2. p.got = SubSeq(l, 1, n - 1) /\ R = Rest(l)[Len(l) - n + 1] \o Z
        BY <3>1, <3>2, <4>1
      <4> QED
        BY <2>2, <4>2, DecodeHears
    <3>4. t = Decode(p, Head(R))
      BY <3>3 DEF Took
    <3> QED
      BY <3>3, <3>4
  <2> QED
    BY <2>3, <2>4
<1>5. t.reason = "full" \/ Hearing(t, Tail(R), r)
  <2> HIDE DEF t
  <2> QED
    BY <1>3, <1>4 DEF Begins
<1> QED
  BY <1>5

(* Up to the first END.                                                    *)
LEMMA SyncHears ==
    ASSUME NEW p, Shaped(p), p.pc = "sync", p.got = << >>, NEW r \in Seq(Bytes), NEW R, Awaits(R, r)
    PROVE  LET t == Took(p, Head(R)) IN Hearing(t, Tail(R), r)
<1> DEFINE t == Took(p, Head(R))
<1>1. PICK j \in Seq(Bytes), U \in Seq(Bytes) : Ending(j) /\ Begins(U, r) /\ R = j \o U
  BY DEF Awaits
<1>2. /\ j # << >> /\ Len(j) \in Nat /\ Len(j) > 0 /\ j[Len(j)] = "END"
      /\ \A i \in 1..(Len(j) - 1) : j[i] # "END"
  BY <1>1 DEF Ending
<1>3. Head(R) = j[1] /\ Tail(R) = Tail(j) \o U
  BY <1>1, <1>2, HeadOf
<1>4. /\ Tail(j) \in Seq(Bytes) /\ Len(Tail(j)) = Len(j) - 1
      /\ \A i \in 1..(Len(j) - 1) : Tail(j)[i] = j[i + 1]
  BY <1>2, TailOf
<1>5. CASE Len(j) = 1
  <2> DEFINE x == Tail(j)
  <2>1. x = << >>
    <3>1. x \in Seq(Bytes) /\ Len(x) = Len(j) - 1
      BY <1>4
    <3> HIDE DEF x
    <3>2. Len(x) = 0
      BY <1>5, <3>1
    <3> QED
      BY <3>1, <3>2
  <2>2. x \o U = U
    BY <2>1, NothingAhead
  <2>3. Head(R) = "END" /\ Tail(R) = U
    BY <1>2, <1>3, <1>5, <2>2
  <2>4. t = [p EXCEPT !.pc = "skip"]
    BY <2>3 DEF Took
  <2>5. t.pc = "skip" /\ t.got = << >>
    BY <2>4 DEF Shaped, PortFields
  <2> HIDE DEF t
  <2>6. Hearing(t, Tail(R), r)
    BY <1>1, <2>3, <2>5 DEF Hearing
  <2> QED
    BY <2>6 DEF t
<1>6. CASE Len(j) # 1
  <2>1. 1 \in 1..(Len(j) - 1) /\ Len(j) - 1 \in 1..(Len(j) - 1) /\ Len(j) - 1 + 1 = Len(j)
    <3>1. PICK k \in Nat : k = Len(j) /\ k > 0 /\ k # 1
      BY <1>2, <1>6
    <3>2. 1 \in 1..(k - 1) /\ k - 1 \in 1..(k - 1) /\ k - 1 + 1 = k
      BY <3>1
    <3> QED
      BY <3>1, <3>2
  <2>2. Head(R) # "END"
    BY <1>2, <1>3, <2>1
  <2> DEFINE x == Tail(j)
  <2>3. Ending(x)
    <3>1. x \in Seq(Bytes) /\ Len(x) = Len(j) - 1
      BY <1>4
    <3>2. x[Len(x)] = "END"
      BY <1>2, <1>4, <2>1
    <3>3. ASSUME NEW i \in 1..(Len(x) - 1) PROVE x[i] # "END"
      <4>1. i \in 1..(Len(j) - 1) /\ i + 1 \in 1..(Len(j) - 1)
        BY <1>2, <3>1
      <4> QED
        BY <1>2, <1>4, <4>1
    <3> HIDE DEF x
    <3>4. x # << >>
      BY <1>2, <2>1, <3>1
    <3> QED
      BY <3>1, <3>2, <3>3, <3>4 DEF Ending
  <2>4. t = p
    BY <2>2 DEF Took
  <2>5. Awaits(Tail(R), r)
    <3>1. x \in Seq(Bytes) /\ Tail(R) = x \o U
      BY <1>3, <1>4
    <3> HIDE DEF x
    <3> QED
      BY <1>1, <2>3, <3>1 DEF Awaits
  <2> HIDE DEF t
  <2>6. Hearing(t, Tail(R), r)
    BY <2>4, <2>5 DEF Hearing
  <2> QED
    BY <2>6 DEF t
<1> QED
  BY <1>5, <1>6

(* Whatever byte comes of those that were to come.                         *)
LEMMA TookHears ==
    ASSUME NEW p, Buffers(p), Roomy(p), p.pc \in {"sync", "skip", "frame", "escape"}, NEW r \in Seq(Bytes),
           NEW R, R # << >>, Hearing(p, R, r)
    PROVE  LET t == Took(p, Head(R)) IN t.reason = "full" \/ Hearing(t, Tail(R), r)
<1>1. CASE p.pc = "sync"
  BY <1>1, SyncHears DEF Hearing, Buffers, Shaped
<1>2. CASE p.pc = "skip"
  BY <1>2, SkipHears DEF Hearing
<1>3. CASE p.pc = "frame"
  <2>1. Took(p, Head(R)) = Decode(p, Head(R)) /\ InFrame(p.got, R, r)
    BY <1>3 DEF Hearing, Took
  <2> QED
    BY <2>1, FrameHears
<1>4. CASE p.pc = "escape"
  <2>1. Took(p, Head(R)) = Stored(p, Unescaped(Head(R))) /\ InEscape(p.got, R, r)
    BY <1>4 DEF Hearing, Took
  <2> QED
    BY <2>1, EscapeHears
<1> QED
  BY <1>1, <1>2, <1>3, <1>4

-----------------------------------------------------------------------------
(* What the wire carries, and how it is related to what was sent.          *)

Hears == [byte : Bytes, error : Marks]
Plain(w, R) == /\ w \in Seq(Hears) /\ Len(w) = Len(R)
               /\ \A i \in 1..Len(R) : w[i].byte = R[i] /\ w[i].error = "none"

(* Up to the first byte that a fault has come to, what was sent.           *)
Follows(w, R) ==
    \A j \in 1..Len(w) : (\A i \in 1..j : w[i].error = "none") => j <= Len(R) /\ w[j].byte = R[j]

LEMMA CleanIs == ASSUME NEW R \in Seq(Bytes) PROVE Plain(Clean(R), R)
<1> DEFINE w == Clean(R)
<1>1. DOMAIN R = 1..Len(R) /\ Len(R) \in Nat
  OBVIOUS
<1>2. w = [i \in 1..Len(R) |-> [byte |-> R[i], error |-> "none"]]
  BY <1>1 DEF Clean
<1> HIDE DEF w
<1>3. ASSUME NEW i \in 1..Len(R) PROVE w[i] \in Hears /\ w[i].byte = R[i] /\ w[i].error = "none"
  <2>1. R[i] \in Bytes
    BY ElementOf
  <2>2. w[i] = [byte |-> R[i], error |-> "none"]
    BY <1>2
  <2> QED
    BY <2>1, <2>2 DEF Hears, Marks
<1>4. w \in [1..Len(R) -> Hears]
  BY <1>2, <1>3
<1>5. w \in Seq(Hears) /\ Len(w) = Len(R)
  <2> HIDE DEF Hears, Marks
  <2> QED
    BY <1>1, <1>4
<1>6. Plain(w, R)
  BY <1>3, <1>5 DEF Plain
<1> QED
  BY <1>6 DEF w

LEMMA PlainJoined ==
    ASSUME NEW Q \in Seq(Bytes), NEW R \in Seq(Bytes), NEW v, NEW w, Plain(v, Q), Plain(w, R)
    PROVE  Plain(v \o w, Q \o R)
<1> DEFINE u == v \o w
           P == Q \o R
<1>1. v \in Seq(Hears) /\ w \in Seq(Hears) /\ Len(v) = Len(Q) /\ Len(w) = Len(R)
  BY DEF Plain
<1>2. /\ u \in Seq(Hears) /\ Len(u) = Len(v) + Len(w) /\ Len(v) \in Nat /\ Len(w) \in Nat
      /\ \A i \in 1..Len(v) : u[i] = v[i]
      /\ \A i \in 1..Len(w) : u[Len(v) + i] = w[i]
  <2>1. v \in Seq(Hears) /\ w \in Seq(Hears)
    BY <1>1
  <2> QED
    BY <2>1, Joining
<1>3. /\ P \in Seq(Bytes) /\ Len(P) = Len(Q) + Len(R)
      /\ \A i \in 1..Len(Q) : P[i] = Q[i]
      /\ \A i \in 1..Len(R) : P[Len(Q) + i] = R[i]
  BY Joining
<1> HIDE DEF u, P
<1>4. ASSUME NEW i \in 1..Len(P) PROVE u[i].byte = P[i] /\ u[i].error = "none"
  <2>1. CASE i <= Len(Q)
    <3>1. i \in 1..Len(Q)
      BY <1>1, <1>2, <1>3, <2>1
    <3>2. u[i] = v[i] /\ P[i] = Q[i]
      BY <1>1, <1>2, <1>3, <3>1
    <3> QED
      BY <3>1, <3>2 DEF Plain
  <2>2. CASE i > Len(Q)
    <3>1. PICK k \in 1..Len(R) : Len(Q) + k = i
      <4>1. i - Len(Q) \in 1..Len(R) /\ Len(Q) + (i - Len(Q)) = i
        BY <1>1, <1>2, <1>3, <2>2
      <4> QED
        BY <4>1
    <3>2. u[i] = w[k] /\ P[i] = R[k]
      BY <1>1, <1>2, <1>3, <3>1
    <3> QED
      BY <3>2 DEF Plain
  <2> QED
    BY <1>1, <1>2, <1>3, <2>1, <2>2
<1>5. Plain(u, P)
  BY <1>1, <1>2, <1>3, <1>4 DEF Plain
<1> QED
  BY <1>5 DEF u, P

(* The same of what one fault makes of it.                                 *)
LEMMA FaultyFollow ==
    ASSUME NEW R \in Seq(Bytes), NEW a, Plain(a, R), NEW w \in Faulty(a) \cup {a}
    PROVE  w \in Seq(Hears) /\ Follows(w, R)
<1> DEFINE N == Len(R)
<1>1. N \in Nat
  OBVIOUS
<1>2. a \in Seq(Hears) /\ Len(a) = N /\ DOMAIN a = 1..N
  BY DEF Plain
<1>3. \A i \in 1..N : a[i].byte = R[i] /\ a[i] \in Hears
  <2>1. \A i \in 1..N : a[i] \in Hears
    BY <1>2, ElementOf
  <2> QED
    BY <2>1 DEF Plain
<1> HIDE DEF N
<1>4. ASSUME NEW i \in 1..(Len(a) - 1), w = Overrun(a, i) PROVE w \in Seq(Hears) /\ Follows(w, R)
  <2>1. w = [j \in 1..(N - 1) |-> [byte |-> a[IF j < i THEN j ELSE j + 1].byte, error |-> IF j = i THEN "flagged" ELSE "none"]]
    BY <1>2, <1>4 DEF Overrun
  <2>2. ASSUME NEW j \in 1..(N - 1)
        PROVE  w[j] \in Hears /\ (j < i => w[j].byte = R[j]) /\ (j = i => w[j].error # "none") /\ j \in 1..N
    <3>1. PICK k \in 1..N : k = IF j < i THEN j ELSE j + 1
      BY <1>1
    <3>2. w[j] = [byte |-> a[k].byte, error |-> IF j = i THEN "flagged" ELSE "none"]
      BY <2>1, <3>1
    <3>3. a[k].byte \in Bytes /\ a[k].byte = R[k]
      BY <1>3 DEF Hears, Marks
    <3>4. w[j] \in Hears /\ w[j].byte = R[k] /\ (j = i => w[j].error # "none")
      <4>1. PICK c \in Bytes : c = a[k].byte
        BY <3>3
      <4>2. CASE j = i
        <5>1. w[j] = [byte |-> c, error |-> "flagged"]
          BY <3>2, <4>1, <4>2
        <5> QED
          BY <3>3, <4>1, <4>2, <5>1 DEF Hears, Marks
      <4>3. CASE j # i
        <5>1. w[j] = [byte |-> c, error |-> "none"]
          BY <3>2, <4>1, <4>3
        <5> QED
          BY <3>3, <4>1, <4>3, <5>1 DEF Hears, Marks
      <4> QED
        BY <4>2, <4>3
    <3> QED
      BY <1>1, <3>1, <3>4
  <2>3. w \in [1..(N - 1) -> Hears]
    BY <2>1, <2>2
  <2>4. N - 1 \in Nat /\ i \in 1..(N - 1)
    BY <1>1, <1>2
  <2>5. w \in Seq(Hears) /\ Len(w) = N - 1
    <3>1. PICK n \in Nat : n = N - 1
      BY <2>4
    <3> QED
      BY <2>3, <3>1
  <2>6. ASSUME NEW j \in 1..Len(w), \A k \in 1..j : w[k].error = "none" PROVE j <= N /\ w[j].byte = R[j]
    <3>1. j \in 1..(N - 1)
      BY <2>5
    <3>2. ~(i <= j)
      <4> SUFFICES ASSUME i <= j PROVE FALSE
        OBVIOUS
      <4>1. i \in 1..j /\ w[i].error # "none"
        BY <2>2, <2>4
      <4> QED
        BY <2>6, <4>1
    <3> QED
      BY <1>1, <2>2, <2>4, <3>1, <3>2
  <2> QED
    BY <2>5, <2>6 DEF Follows, N
<1>5. ASSUME NEW i \in 0..Len(a), w = SubSeq(a, 1, i) PROVE w \in Seq(Hears) /\ Follows(w, R)
  <2>1. w \in Seq(Hears) /\ Len(w) = i /\ \A j \in 1..i : w[j] = a[j]
    <3>1. a \in Seq(Hears)
      BY <1>2
    <3> QED
      BY <1>5, <3>1, FirstOf
  <2>2. ASSUME NEW j \in 1..Len(w) PROVE j <= N /\ w[j].byte = R[j]
    <3>1. j \in 1..i /\ j \in 1..N
      BY <1>1, <1>2, <2>1
    <3> QED
      BY <1>1, <1>3, <2>1, <3>1
  <2> QED
    BY <2>1, <2>2 DEF Follows, N
<1>6. ASSUME NEW i \in 1..N, NEW b \in Bytes, NEW e \in Marks \ {"none"}, w = [a EXCEPT ![i] = [byte |-> b, error |-> e]]
      PROVE  w \in Seq(Hears) /\ Follows(w, R)
  <2>1. [byte |-> b, error |-> e] \in Hears
    BY DEF Hears, Marks
  <2>2. PICK c \in Hears : c = [byte |-> b, error |-> e] /\ c.error # "none"
    BY <2>1
  <2>3. w = [a EXCEPT ![i] = c]
    BY <1>6, <2>2
  <2>4. a \in [1..N -> Hears]
    BY <1>2, <1>3
  <2>5. w \in [1..N -> Hears] /\ w[i] = c /\ \A j \in 1..N : j # i => w[j] = a[j]
    <3> HIDE DEF Hears, Marks
    <3> QED
      BY <2>3, <2>4
  <2>6. w \in Seq(Hears) /\ Len(w) = N
    <3> HIDE DEF Hears, Marks
    <3> QED
      BY <1>1, <2>5
  <2>7. ASSUME NEW j \in 1..Len(w), \A k \in 1..j : w[k].error = "none" PROVE j <= N /\ w[j].byte = R[j]
    <3>1. j \in 1..N /\ j \in 1..j
      BY <1>1, <2>6
    <3>2. j # i
      BY <2>2, <2>5, <2>7, <3>1
    <3> QED
      BY <1>1, <1>3, <2>5, <3>1, <3>2
  <2> QED
    BY <2>6, <2>7 DEF Follows, N
<1>7. CASE w = a
  <2>1. ASSUME NEW j \in 1..Len(w) PROVE j <= N /\ w[j].byte = R[j]
    <3>1. j \in 1..N
      BY <1>2, <1>7
    <3> QED
      BY <1>1, <1>3, <1>7, <3>1
  <2> QED
    BY <1>2, <1>7, <2>1 DEF Follows, N
<1>8. \/ \E i \in 1..(Len(a) - 1) : w = Overrun(a, i)
      \/ \E i \in 0..Len(a) : w = SubSeq(a, 1, i)
      \/ \E i \in 1..N, b \in Bytes, e \in Marks \ {"none"} : w = [a EXCEPT ![i] = [byte |-> b, error |-> e]]
      \/ w = a
  <2>1. 0..(Len(a) - 1) \subseteq 0..Len(a)
    BY <1>1, <1>2
  <2> QED
    BY <1>2, <2>1 DEF Faulty
<1> QED
  BY <1>4, <1>5, <1>6, <1>7, <1>8

(* A byte that no fault has come to is the next one sent.                  *)
LEMMA FollowsOn ==
    ASSUME NEW w \in Seq(Hears), NEW R \in Seq(Bytes), Follows(w, R), w # << >>
    PROVE  /\ Tail(w) \in Seq(Hears) /\ Head(w).byte \in Bytes
           /\ Head(w).error = "none" => /\ R # << >> /\ Head(w).byte = Head(R) /\ Tail(R) \in Seq(Bytes)
                                /\ Follows(Tail(w), Tail(R))
<1>1. Len(w) \in Nat /\ Len(w) > 0 /\ Len(R) \in Nat
  OBVIOUS
<1>2. /\ Head(w) = w[1] /\ Tail(w) \in Seq(Hears) /\ Len(Tail(w)) = Len(w) - 1
      /\ \A i \in 1..(Len(w) - 1) : Tail(w)[i] = w[i + 1]
  BY <1>1, TailOf
<1>3. Head(w) \in Hears
  <2>1. 1 \in 1..Len(w)
    BY <1>1
  <2> QED
    BY <1>2, <2>1, ElementOf
<1>4. ASSUME Head(w).error = "none"
      PROVE  /\ R # << >> /\ Head(w).byte = Head(R) /\ Tail(R) \in Seq(Bytes)
             /\ Follows(Tail(w), Tail(R))
  <2>1. 1 <= Len(R) /\ w[1].byte = R[1]
    <3>1. 1 \in 1..Len(w) /\ \A i \in 1..1 : w[i].error = "none"
      BY <1>1, <1>2, <1>4
    <3> QED
      BY <3>1 DEF Follows
  <2>2. /\ R # << >> /\ Head(R) = R[1] /\ Tail(R) \in Seq(Bytes) /\ Len(Tail(R)) = Len(R) - 1
        /\ \A i \in 1..(Len(R) - 1) : Tail(R)[i] = R[i + 1]
    <3>1. Len(R) > 0
      BY <1>1, <2>1
    <3> QED
      BY <3>1, TailOf
  <2>3. ASSUME NEW j \in 1..Len(Tail(w)), \A i \in 1..j : Tail(w)[i].error = "none"
        PROVE  j <= Len(Tail(R)) /\ Tail(w)[j].byte = Tail(R)[j]
    <3>1. j \in 1..(Len(w) - 1) /\ j + 1 \in 1..Len(w) /\ j + 1 \in Nat
      BY <1>1, <1>2
    <3>2. ASSUME NEW i \in 1..(j + 1) PROVE w[i].error = "none"
      <4>1. CASE i = 1
        BY <1>2, <1>4, <4>1
      <4>2. CASE i # 1
        <5>1. PICK k \in 1..j : k + 1 = i /\ k \in 1..(Len(w) - 1)
          <6>1. i - 1 \in 1..j /\ (i - 1) + 1 = i /\ i - 1 \in 1..(Len(w) - 1)
            BY <1>1, <3>1, <4>2
          <6> QED
            BY <6>1
        <5>2. Tail(w)[k] = w[i]
          BY <1>2, <5>1
        <5> QED
          BY <2>3, <5>2
      <4> QED
        BY <4>1, <4>2
    <3>3. j + 1 <= Len(R) /\ w[j + 1].byte = R[j + 1]
      BY <3>1, <3>2 DEF Follows
    <3>4. j \in 1..(Len(R) - 1) /\ j <= Len(Tail(R))
      BY <1>1, <2>2, <3>1, <3>3
    <3> QED
      BY <1>2, <2>2, <3>1, <3>3, <3>4
  <2>4. Follows(Tail(w), Tail(R))
    BY <2>3 DEF Follows
  <2> QED
    BY <1>2, <2>1, <2>2, <2>4
<1> QED
  BY <1>2, <1>3, <1>4 DEF Hears, Marks

(* The answer on the wire, behind what an earlier one left there.          *)
LEMMA EndAlone == Ending(<<"END">>)
<1>1. PICK e \in Bytes : e = "END"
  BY DEF Bytes, Specials
<1> DEFINE x == <<e>>
<1>2. x \in Seq(Bytes) /\ Len(x) = 1 /\ x[1] = e /\ x # << >>
  OBVIOUS
<1> HIDE DEF x
<1>3. Ending(x)
  BY <1>1, <1>2 DEF Ending
<1> QED
  BY <1>1, <1>3 DEF x

LEMMA FrameIs ==
    ASSUME NEW l \in Seq(Bytes)
    PROVE  LET q == Rest(l)[Len(l)] IN
           q \in Seq(Bytes) /\ Ending(q) /\ Frame(l) = <<"END">> \o q /\ Frame(l) \in Seq(Bytes)
<1> DEFINE q == Rest(l)[Len(l)]
<1>1. Len(l) \in 0..Len(l)
  <2>1. Len(l) \in Nat
    OBVIOUS
  <2> QED
    BY <2>1
<1>2. q \in Seq(Bytes) /\ Ending(q)
  <2>1. Ending(q)
    BY <1>1, RestEnds
  <2> HIDE DEF q
  <2> QED
    BY <2>1 DEF Ending
<1>3. Frame(l) = <<"END">> \o q
  BY FrameBegins
<1>4. <<"END">> \o q \in Seq(Bytes)
  <2>1. "END" \in Bytes
    BY DEF Bytes, Specials
  <2> HIDE DEF q
  <2> QED
    BY <1>2, <2>1, OneAhead
<1> QED
  BY <1>2, <1>3, <1>4

(* The tail of a frame is up to its END.                                   *)
LEMMA TailEnds ==
    ASSUME NEW x \in Seq(Bytes), NEW k \in DOMAIN Frame(x), k # 1
    PROVE  Ending(SubSeq(Frame(x), k, Len(Frame(x))))
<1> DEFINE F == Frame(x)
           q == Rest(x)[Len(x)]
           l == SubSeq(F, k, Len(F))
<1>1. F \in Seq(Bytes) /\ Ending(q) /\ F = <<"END">> \o q
  BY FrameIs
<1> HIDE DEF q
<1>2. q \in Seq(Bytes) /\ Len(q) \in Nat /\ Len(q) > 0 /\ q[Len(q)] = "END" /\ \A i \in 1..(Len(q) - 1) : q[i] # "END"
  BY <1>1 DEF Ending
<1>3. Len(F) = Len(q) + 1 /\ \A i \in 1..Len(q) : F[i + 1] = q[i]
  <2>1. PICK e \in Bytes : e = "END"
    BY DEF Bytes, Specials
  <2> DEFINE y == <<e>>
  <2>2. y \in Seq(Bytes) /\ Len(y) = 1
    OBVIOUS
  <2>3. F = y \o q
    BY <1>1, <2>1
  <2> HIDE DEF y
  <2>4. y \in Seq(Bytes) /\ q \in Seq(Bytes)
    BY <1>2, <2>2
  <2>5. Len(y \o q) = Len(y) + Len(q) /\ \A i \in 1..Len(q) : (y \o q)[Len(y) + i] = q[i]
    BY <2>4, Joining
  <2> HIDE DEF F
  <2>6. \A i \in 1..Len(q) : 1 + i = i + 1
    OBVIOUS
  <2> QED
    BY <1>2, <2>2, <2>3, <2>5, <2>6
<1> HIDE DEF F
<1>4. k \in 2..Len(F)
  <2>1. DOMAIN F = 1..Len(F) /\ Len(F) \in Nat
    BY <1>1
  <2>2. k \in DOMAIN F
    BY DEF F
  <2> QED
    BY <2>1, <2>2
<1>5. PICK m \in Nat, n \in Nat : m + 1 = k /\ m + n = Len(F) /\ m > 0 /\ n > 0
  <2>1. k - 1 \in Nat /\ Len(F) - (k - 1) \in Nat /\ (k - 1) + 1 = k /\ (k - 1) + (Len(F) - (k - 1)) = Len(F)
        /\ k - 1 > 0 /\ Len(F) - (k - 1) > 0
    <3>1. PICK j \in Nat : j = Len(F) /\ k \in 2..j
      <4>1. Len(F) \in Nat
        BY <1>2, <1>3
      <4> QED
        BY <1>4, <4>1
    <3>2. k - 1 \in Nat /\ j - (k - 1) \in Nat /\ (k - 1) + 1 = k /\ (k - 1) + (j - (k - 1)) = j
          /\ k - 1 > 0 /\ j - (k - 1) > 0
      BY <3>1
    <3> QED
      BY <3>1, <3>2
  <2> QED
    BY <2>1
<1>6. /\ SubSeq(F, m + 1, m + n) \in Seq(Bytes) /\ Len(SubSeq(F, m + 1, m + n)) = n
      /\ \A i \in 1..n : SubSeq(F, m + 1, m + n)[i] = F[m + i]
  <2>1. m + n <= Len(F)
    BY <1>5
  <2> QED
    BY <1>1, <2>1, Parted
<1>7. l = SubSeq(F, m + 1, m + n)
  BY <1>5
<1>8. l \in Seq(Bytes) /\ Len(l) = n /\ \A i \in 1..n : l[i] = F[m + i]
  BY <1>6, <1>7
<1> HIDE DEF l
<1>9. ASSUME NEW i \in 1..n PROVE l[i] = q[m + i - 1] /\ m + i - 1 \in 1..Len(q)
  <2>1. m + i - 1 \in 1..Len(q) /\ (m + i - 1) + 1 = m + i
    BY <1>2, <1>3, <1>5
  <2>2. F[(m + i - 1) + 1] = q[m + i - 1]
    BY <1>3, <2>1
  <2> QED
    BY <1>8, <2>1, <2>2
<1>10. l[Len(l)] = "END"
  <2>1. n \in 1..n /\ m + n - 1 = Len(q)
    BY <1>2, <1>3, <1>5
  <2> QED
    BY <1>2, <1>8, <1>9, <2>1
<1>11. ASSUME NEW i \in 1..(Len(l) - 1) PROVE l[i] # "END"
  <2>1. i \in 1..n /\ m + i - 1 \in 1..(Len(q) - 1)
    BY <1>2, <1>3, <1>5, <1>8
  <2> QED
    BY <1>2, <1>9, <2>1
<1>12. Ending(l)
  <2>1. l # << >>
    BY <1>5, <1>8
  <2> QED
    BY <1>8, <1>10, <1>11, <2>1 DEF Ending
<1> QED
  BY <1>12 DEF l, F

LEMMA LeftoverAwaits ==
    ASSUME NEW r \in Seq(Bytes), NEW l \in Leftovers
    PROVE  l \in Seq(Bytes) /\ Awaits(l \o Frame(r), r)
<1> DEFINE E == <<"END">>
           G == Frame(r)
           g == Rest(r)[Len(r)]
           N == << >>
<1>1. G \in Seq(Bytes) /\ g \in Seq(Bytes) /\ G = E \o g
  BY FrameIs
<1>2. r \in Believed(r) /\ Earlier \subseteq Believed(r)
  BY DEF Believed
<1>3. E \in Seq(Bytes) /\ Ending(E)
  BY EndAlone DEF Ending
<1>4. Begins(g, r)
  <2>1. g = g \o N
    <3> HIDE DEF g
    <3>1. N \o g = g \o N
      BY <1>1, JoinNothing
    <3>2. N \o g = g
      BY <1>1, NothingAhead
    <3> QED
      BY <3>1, <3>2
  <2> QED
    BY <1>2, <2>1 DEF Begins
<1>5. Begins(G, r)
  BY DEF Begins
<1>6. CASE l = N
  <2>1. l \in Seq(Bytes)
    BY <1>6
  <2>2. l \o G = E \o g
    <3>1. N \o G = G
      BY <1>1, NothingAhead
    <3> QED
      BY <1>1, <1>6, <3>1
  <2> HIDE DEF g, G, E
  <2>3. Awaits(l \o G, r)
    BY <1>1, <1>3, <1>4, <2>2 DEF Awaits
  <2> QED
    BY <2>1, <2>3 DEF G
<1>7. ASSUME NEW x \in Earlier, NEW k \in DOMAIN Frame(x), l = SubSeq(Frame(x), k, Len(Frame(x)))
      PROVE  l \in Seq(Bytes) /\ Awaits(l \o Frame(r), r)
  <2> DEFINE q == Rest(x)[Len(x)]
  <2>0. x \in Seq(Bytes)
    BY FirmwareAssumption
  <2>1. q \in Seq(Bytes) /\ Frame(x) = E \o q /\ Frame(x) \in Seq(Bytes)
    BY <2>0, FrameIs
  <2>2. CASE k = 1
    <3>1. l = Frame(x)
      <4>1. PICK F \in Seq(Bytes) : F = Frame(x)
        BY <2>1
      <4>2. SubSeq(F, 1, Len(F)) = F
        OBVIOUS
      <4> QED
        BY <1>7, <2>2, <4>1, <4>2
    <3> HIDE DEF G, E
    <3>2. Begins(q \o G, r)
      BY <1>2 DEF Begins, G
    <3> HIDE DEF q
    <3>3. l \o G = E \o (q \o G) /\ q \o G \in Seq(Bytes)
      <4>1. (E \o q) \o G = E \o (q \o G)
        <5>1. E \in Seq(Bytes) /\ q \in Seq(Bytes) /\ G \in Seq(Bytes)
          BY <1>1, <1>3, <2>1
        <5> QED
          BY <5>1, JoinTwice DEF Associates
      <4>2. q \o G \in Seq(Bytes)
        BY <1>1, <2>1, Joining
      <4> QED
        BY <2>1, <3>1, <4>1, <4>2
    <3>4. Awaits(l \o G, r)
      BY <1>3, <3>2, <3>3 DEF Awaits
    <3> QED
      BY <2>1, <3>1, <3>4 DEF G
  <2>3. CASE k # 1
    <3>1. Ending(l)
      BY <1>7, <2>0, <2>3, TailEnds
    <3>2. l \in Seq(Bytes)
      BY <3>1 DEF Ending
    <3> HIDE DEF G
    <3>3. Awaits(l \o G, r)
      BY <1>1, <1>5, <3>1, <3>2 DEF Awaits
    <3> QED
      BY <3>2, <3>3 DEF G
  <2> QED
    BY <2>2, <2>3
<1>8. l = << >> \/ \E x \in Earlier : \E k \in DOMAIN Frame(x) : l = SubSeq(Frame(x), k, Len(Frame(x)))
  BY DEF Leftovers
<1> QED
  BY <1>6, <1>7, <1>8

LEMMA AnswersHear ==
    ASSUME scenario \in Scenarios, NEW a \in Answers
    PROVE  /\ scenario.reply \in Seq(Bytes)
           /\ \E R \in Seq(Bytes) : Awaits(R, scenario.reply) /\ Plain(a, R)
<1> DEFINE r == scenario.reply
           G == Frame(r)
<1>1. r \in Seq(Bytes)
  BY FirmwareAssumption
<1>2. PICK l \in Leftovers : a = Clean(l) \o Clean(G)
  BY DEF Answers
<1>3. G \in Seq(Bytes)
  BY <1>1, FrameIs
<1>4. l \in Seq(Bytes) /\ Awaits(l \o G, r)
  BY <1>1, LeftoverAwaits
<1> HIDE DEF G
<1>5. l \o G \in Seq(Bytes)
  BY <1>3, <1>4, Joining
<1>6. Plain(Clean(l) \o Clean(G), l \o G)
  BY <1>3, <1>4, CleanIs, PlainJoined
<1> QED
  BY <1>1, <1>2, <1>4, <1>5, <1>6

-----------------------------------------------------------------------------
(* The exchange.                                                           *)

(* n bytes of the request have been sent.                                  *)
Sends(p) ==
    \E n \in 0..Len(VersionRequest) :
        p.todo = SubSeq(VersionRequest, n + 1, Len(VersionRequest)) /\ p.out = Sent(VersionRequest)[n]

FrameInv ==
    /\ Shaped(port)
    /\ boot \in {"parse", "version"} => scenario \in Scenarios
    /\ port.pc # "idle" => boot = "version"
    /\ port.pc = "put" => Sends(port) /\ port.got = << >>
    /\ Receiving => port.out = Frame(VersionRequest) /\ wire \in Seq(Hears)
    /\ Receiving /\ port.reason = "none" /\ ~port.silent =>
           \/ HeaderKnown(port.got, scenario.reply)
           \/ \E R \in Seq(Bytes) : Hearing(port, R, scenario.reply) /\ Follows(wire, R)
    /\ PortDone /\ port.reason = "none" /\ ~port.silent => Heeded(port.got, scenario.reply)

LEMMA RequestIs == VersionRequest \in Seq(Bytes) /\ Len(VersionRequest) \in Nat
<1>1. VersionRequest \in Seq(Bytes)
  BY FirmwareAssumption
<1> QED
  BY <1>1

LEMMA IdleIs == Shaped(PortIdle) /\ PortIdle.pc = "idle" /\ PortIdle.got = << >>
BY DEF Shaped, PortIdle, PortFields

(* Steps that leave the port idle.                                         *)
LEMMA IdleFrame ==
    ASSUME Shaped(port'), port'.pc = "idle", boot' \in {"parse", "version"} => (scenario \in Scenarios)'
    PROVE  FrameInv'
BY DEF FrameInv, Receiving, PortDone

LEMMA StartsFrame == ASSUME FrameInv, boot = "version", VersionSent, scenario' = scenario PROVE FrameInv'
<1> DEFINE N == Len(VersionRequest)
<1>1. port' = [PortIdle EXCEPT !.pc = "put", !.todo = VersionRequest, !.out = <<"END">>] /\ boot' = boot
  BY DEF VersionSent, PutStarts
<1>2. /\ Shaped(port') /\ port'.pc = "put" /\ port'.todo = VersionRequest /\ port'.out = <<"END">>
      /\ port'.got = << >>
  BY <1>1, IdleIs DEF Shaped, PortFields
<1>3. 0 \in 0..N /\ 0 + 1 = 1
  BY RequestIs
<1>4. SubSeq(VersionRequest, 0 + 1, N) = VersionRequest
  <2>1. PICK l \in Seq(Bytes) : l = VersionRequest
    BY RequestIs
  <2>2. SubSeq(l, 1, Len(l)) = l
    OBVIOUS
  <2> QED
    BY <1>3, <2>1, <2>2
<1>5. Sent(VersionRequest)[0] = <<"END">>
  BY RequestIs, SentIs
<1>6. Sends(port')
  BY <1>2, <1>3, <1>4, <1>5 DEF Sends
<1>7. scenario \in Scenarios
  BY DEF FrameInv
<1> QED
  BY <1>1, <1>2, <1>6, <1>7 DEF FrameInv, Sends, Receiving, PortDone

LEMMA PutFrame == ASSUME FrameInv, Put, boot' = boot, scenario' = scenario PROVE FrameInv'
<1> DEFINE l == VersionRequest
           N == Len(l)
           b == Head(port.todo)
<1>1. /\ Shaped(port) /\ port.pc = "put" /\ port.todo # << >> /\ Sends(port) /\ port.got = << >>
      /\ boot = "version" /\ scenario \in Scenarios
  BY DEF FrameInv, Put
<1>2. PICK n \in 0..N : port.todo = SubSeq(l, n + 1, N) /\ port.out = Sent(l)[n]
  BY <1>1 DEF Sends
<1>3. l \in Seq(Bytes) /\ N \in Nat
  BY RequestIs
<1>4. PICK m \in Nat : n + m = N
  <2>1. N - n \in Nat /\ n + (N - n) = N
    BY <1>3
  <2> QED
    BY <2>1
<1>5. /\ port.todo \in Seq(Bytes) /\ Len(port.todo) = m
      /\ \A i \in 1..m : port.todo[i] = l[n + i]
  <2>1. n \in Nat /\ n + m <= Len(l)
    BY <1>3, <1>4
  <2>2. /\ SubSeq(l, n + 1, n + m) \in Seq(Bytes) /\ Len(SubSeq(l, n + 1, n + m)) = m
        /\ \A i \in 1..m : SubSeq(l, n + 1, n + m)[i] = l[n + i]
    BY <1>3, <2>1, Parted
  <2> QED
    BY <1>2, <1>4, <2>2
<1>6. m > 0
  <2>1. PICK x \in Seq(Bytes) : x = port.todo /\ Len(x) = m /\ x # << >>
    BY <1>1, <1>5
  <2> QED
    BY <2>1
<1>7. PICK k \in 1..N : k = n + 1
  <2>1. n + 1 \in 1..N
    BY <1>3, <1>4, <1>6
  <2> QED
    BY <2>1
<1>8. b = l[k] /\ Tail(port.todo) = SubSeq(l, k + 1, N)
  <2>1. PICK x \in Seq(Bytes) : x = port.todo
    BY <1>5
  <2>2. Len(x) = m /\ \A i \in 1..m : x[i] = l[n + i]
    BY <1>5, <2>1
  <2>3. /\ Head(x) = x[1] /\ Tail(x) \in Seq(Bytes) /\ Len(Tail(x)) = m - 1
        /\ \A i \in 1..(m - 1) : Tail(x)[i] = x[i + 1]
    <3>1. Len(x) > 0
      BY <1>6, <2>2
    <3> QED
      BY <2>2, <3>1, TailOf
  <2> DEFINE y == SubSeq(l, k + 1, N)
             z == Tail(x)
  <2>4. y \in Seq(Bytes) /\ Len(y) = m - 1 /\ \A i \in 1..(m - 1) : y[i] = l[k + i]
    <3>1. k \in Nat /\ m - 1 \in Nat /\ k + (m - 1) = N /\ k + (m - 1) <= Len(l)
      BY <1>3, <1>4, <1>6, <1>7
    <3>2. PICK h \in Nat : h = m - 1 /\ k + h = N /\ k + h <= Len(l)
      BY <3>1
    <3>3. /\ SubSeq(l, k + 1, k + h) \in Seq(Bytes) /\ Len(SubSeq(l, k + 1, k + h)) = h
          /\ \A i \in 1..h : SubSeq(l, k + 1, k + h)[i] = l[k + i]
      BY <1>3, <3>1, <3>2, Parted
    <3> QED
      BY <3>2, <3>3
  <2> HIDE DEF y, z
  <2>5. ASSUME NEW i \in 1..(m - 1) PROVE z[i] = y[i]
    <3>1. i + 1 \in 1..m /\ n + (i + 1) = k + i
      BY <1>6, <1>7
    <3>2. z[i] = x[i + 1] /\ x[i + 1] = l[n + (i + 1)] /\ y[i] = l[k + i]
      BY <2>2, <2>3, <2>4, <3>1 DEF z
    <3> QED
      BY <3>1, <3>2
  <2>6. z \in Seq(Bytes) /\ Len(z) = m - 1
    BY <2>3 DEF z
  <2>7. z = y
    BY <2>4, <2>5, <2>6, SameSeq
  <2>8. Head(x) = l[k]
    <3>1. 1 \in 1..m
      BY <1>6
    <3> QED
      BY <1>7, <2>2, <2>3, <3>1
  <2> QED
    BY <2>1, <2>7, <2>8 DEF y, z
<1>9. b \in Bytes
  <2>1. l[k] \in Bytes
    BY <1>3, ElementOf
  <2> QED
    BY <1>8, <2>1
<1> DEFINE o == IF b \in {"END", "ESC"} THEN port.out \o <<"ESC", Escaped(b)>> ELSE Append(port.out, b)
<1>10. port' = [port EXCEPT !.todo = Tail(@), !.out = o] /\ wire' = wire
  BY DEF Put
<1>11. o = Sent(l)[k]
  <2>1. Sent(l)[k] = Sent(l)[k - 1] \o Encoded(l[k]) /\ k - 1 = n
    <3>1. \A i \in 1..N : Sent(l)[i] = Sent(l)[i - 1] \o Encoded(l[i])
      BY <1>3, SentIs
    <3>2. Sent(l)[k] = Sent(l)[k - 1] \o Encoded(l[k])
      BY <3>1
    <3>3. k - 1 = n
      BY <1>7
    <3> QED
      BY <3>2, <3>3
  <2>2. Sent(l)[k] = port.out \o Encoded(b)
    BY <1>2, <1>8, <2>1
  <2>3. port.out \in Seq(Bytes)
    <3>1. Sent(l) \in [0..N -> Seq(Bytes)]
      BY <1>3, SentIs
    <3> QED
      BY <1>2, <3>1
  <2> HIDE DEF b
  <2>4. CASE b \in {"END", "ESC"}
    <3>1. Encoded(b) = <<"ESC", Escaped(b)>>
      BY <1>9, <2>4, EncodedIs
    <3> QED
      BY <2>2, <2>4, <3>1
  <2>5. CASE b \notin {"END", "ESC"}
    <3>1. Encoded(b) = <<b>>
      BY <1>9, <2>5, EncodedIs
    <3>2. PICK a \in Seq(Bytes) : a = port.out
      BY <2>3
    <3>3. a \o <<b>> = Append(a, b)
      BY <1>9
    <3> QED
      BY <2>2, <2>5, <3>1, <3>2, <3>3
  <2> QED
    BY <2>4, <2>5
<1> HIDE DEF o, b
<1>12. /\ Shaped(port') /\ port'.pc = "put" /\ port'.todo = SubSeq(l, k + 1, N) /\ port'.out = Sent(l)[k]
       /\ port'.got = << >>
  BY <1>1, <1>8, <1>10, <1>11 DEF Shaped, PortFields
<1>13. k \in 0..N
  BY <1>3, <1>7
<1>14. Sends(port')
  BY <1>12, <1>13 DEF Sends
<1> QED
  BY <1>1, <1>12, <1>14 DEF FrameInv, Sends, Receiving, PortDone

(* The answer, or nothing, is on its way when the request is out.          *)
LEMMA PutEndsFrame ==
    ASSUME FrameInv, boot = "version", boot' = boot, scenario' = scenario, NEW w, PutEnds(w),
           w = << >> \/ w \in Answers \/ w \in UNION {Faulty(a) : a \in Answers}
    PROVE  FrameInv'
<1> DEFINE l == VersionRequest
           N == Len(l)
           r == scenario.reply
<1>1. /\ Shaped(port) /\ port.pc = "put" /\ port.todo = << >> /\ Sends(port) /\ port.got = << >>
      /\ scenario \in Scenarios
  BY DEF FrameInv, PutEnds
<1>2. port' = [port EXCEPT !.pc = "sync", !.out = Append(port.out, "END"), !.room = HdrLen, !.more = DataLen]
      /\ wire' = w
  BY DEF PutEnds
<1>3. Shaped(port') /\ port'.pc = "sync" /\ port'.got = << >> /\ port'.out = Append(port.out, "END")
  BY <1>1, <1>2 DEF Shaped, PortFields
<1>4. port.out = Sent(l)[N]
  <2>1. PICK n \in 0..N : port.todo = SubSeq(l, n + 1, N) /\ port.out = Sent(l)[n]
    BY <1>1 DEF Sends
  <2>2. l \in Seq(Bytes) /\ N \in Nat
    BY RequestIs
  <2>3. PICK m \in Nat : n + m = N
    <3>1. N - n \in Nat /\ n + (N - n) = N
      BY <2>2
    <3> QED
      BY <3>1
  <2>4. Len(SubSeq(l, n + 1, n + m)) = m
    <3>1. n \in Nat /\ n + m <= Len(l)
      BY <2>2, <2>3
    <3> QED
      BY <2>2, <3>1, Parted
  <2>5. Len(port.todo) = m
    BY <2>1, <2>3, <2>4
  <2>6. Len(port.todo) = 0
    BY <1>1
  <2>7. n = N
    BY <2>2, <2>3, <2>5, <2>6
  <2> QED
    BY <2>1, <2>7
<1>5. port'.out = Frame(l)
  BY <1>3, <1>4, FrameIsSent
<1>6. r \in Seq(Bytes)
  BY <1>1, FirmwareAssumption
<1>7. w \in Seq(Hears) /\ \E R \in Seq(Bytes) : Awaits(R, r) /\ Follows(w, R)
  <2>1. CASE w = << >>
    <3> DEFINE R == << >> \o Frame(r)
    <3>1. << >> \in Leftovers
      BY DEF Leftovers
    <3>2. Awaits(R, r)
      BY <1>6, <3>1, LeftoverAwaits
    <3>3. R \in Seq(Bytes)
      <4>1. Frame(r) \in Seq(Bytes)
        BY <1>6, FrameIs
      <4>2. R = Frame(r)
        BY <4>1, NothingAhead
      <4> QED
        BY <4>1, <4>2
    <3> HIDE DEF R
    <3>4. w \in Seq(Hears) /\ Len(w) = 0
      BY <2>1
    <3>5. Follows(w, R)
      BY <3>4 DEF Follows
    <3> QED
      BY <3>2, <3>3, <3>4, <3>5
  <2>2. ASSUME NEW a \in Answers, w \in Faulty(a) \cup {a}
        PROVE  w \in Seq(Hears) /\ \E R \in Seq(Bytes) : Awaits(R, r) /\ Follows(w, R)
    <3>1. PICK R \in Seq(Bytes) : Awaits(R, r) /\ Plain(a, R)
      BY <1>1, AnswersHear
    <3>2. w \in Seq(Hears) /\ Follows(w, R)
      BY <2>2, <3>1, FaultyFollow
    <3> QED
      BY <3>1, <3>2
  <2> QED
    BY <2>1, <2>2
<1>8. PICK R \in Seq(Bytes) : Awaits(R, r) /\ Follows(w, R)
  BY <1>7
<1>9. Hearing(port', R, r)
  BY <1>3, <1>8 DEF Hearing
<1>10. wire' \in Seq(Hears) /\ Follows(wire', R)
  BY <1>2, <1>7, <1>8
<1> QED
  BY <1>1, <1>3, <1>5, <1>9, <1>10 DEF FrameInv, Receiving, PortDone

(* A header that is known stays so.                                        *)
LEMMA KnownStays ==
    ASSUME NEW r \in Seq(Bytes), NEW got, IsSeq(got), HeaderKnown(got, r), NEW more, Grown(more, got)
    PROVE  HeaderKnown(more, r)
<1>1. PICK l \in Believed(r) : SameHeader(got, l)
  BY DEF HeaderKnown
<1>2. CASE more = got
  BY <1>2
<1>3. ASSUME NEW x, more = Append(got, x) PROVE HeaderKnown(more, r)
  <2>1. PICK S : got \in Seq(S)
    BY DEF IsSeq
  <2> DEFINE T == S \cup {x}
  <2>2. got \in Seq(T) /\ x \in T
    BY <2>1
  <2> HIDE DEF T
  <2>3. /\ more \in Seq(T) /\ Len(more) = Len(got) + 1 /\ Len(got) \in Nat
        /\ \A i \in 1..Len(got) : more[i] = got[i]
    BY <1>3, <2>2
  <2>4. HdrLen \in Nat /\ Len(got) >= HdrLen /\ Len(l) >= HdrLen /\ SubSeq(got, 1, HdrLen) = SubSeq(l, 1, HdrLen)
    BY <1>1, SlipPortAssumption DEF SameHeader
  <2> DEFINE y == SubSeq(got, 1, HdrLen)
             z == SubSeq(more, 1, HdrLen)
  <2>5. y \in Seq(T) /\ Len(y) = HdrLen /\ \A i \in 1..HdrLen : y[i] = got[i]
    <3>1. HdrLen \in 0..Len(got)
      BY <2>3, <2>4
    <3> QED
      BY <2>2, <3>1, FirstOf
  <2>6. z \in Seq(T) /\ Len(z) = HdrLen /\ \A i \in 1..HdrLen : z[i] = more[i]
    <3>1. HdrLen \in 0..Len(more)
      BY <2>3, <2>4
    <3> QED
      BY <2>3, <3>1, FirstOf
  <2> HIDE DEF y, z
  <2>7. \A i \in 1..HdrLen : y[i] = z[i]
    <3>1. \A i \in 1..HdrLen : i \in 1..Len(got)
      BY <2>3, <2>4
    <3> QED
      BY <2>3, <2>5, <2>6, <3>1
  <2>8. y = z
    BY <2>5, <2>6, <2>7, SameSeq
  <2>9. Len(more) >= HdrLen
    BY <2>3, <2>4
  <2>10. SameHeader(more, l)
    BY <2>4, <2>8, <2>9 DEF SameHeader, y, z
  <2> QED
    BY <2>10 DEF HeaderKnown
<1> QED
  BY <1>2, <1>3 DEF Grown

(* What was heard so far of a frame whose remarks are lost from here on.   *)
LEMMA HeardIsKnown ==
    ASSUME NEW p, Buffers(p), Busy(p), Roomy(p), ~DataNear, DataBegun(p),
           NEW r \in Seq(Bytes), NEW R, Hearing(p, R, r)
    PROVE  HeaderKnown(p.got, r)
<1>1. Len(p.got) >= HdrLen /\ HdrLen \in Nat \ {0}
  BY SlipPortAssumption DEF Roomy
<1>2. p.pc \in {"frame", "escape"}
  <2>1. p.got # << >>
    <3>1. Len(<< >>) = 0
      OBVIOUS
    <3> QED
      BY <1>1, <3>1
  <2> QED
    BY <2>1 DEF Busy, Hearing
<1>3. PICK l \in Believed(r) : \E n \in 0..Len(l) : p.got = SubSeq(l, 1, n)
  <2>1. CASE p.pc = "frame"
    BY <2>1 DEF Hearing, InFrame
  <2>2. CASE p.pc = "escape"
    <3>1. PICK l \in Believed(r) : \E n \in 1..Len(l) : p.got = SubSeq(l, 1, n - 1)
      BY <2>2 DEF Hearing, InEscape
    <3>2. PICK n \in 1..Len(l) : p.got = SubSeq(l, 1, n - 1)
      BY <3>1
    <3>3. n - 1 \in 0..Len(l)
      <4>1. l \in Seq(Bytes)
        BY BelievedIs
      <4>2. Len(l) \in Nat
        BY <4>1
      <4> QED
        BY <4>2
    <3> QED
      BY <3>2, <3>3
  <2> QED
    BY <1>2, <2>1, <2>2
<1>4. PICK n \in 0..Len(l) : p.got = SubSeq(l, 1, n)
  BY <1>3
<1>5. SameHeader(p.got, l)
  BY <1>1, <1>4, PartIsHeeded
<1> QED
  BY <1>5 DEF HeaderKnown

(* One byte is taken, or none comes.                                       *)
LEMMA GetFrame == ASSUME FrameInv, PortInv, Get, boot' = boot, scenario' = scenario PROVE FrameInv'
<1> DEFINE c == Head(wire)
           r == scenario.reply
           p == Marked(port, c.error)
           t == Took(p, c.byte)
<1>1. /\ Shaped(port) /\ port.pc \in {"sync", "skip", "frame", "escape"} /\ boot = "version"
      /\ scenario \in Scenarios /\ port.out = Frame(VersionRequest) /\ wire \in Seq(Hears)
      /\ wire # << >>
  BY DEF FrameInv, Get, Receiving
<1>2. port' = t /\ wire' = Tail(wire)
  BY DEF Get
<1>3. r \in Seq(Bytes)
  BY <1>1, FirmwareAssumption
<1>4. /\ Shaped(p) /\ p.pc = port.pc /\ p.out = port.out /\ p.got = port.got
      /\ c.error = "none" => p = port
      /\ p.reason = "none" /\ ~p.silent =>
             /\ port.reason = "none" /\ ~port.silent /\ c.error \in {"none", "flagged"}
             /\ c.error = "flagged" => ~DataNear /\ DataBegun(port)
  <2>1. Shaped(p) /\ p.pc = port.pc /\ p.out = port.out /\ p.got = port.got
    BY <1>1, MarkedIs DEF Shaped
  <2>2. CASE c.error = "flagged"
    <3>1. p = Note(port, "line")
      BY <2>2 DEF Marked
    <3>2. PICK n : /\ n = Note(port, "line") /\ n.silent = port.silent
                   /\ n.reason = "line" \/ (n.reason = port.reason /\ ~DataNear /\ DataBegun(port))
      BY <1>1, NoteIs DEF Shaped
    <3>3. p = n
      BY <3>1, <3>2
    <3> HIDE DEF p, c
    <3> QED
      BY <2>1, <2>2, <3>2, <3>3
  <2>3. CASE c.error = "silent"
    <3>1. p = [port EXCEPT !.silent = TRUE]
      BY <2>3 DEF Marked
    <3>2. p.silent
      BY <1>1, <3>1 DEF Shaped, PortFields
    <3> HIDE DEF p, c
    <3> QED
      BY <2>1, <2>3, <3>2
  <2>4. CASE c.error = "none"
    <3>1. p = port
      BY <2>4 DEF Marked
    <3> HIDE DEF p, c
    <3> QED
      BY <2>1, <2>4, <3>1
  <2>5. c.error \in Marks
    <3>1. Len(wire) > 0 /\ Len(wire) \in Nat
      BY <1>1
    <3>2. c = wire[1] /\ 1 \in 1..Len(wire)
      BY <1>1, <3>1, TailOf
    <3>3. c \in Hears
      <4> HIDE DEF c, Hears
      <4> QED
        BY <1>1, <3>2, ElementOf
    <3> QED
      BY <3>3 DEF Hears
  <2> HIDE DEF p, c
  <2> QED
    BY <2>2, <2>3, <2>4, <2>5 DEF Marks
<1>0. Buffers(port) /\ Busy(port) /\ Roomy(port)
  BY <1>1 DEF PortInv, Busy
<1>5. Tail(wire) \in Seq(Hears)
  <2>1. Len(wire) > 0
    BY <1>1
  <2> QED
    BY <1>1, <2>1, TailOf
<1> HIDE DEF p
<1>6. /\ Shaped(t) /\ t.out = p.out /\ t.reason \in {p.reason, "full"} /\ t.silent = p.silent
      /\ Grown(t.got, p.got)
      /\ t.pc \in {"sync", "skip", "frame", "escape", "done"}
  BY <1>1, <1>4, TookIs
<1>9. ASSUME HeaderKnown(port.got, r) PROVE HeaderKnown(t.got, r)
  <2>1. Grown(t.got, port.got) /\ IsSeq(port.got)
    BY <1>0, <1>4, <1>6 DEF Buffers
  <2> HIDE DEF t
  <2> QED
    BY <1>3, <1>9, <2>1, KnownStays
<1>10. ASSUME NEW R \in Seq(Bytes), Hearing(port, R, r), c.error = "flagged", t.reason = "none", ~t.silent
       PROVE  HeaderKnown(t.got, r)
  <2>1. p.reason = "none" /\ ~p.silent
    BY <1>6, <1>10
  <2>2. ~DataNear /\ DataBegun(port)
    BY <1>4, <1>10, <2>1
  <2>3. HeaderKnown(port.got, r)
    BY <1>0, <1>3, <1>10, <2>2, HeardIsKnown
  <2> QED
    BY <1>9, <2>3
<1>7. ASSUME t.reason = "none", ~t.silent
      PROVE  HeaderKnown(t.got, r) \/ \E R \in Seq(Bytes) : Hearing(t, R, r) /\ Follows(Tail(wire), R)
  <2>1. p.reason = "none" /\ ~p.silent /\ t.reason # "full"
    BY <1>6, <1>7
  <2>7. port.reason = "none" /\ ~port.silent /\ c.error \in {"none", "flagged"}
    BY <1>4, <2>1
  <2>8. HeaderKnown(port.got, r) \/ \E R \in Seq(Bytes) : Hearing(port, R, r) /\ Follows(wire, R)
    BY <1>1, <2>7 DEF FrameInv, Receiving
  <2>9. SUFFICES ASSUME NEW R \in Seq(Bytes), Hearing(port, R, r), Follows(wire, R), c.error = "none"
                 PROVE  HeaderKnown(t.got, r) \/ \E Q \in Seq(Bytes) : Hearing(t, Q, r) /\ Follows(Tail(wire), Q)
    BY <1>7, <1>9, <1>10, <2>7, <2>8
  <2>3. R # << >> /\ c.byte = Head(R) /\ Tail(R) \in Seq(Bytes) /\ Follows(Tail(wire), Tail(R))
    BY <1>1, <2>9, FollowsOn
  <2>4. Took(port, Head(R)).reason = "full" \/ Hearing(Took(port, Head(R)), Tail(R), r)
    BY <1>0, <1>1, <1>3, <2>9, <2>3, TookHears
  <2>5. t = Took(port, Head(R))
    BY <1>4, <2>3, <2>9
  <2> HIDE DEF t, c
  <2>6. Hearing(t, Tail(R), r)
    BY <2>1, <2>4, <2>5
  <2> QED
    BY <2>3, <2>6
<1> HIDE DEF t, c
<1>8. t.reason = "none" /\ ~t.silent /\ t.pc = "done" => Heeded(t.got, r)
  BY <1>7 DEF Hearing, Heeded
<1> QED
  BY <1>1, <1>2, <1>4, <1>5, <1>6, <1>7, <1>8 DEF FrameInv, Receiving, PortDone

LEMMA NothingFrame == ASSUME FrameInv, PortInv, GetNothing, boot' = boot, scenario' = scenario PROVE FrameInv'
<1> DEFINE r == scenario.reply
<1>1. /\ Shaped(port) /\ boot = "version" /\ scenario \in Scenarios
      /\ Buffers(port) /\ Busy(port) /\ Roomy(port)
  BY DEF FrameInv, GetNothing, Receiving, PortInv, Busy
<1>2. PICK n : /\ n = Note(port, "timeout") /\ DOMAIN n = PortFields /\ n.got = port.got /\ n.silent = port.silent
               /\ n.reason = "timeout" \/ (n.reason = port.reason /\ ~DataNear /\ DataBegun(port))
  BY <1>1, NoteIs DEF Shaped
<1>3. port' = [n EXCEPT !.pc = "done"]
  BY <1>2 DEF GetNothing, Ends
<1>4. /\ Shaped(port') /\ port'.pc = "done" /\ port'.got = port.got /\ port'.silent = port.silent
      /\ port'.reason = n.reason
  BY <1>2, <1>3 DEF Shaped, PortFields
<1>5. ASSUME port'.reason = "none", ~port'.silent PROVE Heeded(port'.got, r)
  <2>1. port.reason = "none" /\ ~port.silent /\ ~DataNear /\ DataBegun(port)
    BY <1>2, <1>4, <1>5
  <2>2. HeaderKnown(port.got, r) \/ \E R \in Seq(Bytes) : Hearing(port, R, r) /\ Follows(wire, R)
    BY <2>1 DEF FrameInv, GetNothing
  <2>3. r \in Seq(Bytes)
    BY <1>1, FirmwareAssumption
  <2>4. HeaderKnown(port.got, r)
    BY <1>1, <2>1, <2>2, <2>3, HeardIsKnown
  <2> QED
    BY <1>4, <2>4 DEF Heeded
<1> QED
  BY <1>1, <1>4, <1>5 DEF FrameInv, Receiving, PortDone

LEMMA StepFrame == FrameInv /\ PortInv /\ [Next]_vars => FrameInv'
<1> SUFFICES ASSUME FrameInv, PortInv, [Next]_vars PROVE FrameInv'
  OBVIOUS
<1>0. Shaped(port) /\ (boot # "version" => port.pc = "idle") /\ (boot \in {"parse", "version"} => scenario \in Scenarios)
  BY DEF FrameInv
<1>1. CASE Configure
  <2>1. boot = "parse" /\ port' = port /\ scenario' = scenario
    BY <1>1 DEF Configure, serial, disk
  <2> QED
    BY <1>0, <2>1, IdleFrame
<1>2. CASE Version
  <2>1. boot = "version" /\ scenario' = scenario
    BY <1>2 DEF Version, disk
  <2>2. CASE VersionSent
    BY <2>1, <2>2, StartsFrame
  <2>3. CASE VersionAnswered
    <3>1. boot' = boot
      BY <2>3 DEF VersionAnswered
    <3>2. PICK w : PutEnds(w) /\ (w = << >> \/ w \in Answers \/ w \in UNION {Faulty(a) : a \in Answers})
      BY <2>3 DEF VersionAnswered
    <3> QED
      BY <2>1, <3>1, <3>2, PutEndsFrame
  <2>4. CASE VersionReturns
    <3>1. port' = PortIdle /\ boot' \in {"clock", "failed"}
      BY <2>4 DEF VersionReturns
    <3> QED
      BY <3>1, IdleIs, IdleFrame
  <2>5. CASE PortMoves /\ UNCHANGED <<faults, boot, uart>>
    BY <2>1, <2>5, PutFrame, GetFrame, NothingFrame DEF PortMoves
  <2> QED
    BY <1>2, <2>2, <2>3, <2>4, <2>5 DEF Version
<1>3. CASE Clock
  <2>1. boot = "clock" /\ boot' \in {"up", "failed"} /\ port' = port
    BY <1>3 DEF Clock, serial
  <2> QED
    BY <1>0, <2>1, IdleFrame
<1>4. CASE Up /\ UNCHANGED <<serial, start>>
  <2>1. boot = "up" /\ boot' = "up" /\ port' = port
    BY <1>4 DEF Up, serial, start
  <2> QED
    BY <1>0, <2>1, IdleFrame
<1>5. CASE UNCHANGED vars
  <2>1. UNCHANGED <<port, wire, boot, scenario>>
    BY <1>5 DEF vars, serial, start, disk
  <2> QED
    BY <2>1 DEF FrameInv, Sends, Receiving, PortDone
<1> QED
  BY <1>1, <1>2, <1>3, <1>4, <1>5 DEF Next, Start

(* The request goes out as one frame, whatever its bytes; what the port     *)
(* hands up without a remark, if no bit was flipped unseen, is the answer   *)
(* or a whole earlier one, or has the header of one where the data buffer   *)
(* lies in another segment (FrameTrue): whatever their bytes are, whatever  *)
(* part of an earlier answer is left on the line, and wherever a byte is    *)
(* lost, damaged or missing (port_putbuf_slip, port_getbuf_slip_dual).      *)
THEOREM FramesTrue == Spec => []FrameTrue
<1>1. Init => FrameInv
  <2> SUFFICES ASSUME Init PROVE FrameInv
    OBVIOUS
  <2>1. port = PortIdle /\ scenario \in Scenarios
    BY DEF Init
  <2> QED
    BY <2>1, IdleIs DEF FrameInv, Receiving, PortDone
<1>2. FrameInv => FrameTrue
  BY DEF FrameInv, FrameTrue, Heeded, HeaderKnown, Believed
<1>3. Init => PortInv
  BY PortInvHolds
<1>4. PortInv /\ [Next]_vars => PortInv'
  BY StepPort
<1> QED
  BY <1>1, <1>2, <1>3, <1>4, StepFrame, PTL DEF Spec

=============================================================================
