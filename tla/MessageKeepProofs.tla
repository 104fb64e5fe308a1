------------------------- MODULE MessageKeepProofs -------------------------
(***************************************************************************)
(* Proofs about MessageKeep, for any number of cells and of messages.      *)
(***************************************************************************)
EXTENDS MessageKeep, SequenceTheorems, FiniteSetTheorems, WellFoundedInduction, TLAPS

-----------------------------------------------------------------------------
(* Types.  A node has an identifier other than 0, its next field is NULL   *)
(* or leads to a cell, and so did it when it was freed.                    *)

Used == {c \in Cells : id[c] \in Ids}
ToUsed == Used \cup {NULL}

Comparing == {"compare", "loadvictim", "moveon"}
Heading == {"comparehead", "loadhead", "loadfirst", "storehead"}
Searching == {"remove", "walk", "loadnext", "storenext", "freecurr", "free"}
                 \cup Comparing \cup Heading

UsedInv ==
    /\ next \in [Cells -> Pointers]
    /\ live \subseteq Used
    /\ node \in [Adders -> ToUsed]
    /\ \A a \in Adders :
          /\ apc[a] # "idle" => node[a] # NULL
          /\ proc = "running" /\ apc[a] \in {"step", "link"} => acurr[a] \in Cells
    /\ (dpc \in Searching /\ scanning) \/ dpc = "advance" => scan # NULL
    /\ dpc \in Searching /\ ~scanning => scan = NULL
    /\ dpc = "advance" => scanning
    /\ proc = "running" /\ scan = WILD => dpc = "scan"

KeepInv == TypeOK /\ UsedInv

(* What message_send_remove follows are the pointers of nodes.             *)
Firm ==
    /\ proc = "running" /\ dpc \in Comparing => dcurr \in live /\ next[dcurr] # NULL
    /\ dpc \in {"loadfirst", "loadnext"} => victim \in live

LEMMA CellFacts ==
    /\ NULL \notin Cells /\ WILD \notin Cells /\ WILD # NULL
    /\ Cells \subseteq Nat \ {0} /\ NumCells \in Nat
  BY KeepAssumption DEF NULL, WILD, Cells

LEMMA UsedInit == Init => TypeOK /\ UsedInv
<1> SUFFICES ASSUME Init PROVE TypeOK /\ UsedInv
  OBVIOUS
<1>1. overlap \in BOOLEAN /\ 0 \in 0..MaxAdds
  BY KeepAssumption DEF Init
<1>2. NULL \in ToUsed /\ NULL \in Pointers /\ NULL \in Places /\ NULL # WILD
  BY CellFacts DEF ToUsed, Pointers, Places
<1>3. TypeOK
  BY <1>1, <1>2 DEF Init, TypeOK
<1>4. UsedInv
  BY <1>2 DEF Init, UsedInv, Searching, Comparing, Heading
<1> QED
  BY <1>3, <1>4

(* An allocation adds a used cell and forgets none.                        *)
LEMMA UsedGrows ==
    ASSUME TypeOK, NEW a \in Adders, Allocate(a)
    PROVE  /\ Used \subseteq Used' /\ ToUsed \subseteq ToUsed'
           /\ node'[a] \in Used' /\ node'[a] # NULL
           /\ id' \in [Cells -> 0..MaxAdds] /\ issued' \in 0..MaxAdds
<1>1. issued' = issued + 1 /\ issued' \in Ids
  BY KeepAssumption DEF TypeOK, Allocate, Ids
<1>2. PICK c \in Cells \ live :
          id' = [id EXCEPT ![c] = issued'] /\ node' = [node EXCEPT ![a] = c]
  BY DEF Allocate
<1>3. c # NULL
  BY KeepAssumption DEF Cells, NULL
<1> QED
  BY <1>1, <1>2, <1>3, KeepAssumption DEF TypeOK, Used, ToUsed, Ids

LEMMA UsedKept ==
    id' = id => Used' = Used /\ ToUsed' = ToUsed
  BY DEF Used, ToUsed

LEMMA UsedAdd ==
    ASSUME TypeOK, UsedInv, proc = "running", NEW a \in Adders, Add(a), UNCHANGED overlap
    PROVE  TypeOK' /\ UsedInv'
<1> USE DEF heapVars, addVars, removeVars, scanVars, TypeOK, UsedInv
<1>1. CASE Allocate(a)
  <2>1. PICK c \in Cells \ live :
            /\ live' = live \cup {c} /\ next' = [next EXCEPT ![c] = NULL]
            /\ node' = [node EXCEPT ![a] = c]
    BY <1>1 DEF Allocate
  <2>2. /\ ToUsed \subseteq ToUsed' /\ Used \subseteq Used' /\ c \in Used' /\ c # NULL
        /\ NULL \in ToUsed'
    BY <1>1, <2>1, UsedGrows DEF ToUsed
  <2>3. node' \in [Adders -> ToUsed'] /\ live' \subseteq Used'
    BY <1>1, <2>1, <2>2 DEF Allocate, ToUsed
  <2>4. apc' = [apc EXCEPT ![a] = "test"]
    BY <1>1 DEF Allocate
  <2>5. /\ live' \subseteq Cells /\ next' \in [Cells -> Pointers]
        /\ next' \in [Cells -> Places] /\ node' \in [Adders -> Pointers]
        /\ apc' \in [Adders -> {"idle", "test", "first", "head", "walk", "step", "link"}]
        /\ id' \in [Cells -> 0..MaxAdds] /\ issued' \in 0..MaxAdds
    BY <1>1, <2>1, <2>4, UsedGrows DEF Pointers, Places
  <2>7. TypeOK'
    BY <1>1, <2>5 DEF Allocate
  <2>6. UsedInv'
    BY <1>1, <2>1, <2>2, <2>3, <2>4, <2>5 DEF Allocate
  <2> QED
    BY <2>6, <2>7
<1>2. CASE TestEmpty(a)
  BY <1>2, UsedKept DEF TestEmpty
<1>3. ASSUME LinkFirst(a) \/ LinkLast(a) PROVE TypeOK' /\ UsedInv'
  <2>1. /\ node[a] \in Used /\ id[node[a]] \in Ids
    <3>1. node[a] \in Used
      BY <1>3 DEF LinkFirst, LinkLast, ToUsed
    <3> QED
      BY <3>1 DEF Used
  <2>2. /\ id' = id /\ added' = added \cup {id[node[a]]}
        /\ apc' = [apc EXCEPT ![a] = "idle"]
        /\ UNCHANGED <<live, node, acurr, issued, dpc, target, dcurr, victim, loaded,
                       scan, scanning, reported, proc, unlinked>>
    BY <1>3 DEF LinkFirst, LinkLast
  <2>3. head' \in Pointers /\ next' \in [Cells -> Pointers]
    BY <1>3 DEF LinkFirst, LinkLast
  <2>4. next' \in [Cells -> Places]
    BY <2>3 DEF Places
  <2> QED
    BY <2>1, <2>2, <2>3, <2>4, UsedKept
<1>4. CASE LoadHead(a)
  BY <1>4, UsedKept DEF LoadHead, Places
<1>5. CASE TestNext(a)
  <2>1. PICK n \in NextAt(acurr[a]) :
            apc' = [apc EXCEPT ![a] = IF n # NULL THEN "step" ELSE "link"]
    BY <1>5 DEF TestNext
  <2>2. /\ proc' = Fate(acurr[a]) /\ acurr[a] \in Places
        /\ UNCHANGED <<head, next, id, live, node, acurr, issued, added, dpc, target,
                       dcurr, victim, loaded, scan, scanning, reported, unlinked>>
    BY <1>5 DEF TestNext
  <2>3. /\ proc' \in {"running", "segv", "astray"}
        /\ proc' = "astray" => acurr[a] = WILD
        /\ proc' = "running" => acurr[a] \in Cells
    BY <2>2 DEF Fate, Places, Pointers
  <2>4. /\ apc' \in [Adders -> {"idle", "test", "first", "head", "walk", "step", "link"}]
        /\ \A b \in Adders : b # a => apc'[b] = apc[b]
        /\ apc[a] = "walk"
    BY <1>5, <2>1 DEF TestNext
  <2>5. TypeOK'
    BY <2>2, <2>3, <2>4
  <2>6. UsedInv'
    BY <2>2, <2>3, <2>4, UsedKept
  <2> QED
    BY <2>5, <2>6
<1>6. CASE Step(a)
  <2>1. acurr[a] \in Cells
    BY <1>6 DEF Step
  <2>2. NextAt(acurr[a]) \subseteq Places
    BY <2>1 DEF NextAt, Places, Pointers
  <2>3. acurr' \in [Adders -> Places]
    BY <1>6, <2>2 DEF Step
  <2> QED
    BY <1>6, <2>3, UsedKept DEF Step
<1> QED
  BY <1>1, <1>2, <1>3, <1>4, <1>5, <1>6 DEF Add

LEMMA UsedDeamon ==
    ASSUME TypeOK, UsedInv, Firm, proc = "running", Deamon, UNCHANGED overlap
    PROVE  TypeOK' /\ UsedInv'
<1> USE DEF heapVars, addVars, removeVars, scanVars, TypeOK, UsedInv, Searching,
            Comparing, Heading
<1>0. NULL # WILD /\ WILD \notin Cells /\ NULL \notin Cells
      /\ \A c \in Pointers : c # WILD /\ c \in Places
  BY CellFacts DEF Pointers, Places
<1>a. ASSUME NEW c \in live PROVE NextAt(c) = {next[c]} /\ next[c] \in Pointers
  BY <1>a DEF NextAt
<1>b. ASSUME NEW c
      PROVE  /\ Fate(c) \in {"running", "segv", "astray"}
             /\ Fate(c) = "astray" => c = WILD
             /\ c = WILD => Fate(c) # "running"
  BY <1>0 DEF Fate
<1>1. CASE RemoveCall
  <2>1. target' \in 0..MaxAdds
    BY <1>1 DEF RemoveCall, Ids
  <2> QED
    BY <1>0, <1>1, <2>1, UsedKept DEF RemoveCall
<1>2. CASE RemoveBegin
  BY <1>2, UsedKept DEF RemoveBegin
<1>3. CASE RemoveHead
  <2>1. Fate(head) \in {"running", "segv"}
    BY <1>0, <1>b
  <2> QED
    BY <1>3, <2>1, UsedKept DEF RemoveHead
<1>4. CASE RemoveWalk
  <2>1. Fate(dcurr) \in {"running", "segv"}
    BY <1>0, <1>b
  <2>2. PICK n \in NextAt(dcurr) :
            dpc' = CASE n # NULL -> "compare"
                     [] n = NULL /\ scanning -> "advance"
                     [] n = NULL /\ ~scanning -> "idle"
    BY <1>4 DEF RemoveWalk
  <2>3. \/ dpc' = "compare"
        \/ scanning /\ dpc' = "advance"
        \/ ~scanning /\ dpc' = "idle"
    BY <2>2
  <2> QED
    BY <1>4, <2>1, <2>3, UsedKept DEF RemoveWalk
<1>5. CASE RemoveCompare
  <2>1. PICK n \in NextAt(dcurr) : proc' = Fate(n)
    BY <1>5 DEF RemoveCompare
  <2>2. n \in Pointers
    BY <1>5, <1>a, <2>1 DEF Firm, RemoveCompare
  <2>3. proc' \in {"running", "segv"}
    BY <1>0, <1>b, <2>1, <2>2
  <2>4. dpc' \in {"loadvictim", "moveon"}
    BY <1>5 DEF RemoveCompare
  <2> QED
    BY <1>5, <2>3, <2>4, UsedKept DEF RemoveCompare
<1>6. CASE RemoveMovesOn
  <2>1. dcurr' \in Pointers
    BY <1>6, <1>a DEF Firm, RemoveMovesOn
  <2> QED
    BY <1>6, <2>1, UsedKept DEF RemoveMovesOn
<1>7. CASE LoadVictim
  <2>1. victim' \in Pointers /\ dpc' \in {"loadfirst", "loadnext"}
    BY <1>7, <1>a DEF Firm, LoadVictim
  <2> QED
    BY <1>7, <2>1, UsedKept DEF LoadVictim
<1>8. CASE LoadSuccessor
  <2>1. loaded' \in Pointers
    BY <1>8, <1>a DEF Firm, LoadSuccessor
  <2>2. Fate(victim) \in {"running", "segv"}
    BY <1>0, <1>b
  <2> QED
    BY <1>8, <2>1, <2>2, UsedKept DEF LoadSuccessor
<1>9. CASE Unlink
  <2>1. head' \in Pointers /\ next' \in [Cells -> Pointers]
    BY <1>9 DEF Unlink
  <2>2. next' \in [Cells -> Places]
    BY <2>1 DEF Places
  <2> QED
    BY <1>9, <2>1, <2>2, UsedKept DEF Unlink
<1>10. CASE Free
  BY <1>0, <1>10, UsedKept DEF Free
<1>11. CASE ScanStart
  BY <1>0, <1>11, UsedKept DEF ScanStart
<1>12. CASE ScanNode
  <2>1. IdAt(scan) \subseteq 0..MaxAdds
    BY DEF IdAt
  <2>2. CASE scan = NULL
    BY <1>0, <1>12, <2>2, UsedKept DEF ScanNode
  <2>3. CASE scan # NULL
    <3>1. target' \in 0..MaxAdds /\ reported' \subseteq 0..MaxAdds
      BY <1>12, <2>1, <2>3 DEF ScanNode
    <3> QED
      BY <1>12, <1>b, <2>3, <3>1, UsedKept DEF ScanNode
  <2> QED
    BY <2>2, <2>3
<1>13. CASE ScanAdvance
  <2>1. NextAt(scan) \subseteq Places
    BY DEF NextAt, Places, Pointers
  <2>2. scan' \in Places
    BY <1>13, <2>1 DEF ScanAdvance
  <2> QED
    BY <1>13, <2>2, UsedKept DEF ScanAdvance
<1> QED
  BY <1>1, <1>2, <1>3, <1>4, <1>5, <1>6, <1>7, <1>8, <1>9, <1>10, <1>11, <1>12, <1>13
     DEF Deamon

LEMMA UsedStep == TypeOK /\ UsedInv /\ Firm /\ [Next]_vars => TypeOK' /\ UsedInv'
<1>1. TypeOK /\ UsedInv /\ UNCHANGED vars => TypeOK' /\ UsedInv'
  BY DEF TypeOK, UsedInv, vars, ToUsed, Used
<1> QED
  BY <1>1, UsedAdd, UsedDeamon DEF Next, Running

-----------------------------------------------------------------------------
(* Lists *)
(* What stands behind the k-th cell of a list.                             *)
Behind(p, k) == IF k < Len(p) THEN p[k + 1] ELSE NULL

(* p is the list that begins at h: different cells, the last one with NULL.*)
Chain(p, h, nx) ==
    /\ p \in Seq(Cells)
    /\ h = Behind(p, 0)
    /\ \A i \in 1..Len(p) : nx[p[i]] = Behind(p, i)
    /\ \A i, j \in 1..Len(p) : p[i] = p[j] => i = j

LEMMA Least ==
    ASSUME NEW T, T \subseteq Nat, T # {}
    PROVE  \E x \in T : \A y \in T : x <= y
<1>1. PICK x \in T : \A y \in T : ~(<<y, x>> \in OpToRel(<, Nat))
  BY NatLessThanWellFounded, WFMin
<1>2. \A y \in T : ~(y < x)
  BY <1>1 DEF OpToRel
<1> QED
  BY <1>2

(* The recursive function in Path, for lists that are cut at m cells.      *)
Unrolls(g, nx, m) ==
    g = [n \in 0..m |-> [c \in Places |->
            IF c \notin Cells \/ n = 0 THEN <<>> ELSE <<c>> \o g[n - 1][nx[c]]]]

LEMMA UnrollsNext ==
    ASSUME NEW nx \in [Cells -> Pointers], NEW m \in Nat, NEW g, Unrolls(g, nx, m)
    PROVE  \E h : Unrolls(h, nx, m + 1)
<1> DEFINE Row(f, n) == [c \in Places |->
               IF c \notin Cells \/ n = 0 THEN <<>> ELSE <<c>> \o f[n - 1][nx[c]]]
           h == [n \in 0..(m + 1) |-> IF n <= m THEN g[n] ELSE Row(g, n)]
<1>1. \A n \in 0..m : g[n] = Row(g, n)
  BY DEF Unrolls
<1>2. ASSUME NEW n \in 0..(m + 1)
      PROVE  h[n] = Row(h, n)
  <2>1. h[n] = Row(g, n)
    <3> HIDE DEF Row
    <3> QED
      BY <1>1
  <2>2. n # 0 => h[n - 1] = g[n - 1]
    BY DEF h
  <2>3. Row(g, n) = Row(h, n)
    <3> HIDE DEF h
    <3> QED
      BY <2>2
  <2> QED
    BY <2>1, <2>3
<1>3. h = [n \in 0..(m + 1) |-> Row(h, n)]
  <2> DEFINE k == [n \in 0..(m + 1) |-> Row(h, n)]
  <2>1. \A n \in 0..(m + 1) : k[n] = h[n]
    <3> HIDE DEF h, Row
    <3> QED
      BY <1>2
  <2> HIDE DEF Row
  <2>2. h = [n \in 0..(m + 1) |-> h[n]] /\ k = [n \in 0..(m + 1) |-> k[n]]
    OBVIOUS
  <2> HIDE DEF h, k
  <2> QED
    BY <2>1, <2>2 DEF k
<1> HIDE DEF h
<1>4. Unrolls(h, nx, m + 1)
  BY <1>3 DEF Unrolls
<1> QED
  BY <1>4

LEMMA UnrollsExists ==
    ASSUME NEW nx \in [Cells -> Pointers], NEW m \in Nat
    PROVE  \E g : Unrolls(g, nx, m)
<1> DEFINE T == {n \in Nat : ~\E g : Unrolls(g, nx, n)}
<1>1. SUFFICES ASSUME T # {} PROVE FALSE
  OBVIOUS
<1>2. PICK n \in T : \A y \in T : n <= y
  BY <1>1, Least
<1>3. CASE n = 0
  <2> DEFINE g == [k \in 0..0 |-> [c \in Places |-> <<>>]]
  <2>1. g = [k \in 0..0 |-> [c \in Places |->
               IF c \notin Cells \/ k = 0 THEN <<>> ELSE <<c>> \o g[k - 1][nx[c]]]]
    <3>1. \A k \in 0..0 : k = 0
      OBVIOUS
    <3> QED
      BY <3>1
  <2> HIDE DEF g
  <2>2. Unrolls(g, nx, 0)
    BY <2>1 DEF Unrolls
  <2> QED
    BY <2>2, <1>2, <1>3
<1>4. CASE n # 0
  <2>1. n - 1 \in Nat /\ n - 1 \notin T /\ (n - 1) + 1 = n
    BY <1>2, <1>4
  <2>2. PICK g : Unrolls(g, nx, n - 1)
    BY <2>1
  <2>3. \E h : Unrolls(h, nx, n)
    BY <2>1, <2>2, UnrollsNext
  <2> QED
    BY <2>3
<1> QED
  BY <1>3, <1>4

PathFrom(h, nx) ==
    (CHOOSE g : Unrolls(g, nx, NumCells + 1))[NumCells + 1][h]

LEMMA PathMeaning == Path = PathFrom(head, next) /\ Path' = PathFrom(head', next')
  BY DEF Path, PathFrom, Unrolls

(* A list has at most as many cells as there are.                          *)
LEMMA ChainLength ==
    ASSUME NEW p, NEW h, NEW nx, Chain(p, h, nx)
    PROVE  Len(p) \in Nat /\ Len(p) <= NumCells
<1>1. p \in [1..Len(p) -> Cells] /\ Len(p) \in Nat
  BY LenProperties DEF Chain
<1>2. p \in Injection(1..Len(p), Cells)
  BY <1>1 DEF Chain, Injection, IsInjective
<1>3. /\ IsFiniteSet(1..Len(p)) /\ Cardinality(1..Len(p)) = Len(p)
      /\ IsFiniteSet(Cells) /\ Cardinality(Cells) = NumCells
  <2>1. NumCells \in Nat /\ NumCells >= 1
    BY KeepAssumption
  <2>2. 1 \in Int /\ NumCells \in Int /\ Len(p) \in Int
    BY <1>1, <2>1
  <2>3. /\ IsFiniteSet(1..Len(p)) /\ IsFiniteSet(1..NumCells)
        /\ Cardinality(1..Len(p)) = IF 1 > Len(p) THEN 0 ELSE Len(p) - 1 + 1
        /\ Cardinality(1..NumCells) = IF 1 > NumCells THEN 0 ELSE NumCells - 1 + 1
    BY <2>2, FS_Interval
  <2> QED
    BY <1>1, <2>1, <2>3 DEF Cells
<1>4. Cardinality(1..Len(p)) <= Cardinality(Cells)
  BY <1>2, <1>3, FS_Injection
<1> QED
  BY <1>1, <1>3, <1>4

LEMMA ChainIsPath ==
    ASSUME NEW p, NEW h, NEW nx \in [Cells -> Pointers], Chain(p, h, nx)
    PROVE  PathFrom(h, nx) = p
<1> DEFINE N == NumCells + 1
           g == CHOOSE f : Unrolls(f, nx, N)
           L == Len(p)
           Rest(j) == SubSeq(p, (L - j) + 1, L)
           Found(j) == g[N - (L - j)][Behind(p, L - j)]
           T == {j \in 0..L : Found(j) # Rest(j)}
<1>1. NumCells \in Nat /\ N \in Nat /\ L \in Nat /\ L <= NumCells /\ p \in Seq(Cells)
  BY CellFacts, ChainLength DEF Chain
<1>2. Unrolls(g, nx, N)
  BY <1>1, UnrollsExists
<1> HIDE DEF g
<1>3. ASSUME NEW c \in Places, NEW n \in 0..N
      PROVE  g[n][c] = IF c \notin Cells \/ n = 0 THEN <<>> ELSE <<c>> \o g[n - 1][nx[c]]
  <2>1. g = [k \in 0..N |-> [d \in Places |->
               IF d \notin Cells \/ k = 0 THEN <<>> ELSE <<d>> \o g[k - 1][nx[d]]]]
    BY <1>2 DEF Unrolls
  <2> HIDE DEF N
  <2>2. g[n] = [d \in Places |->
               IF d \notin Cells \/ n = 0 THEN <<>> ELSE <<d>> \o g[n - 1][nx[d]]]
    BY <2>1
  <2> QED
    BY <2>2
<1>4. T = {}
  <2>1. SUFFICES ASSUME T # {} PROVE FALSE
    OBVIOUS
  <2>2. T \subseteq Nat
    BY <1>1
  <2>3. PICK j \in T : \A y \in T : j <= y
    BY <2>1, <2>2, Least
  <2>4. j \in 0..L /\ Found(j) # Rest(j)
    BY <2>3
  <2>5. CASE j = 0
    <3>1. Behind(p, L - j) = NULL /\ N - (L - j) \in 0..N
      BY <1>1, <2>5 DEF Behind
    <3>2. Found(j) = <<>>
      <4>1. NULL \in Places /\ NULL \notin Cells
        BY CellFacts DEF Places, Pointers
      <4> HIDE DEF N
      <4> QED
        BY <3>1, <4>1, <1>3
    <3>3. Rest(j) = <<>>
      BY <1>1, <2>5, SubSeqEmpty
    <3> QED
      BY <2>4, <3>2, <3>3
  <2>6. CASE j # 0
    <3> DEFINE i == (L - j) + 1
               c == p[i]
    <3>1. /\ i \in 1..L /\ L - j < L /\ i = L - (j - 1) /\ j - 1 \in 0..L
          /\ N - (L - j) \in 1..N /\ (N - (L - j)) - 1 = N - (L - (j - 1))
      BY <1>1, <2>4, <2>6
    <3>2. Behind(p, L - j) = c /\ c \in Cells /\ c # NULL
      BY <3>1, <1>1, CellFacts, ElementOfSeq DEF Behind
    <3>3. nx[c] = Behind(p, L - (j - 1))
      BY <3>1 DEF Chain
    <3>4. Found(j) = <<c>> \o g[(N - (L - j)) - 1][nx[c]]
      <4>1. N - (L - j) \in 0..N /\ N - (L - j) # 0
        BY <3>1
      <4>2. c \in Places
        BY <3>2 DEF Places, Pointers
      <4> HIDE DEF N, i, c, L
      <4> QED
        BY <3>2, <4>1, <4>2, <1>3
    <3>5. Found(j) = <<c>> \o Found(j - 1)
      BY <3>1, <3>3, <3>4
    <3>6. Found(j - 1) = Rest(j - 1)
      <4>1. ~(j <= j - 1)
        BY <2>4, <1>1
      <4>2. j - 1 \notin T
        <5> HIDE DEF T
        <5> QED
          BY <2>3, <4>1
      <4> HIDE DEF Found, Rest
      <4> QED
        BY <3>1, <4>2
    <3>7. Rest(j) = <<c>> \o SubSeq(p, i + 1, L)
      BY <3>1, <1>1, SubSeqRecursiveFirst
    <3>8. Rest(j - 1) = SubSeq(p, i + 1, L)
      BY <3>1
    <3> QED
      BY <2>4, <3>5, <3>6, <3>7, <3>8
  <2> QED
    BY <2>5, <2>6
<1>5. Found(L) = Rest(L)
  <2>1. L \in 0..L
    BY <1>1
  <2> HIDE DEF Found, Rest
  <2> QED
    BY <1>4, <2>1
<1>6. L - L = 0 /\ N - 0 = N /\ h = Behind(p, 0)
  BY <1>1 DEF Chain
<1>7. Rest(L) = p
  BY <1>1, <1>6, SubSeqFull
<1> QED
  BY <1>5, <1>6, <1>7 DEF PathFrom, g

-----------------------------------------------------------------------------
(* What the calls do to a list                                             *)

On(p) == {p[i] : i \in 1..Len(p)}

Without(p, k) == SubSeq(p, 1, k - 1) \o SubSeq(p, k + 1, Len(p))

LEMMA OnFacts ==
    ASSUME NEW p, NEW h, NEW nx, Chain(p, h, nx)
    PROVE  /\ On(p) \subseteq Cells
           /\ h = NULL <=> p = <<>>
           /\ h # NULL => h \in On(p) /\ Len(p) >= 1 /\ h = p[1]
           /\ \A c \in On(p) : nx[c] # NULL => nx[c] \in On(p)
           /\ \A c \in On(p) : nx[c] = NULL => p # <<>> /\ c = p[Len(p)]
<1>1. /\ p \in Seq(Cells) /\ Len(p) \in Nat /\ \A i \in 1..Len(p) : p[i] \in Cells
      /\ h = Behind(p, 0) /\ \A i \in 1..Len(p) : nx[p[i]] = Behind(p, i)
  BY ElementOfSeq, LenProperties DEF Chain
<1>2. \A i \in 1..Len(p) : p[i] # NULL
  BY <1>1, CellFacts
<1>3. On(p) \subseteq Cells
  BY <1>1 DEF On
<1>4. /\ h = NULL <=> p = <<>>
      /\ h # NULL => h \in On(p) /\ Len(p) >= 1 /\ h = p[1]
  <2>1. CASE Len(p) = 0
    BY <2>1, <1>1, EmptySeq DEF Behind
  <2>2. CASE Len(p) > 0
    BY <2>2, <1>1, <1>2, EmptySeq DEF Behind, On
  <2> QED
    BY <2>1, <2>2, <1>1
<1>5. ASSUME NEW c \in On(p)
      PROVE  /\ nx[c] # NULL => nx[c] \in On(p)
             /\ nx[c] = NULL => p # <<>> /\ c = p[Len(p)]
  <2>1. PICK i \in 1..Len(p) : c = p[i]
    BY DEF On
  <2>2. nx[c] = Behind(p, i) /\ p # <<>>
    BY <2>1, <1>1, EmptySeq
  <2>3. CASE i < Len(p)
    <3>1. i + 1 \in 1..Len(p) /\ nx[c] = p[i + 1]
      BY <2>2, <2>3, <1>1 DEF Behind
    <3> QED
      BY <3>1, <1>2 DEF On
  <2>4. CASE ~(i < Len(p))
    <3>1. i = Len(p) /\ nx[c] = NULL
      BY <2>2, <2>4, <1>1 DEF Behind
    <3> QED
      BY <3>1, <2>1, <2>2
  <2> QED
    BY <2>3, <2>4
<1> QED
  BY <1>3, <1>4, <1>5

(* A write to a cell that is not on the list changes nothing.              *)
LEMMA ChainApart ==
    ASSUME NEW p, NEW h, NEW nx \in [Cells -> Pointers], Chain(p, h, nx),
           NEW c, c \notin On(p), NEW x
    PROVE  Chain(p, h, [nx EXCEPT ![c] = x])
<1>1. \A i \in 1..Len(p) : p[i] \in Cells /\ p[i] # c
  BY ElementOfSeq DEF Chain, On
<1> QED
  BY <1>1 DEF Chain

LEMMA ChainFirst ==
    ASSUME NEW nx \in [Cells -> Pointers], NEW c \in Cells, nx[c] = NULL
    PROVE  Chain(<<c>>, c, nx) /\ On(<<c>>) = {c} /\ Append(<<>>, c) = <<c>>
<1>1. <<c>> \in Seq(Cells) /\ Len(<<c>>) = 1 /\ <<c>>[1] = c
  OBVIOUS
<1>2. /\ \A i \in 1..1 : i = 1
      /\ 1 \in 1..1
  OBVIOUS
<1> QED
  BY <1>1, <1>2 DEF Chain, Behind, On

LEMMA ChainAppended ==
    ASSUME NEW p, NEW h, NEW nx \in [Cells -> Pointers], Chain(p, h, nx), p # <<>>,
           NEW c \in Cells, c \notin On(p), nx[c] = NULL
    PROVE  /\ Chain(Append(p, c), h, [nx EXCEPT ![p[Len(p)]] = c])
           /\ On(Append(p, c)) = On(p) \cup {c}
<1> DEFINE q == Append(p, c)
           L == Len(p)
           mx == [nx EXCEPT ![p[L]] = c]
<1>1. /\ p \in Seq(Cells) /\ L \in Nat /\ L >= 1 /\ \A i \in 1..L : p[i] \in Cells
      /\ \A i \in 1..L : nx[p[i]] = Behind(p, i)
      /\ \A i, j \in 1..L : p[i] = p[j] => i = j
      /\ h = p[1] /\ \A i \in 1..L : p[i] # c
  <2>1. p \in Seq(Cells) /\ L \in Nat \ {0} /\ \A i \in 1..L : p[i] \in Cells
    BY ElementOfSeq, LenProperties, EmptySeq DEF Chain
  <2> QED
    BY <2>1 DEF Chain, Behind, On
<1>2. /\ q \in Seq(Cells) /\ Len(q) = L + 1
      /\ \A i \in 1..L : q[i] = p[i]
      /\ q[L + 1] = c
  BY <1>1, AppendProperties
<1>3. /\ \A d \in Cells : mx[d] = IF d = p[L] THEN c ELSE nx[d]
  BY <1>1
<1> HIDE DEF q, L, mx
<1>4. ASSUME NEW i \in 1..Len(q) PROVE mx[q[i]] = Behind(q, i)
  <2>1. CASE i = L + 1
    BY <2>1, <1>1, <1>2, <1>3 DEF Behind
  <2>2. CASE i = L
    BY <2>2, <1>1, <1>2, <1>3 DEF Behind
  <2>3. CASE i \in 1..(L - 1)
    <3>1. q[i] = p[i] /\ p[i] # p[L] /\ i \in 1..L /\ i + 1 \in 1..L
      BY <2>3, <1>1, <1>2
    <3>2. mx[q[i]] = p[i + 1] /\ Behind(q, i) = q[i + 1]
      BY <2>3, <3>1, <1>1, <1>2, <1>3 DEF Behind, L
    <3> QED
      BY <3>1, <3>2, <1>2
  <2> QED
    BY <2>1, <2>2, <2>3, <1>1, <1>2
<1>5. ASSUME NEW i \in 1..Len(q), NEW j \in 1..Len(q), q[i] = q[j] PROVE i = j
  <2>1. i \in 1..L \/ i = L + 1
    BY <1>1, <1>2
  <2>2. j \in 1..L \/ j = L + 1
    BY <1>1, <1>2
  <2> QED
    BY <2>1, <2>2, <1>1, <1>2, <1>5
<1>6. h = Behind(q, 0)
  <2>1. 1 \in 1..L /\ q[1] = p[1] /\ 0 < Len(q) /\ 0 + 1 = 1
    BY <1>1, <1>2
  <2> QED
    BY <2>1, <1>1 DEF Behind
<1>7. Chain(q, h, mx)
  BY <1>2, <1>4, <1>5, <1>6 DEF Chain
<1>8. On(q) = On(p) \cup {c}
  <2>1. \A i \in 1..Len(q) : q[i] \in On(p) \cup {c}
    <3>1. \A i \in 1..Len(q) : i \in 1..L \/ i = L + 1
      BY <1>1, <1>2
    <3> QED
      BY <3>1, <1>2 DEF On, L
  <2>2. On(p) \cup {c} \subseteq On(q)
    <3>1. L + 1 \in 1..Len(q) /\ \A i \in 1..L : i \in 1..Len(q)
      BY <1>1, <1>2
    <3> QED
      BY <3>1, <1>2 DEF On, L
  <2> QED
    BY <2>1, <2>2 DEF On
<1> QED
  BY <1>7, <1>8 DEF q, L, mx

(* One cell taken out, the one before it (or the head) leading past it.    *)
LEMMA WithoutFacts ==
    ASSUME NEW S, NEW p \in Seq(S), NEW k \in 1..Len(p)
    PROVE  /\ Without(p, k) \in Seq(S) /\ Len(Without(p, k)) = Len(p) - 1
           /\ \A j \in 1..(Len(p) - 1) :
                 Without(p, k)[j] = IF j < k THEN p[j] ELSE p[j + 1]
<1> DEFINE a == SubSeq(p, 1, k - 1)
           b == SubSeq(p, k + 1, Len(p))
<1>1. k \in Nat /\ k >= 1 /\ k <= Len(p) /\ Len(p) \in Nat
  BY LenProperties
<1>2. a \in Seq(S) /\ Len(a) = k - 1 /\ \A j \in 1..(k - 1) : a[j] = p[j]
  BY <1>1, SubSeqProperties
<1>3. b \in Seq(S) /\ Len(b) = Len(p) - k /\ \A j \in 1..(Len(p) - k) : b[j] = p[k + j]
  BY <1>1, SubSeqProperties
<1>4. /\ a \o b \in Seq(S) /\ Len(a \o b) = Len(a) + Len(b)
      /\ \A j \in 1..(Len(a) + Len(b)) :
            (a \o b)[j] = IF j <= Len(a) THEN a[j] ELSE b[j - Len(a)]
  BY <1>2, <1>3, ConcatProperties
<1>5. Without(p, k) = a \o b
  BY DEF Without
<1> HIDE DEF a, b
<1>6. ASSUME NEW j \in 1..(Len(p) - 1)
      PROVE  Without(p, k)[j] = IF j < k THEN p[j] ELSE p[j + 1]
  <2>1. CASE j < k
    BY <2>1, <1>1, <1>2, <1>3, <1>4, <1>5
  <2>2. CASE ~(j < k)
    <3>1. /\ j - (k - 1) \in 1..(Len(p) - k) /\ k + (j - (k - 1)) = j + 1
          /\ j \in 1..(Len(a) + Len(b)) /\ ~(j <= Len(a)) /\ j - Len(a) = j - (k - 1)
      BY <2>2, <1>1, <1>2, <1>3
    <3>2. b[j - (k - 1)] = p[j + 1] /\ (a \o b)[j] = b[j - (k - 1)]
      BY <3>1, <1>3, <1>4
    <3> QED
      BY <2>2, <3>2, <1>5
  <2> QED
    BY <2>1, <2>2
<1>7. Len(a) + Len(b) = Len(p) - 1
  BY <1>1, <1>2, <1>3
<1> QED
  BY <1>4, <1>5, <1>6, <1>7

Unlinks(h, nx, k, p, l, h2, nx2) ==
    \/ k = 1 /\ h2 = l /\ nx2 = nx
    \/ k > 1 /\ h2 = h /\ nx2 = [nx EXCEPT ![p[k - 1]] = l]

LEMMA ChainWithout ==
    ASSUME NEW p, NEW h, NEW nx \in [Cells -> Pointers], Chain(p, h, nx),
           NEW k \in 1..Len(p), NEW h2, NEW nx2,
           Unlinks(h, nx, k, p, nx[p[k]], h2, nx2)
    PROVE  /\ Chain(Without(p, k), h2, nx2)
           /\ On(Without(p, k)) = On(p) \ {p[k]}
<1> DEFINE q == Without(p, k)
           L == Len(p)
<1>1. /\ p \in Seq(Cells) /\ L \in Nat /\ L >= 1 /\ \A i \in 1..L : p[i] \in Cells
      /\ \A i \in 1..L : nx[p[i]] = Behind(p, i)
      /\ \A i, j \in 1..L : p[i] = p[j] => i = j
      /\ h = p[1] /\ k \in Nat /\ k >= 1 /\ k <= L
  <2>1. p \in Seq(Cells) /\ L \in Nat /\ \A i \in 1..L : p[i] \in Cells
    BY ElementOfSeq, LenProperties DEF Chain
  <2> QED
    BY <2>1 DEF Chain, Behind
<1>2. /\ q \in Seq(Cells) /\ Len(q) = L - 1
      /\ \A j \in 1..(L - 1) : q[j] = IF j < k THEN p[j] ELSE p[j + 1]
  BY <1>1, WithoutFacts
<1>3. \A d \in Cells : nx2[d] = IF k > 1 /\ d = p[k - 1] THEN nx[p[k]] ELSE nx[d]
  <2>1. CASE k = 1
    BY <2>1, <1>1 DEF Unlinks
  <2>2. CASE k > 1
    <3>1. nx2 = [nx EXCEPT ![p[k - 1]] = nx[p[k]]]
      BY <2>2 DEF Unlinks
    <3> QED
      BY <2>2, <3>1
  <2> QED
    BY <2>1, <2>2, <1>1
<1> HIDE DEF q, L
<1>4. ASSUME NEW i \in 1..Len(q) PROVE nx2[q[i]] = Behind(q, i)
  <2>0. i \in Nat /\ i >= 1 /\ i <= L - 1
    BY <1>1, <1>2
  <2>1. CASE i < k - 1
    <3>1. q[i] = p[i] /\ i \in 1..L /\ i + 1 \in 1..(L - 1) /\ k - 1 \in 1..L
          /\ q[i + 1] = p[i + 1] /\ i + 1 <= L - 1
      BY <2>0, <2>1, <1>1, <1>2
    <3>2. p[i] # p[k - 1] /\ p[i] \in Cells
      BY <2>1, <3>1, <1>1
    <3>3. Behind(q, i) = q[i + 1] /\ Behind(p, i) = p[i + 1]
      BY <2>0, <3>1, <1>1, <1>2 DEF Behind, L
    <3> QED
      BY <3>1, <3>2, <3>3, <1>1, <1>3
  <2>2. CASE i = k - 1
    <3>1. /\ q[i] = p[k - 1] /\ k > 1 /\ p[k - 1] \in Cells /\ nx2[q[i]] = nx[p[k]]
          /\ nx[p[k]] = Behind(p, k)
      <4>1. k - 1 \in 1..L /\ k \in 1..L /\ q[i] = p[i]
        BY <2>0, <2>2, <1>1, <1>2
      <4> QED
        BY <4>1, <2>0, <2>2, <1>1, <1>3
    <3>2. Behind(q, i) = Behind(p, k)
      <4>1. CASE k < L
        <5>1. i + 1 \in 1..(L - 1) /\ i + 1 = k /\ q[i + 1] = p[k + 1] /\ i < Len(q)
          BY <4>1, <2>0, <2>2, <1>1, <1>2
        <5> QED
          BY <5>1, <4>1 DEF Behind, L
      <4>2. CASE ~(k < L)
        <5>1. ~(i < Len(q))
          BY <4>2, <2>0, <2>2, <1>1, <1>2
        <5> QED
          BY <5>1, <4>2 DEF Behind, L
      <4> QED
        BY <4>1, <4>2
    <3> QED
      BY <3>1, <3>2
  <2>3. CASE i >= k
    <3>1. q[i] = p[i + 1] /\ i + 1 \in 1..L /\ (k > 1 => k - 1 \in 1..L /\ k - 1 # i + 1)
      BY <2>0, <2>3, <1>1, <1>2
    <3>2. nx2[q[i]] = Behind(p, i + 1)
      <4>1. p[i + 1] \in Cells /\ nx[p[i + 1]] = Behind(p, i + 1)
        BY <3>1, <1>1
      <4>2. ~(k > 1 /\ p[i + 1] = p[k - 1])
        BY <3>1, <1>1
      <4> QED
        BY <3>1, <4>1, <4>2, <1>3
    <3>3. Behind(q, i) = Behind(p, i + 1)
      <4>1. CASE i + 1 < L
        <5>1. i + 1 \in 1..(L - 1) /\ ~(i + 1 < k) /\ i < Len(q)
          BY <4>1, <2>0, <2>3, <1>1, <1>2
        <5>2. q[i + 1] = p[(i + 1) + 1]
          BY <5>1, <1>2
        <5> QED
          BY <5>1, <5>2, <4>1 DEF Behind, L
      <4>2. CASE ~(i + 1 < L)
        <5>1. ~(i < Len(q))
          BY <4>2, <2>0, <1>1, <1>2
        <5> QED
          BY <5>1, <4>2 DEF Behind, L
      <4> QED
        BY <4>1, <4>2
    <3> QED
      BY <3>2, <3>3
  <2> QED
    BY <2>1, <2>2, <2>3, <2>0, <1>1
<1>5. ASSUME NEW i \in 1..Len(q), NEW j \in 1..Len(q), q[i] = q[j] PROVE i = j
  <2>1. /\ i \in Nat /\ i \in 1..(L - 1) /\ j \in Nat /\ j \in 1..(L - 1)
        /\ i \in 1..L /\ i + 1 \in 1..L /\ j \in 1..L /\ j + 1 \in 1..L
    BY <1>1, <1>2
  <2>2. q[i] = (IF i < k THEN p[i] ELSE p[i + 1]) /\ q[j] = (IF j < k THEN p[j] ELSE p[j + 1])
    BY <2>1, <1>2
  <2>3. CASE i < k
    BY SMTT(30), <2>1, <2>2, <2>3, <1>1, <1>5
  <2>4. CASE ~(i < k)
    BY <2>1, <2>2, <2>4, <1>1, <1>5
  <2> QED
    BY <2>3, <2>4
<1>6. h2 = Behind(q, 0)
  <2>1. CASE k = 1
    <3>1. h2 = Behind(p, 1)
      <4>1. h2 = nx[p[k]]
        BY <2>1 DEF Unlinks
      <4> QED
        BY <4>1, <2>1, <1>1
    <3>2. CASE L > 1
      <4>1. 1 \in 1..(L - 1) /\ q[1] = p[2] /\ 0 < Len(q)
        BY <3>2, <2>1, <1>1, <1>2
      <4> QED
        BY <4>1, <3>1, <3>2 DEF Behind, L
    <3>3. CASE L = 1
      <4>1. ~(0 < Len(q)) /\ ~(1 < Len(p))
        BY <3>3, <1>2 DEF L
      <4> QED
        BY <4>1, <3>1 DEF Behind
    <3> QED
      BY <3>2, <3>3, <1>1
  <2>2. CASE k > 1
    <3>1. h2 = p[1]
      BY <2>2, <1>1 DEF Unlinks
    <3>2. 1 \in 1..(L - 1) /\ 1 < k /\ 0 < Len(q) /\ 0 + 1 = 1
      BY <2>2, <1>1, <1>2
    <3>3. q[1] = p[1]
      BY <3>2, <1>2
    <3> QED
      BY <3>1, <3>2, <3>3 DEF Behind
  <2> QED
    BY <2>1, <2>2, <1>1
<1>7. Chain(q, h2, nx2)
  BY <1>2, <1>4, <1>5, <1>6 DEF Chain
<1>8. On(q) \subseteq On(p) \ {p[k]}
  <2>1. ASSUME NEW j \in 1..Len(q) PROVE q[j] \in On(p) /\ q[j] # p[k]
    <3>1. j \in 1..(L - 1) /\ j \in 1..L /\ j + 1 \in 1..L /\ j \in Nat
      BY <1>1, <1>2
    <3>2. q[j] = IF j < k THEN p[j] ELSE p[j + 1]
      BY <3>1, <1>2
    <3>3. CASE j < k
      BY <3>1, <3>2, <3>3, <1>1 DEF On, L
    <3>4. CASE ~(j < k)
      <4>1. j + 1 # k /\ q[j] = p[j + 1] /\ k \in 1..L
        BY <3>1, <3>2, <3>4, <1>1
      <4> QED
        BY <3>1, <4>1, <1>1 DEF On, L
    <3> QED
      BY <3>3, <3>4
  <2> QED
    BY <2>1 DEF On
<1>9. On(p) \ {p[k]} \subseteq On(q)
  <2>1. ASSUME NEW i \in 1..L, i # k PROVE p[i] \in On(q)
    <3>1. CASE i < k
      <4>1. i \in 1..(L - 1) /\ i \in 1..Len(q)
        BY <3>1, <1>1, <1>2
      <4>2. q[i] = p[i]
        BY <3>1, <4>1, <1>2
      <4> QED
        BY <4>1, <4>2 DEF On
    <3>2. CASE i > k
      <4>1. i - 1 \in 1..(L - 1) /\ i - 1 \in 1..Len(q) /\ ~(i - 1 < k) /\ (i - 1) + 1 = i
        BY <3>2, <1>1, <1>2
      <4>2. q[i - 1] = p[i]
        BY <4>1, <1>2
      <4> QED
        BY <4>1, <4>2 DEF On
    <3> QED
      BY <3>1, <3>2, <2>1, <1>1
  <2> QED
    BY <2>1 DEF On, L
<1> QED
  BY <1>7, <1>8, <1>9 DEF q

(* The same with NULL for the rest: what is behind the cell goes with it.  *)
LEMMA ChainCutOff ==
    ASSUME NEW p, NEW h, NEW nx \in [Cells -> Pointers], Chain(p, h, nx),
           NEW k \in 1..Len(p), NEW h2, NEW nx2,
           Unlinks(h, nx, k, p, NULL, h2, nx2)
    PROVE  \E q : Chain(q, h2, nx2) /\ On(q) \subseteq On(p) \ {p[k]}
<1>1. /\ p \in Seq(Cells) /\ Len(p) \in Nat /\ \A i \in 1..Len(p) : p[i] \in Cells
      /\ \A i \in 1..Len(p) : nx[p[i]] = Behind(p, i)
      /\ \A i, j \in 1..Len(p) : p[i] = p[j] => i = j
      /\ h = Behind(p, 0) /\ k \in Nat /\ k >= 1 /\ k <= Len(p)
  BY ElementOfSeq, LenProperties DEF Chain
<1>2. CASE k = 1
  <2>1. h2 = NULL
    BY <1>2 DEF Unlinks
  <2>2. Chain(<<>>, h2, nx2) /\ On(<<>>) = {}
    BY <2>1, EmptySeq DEF Chain, Behind, On
  <2> QED
    BY <2>2
<1>3. CASE k > 1
  <2> DEFINE q == SubSeq(p, 1, k - 1)
  <2>1. q \in Seq(Cells) /\ Len(q) = k - 1 /\ \A j \in 1..(k - 1) : q[j] = p[j]
    BY <1>1, <1>3, SubSeqProperties
  <2>2. h2 = h /\ nx2 = [nx EXCEPT ![p[k - 1]] = NULL]
    BY <1>3 DEF Unlinks
  <2> HIDE DEF q
  <2>3. ASSUME NEW i \in 1..Len(q) PROVE nx2[q[i]] = Behind(q, i)
    <3>1. i \in 1..(k - 1) /\ i \in 1..Len(p) /\ q[i] = p[i] /\ k - 1 \in 1..Len(p)
      BY <2>1, <1>1
    <3>2. CASE i = k - 1
      <4>1. nx2[q[i]] = NULL
        BY <3>1, <3>2, <2>2, <1>1
      <4> QED
        BY <4>1, <3>2, <2>1, <1>1 DEF Behind
    <3>3. CASE i < k - 1
      <4>1. p[i] # p[k - 1] /\ p[i] \in Cells
        BY <3>1, <3>3, <1>1
      <4>2. nx2[q[i]] = Behind(p, i)
        BY <4>1, <3>1, <2>2, <1>1
      <4>3. i + 1 \in 1..(k - 1) /\ i < Len(q) /\ i < Len(p)
        BY <3>1, <3>3, <2>1, <1>1
      <4> QED
        BY <4>2, <4>3, <2>1 DEF Behind
    <3> QED
      BY <3>1, <3>2, <3>3, <1>1
  <2>4. h2 = Behind(q, 0)
    <3>1. 0 < Len(p) /\ 0 < Len(q) /\ 1 \in 1..(k - 1) /\ 0 + 1 = 1
      BY <1>1, <1>3, <2>1
    <3> QED
      BY <3>1, <1>1, <2>1, <2>2 DEF Behind
  <2>5. \A i, j \in 1..Len(q) : q[i] = q[j] => i = j
    <3>1. \A i \in 1..Len(q) : i \in 1..Len(p) /\ q[i] = p[i]
      BY <2>1, <1>1
    <3> QED
      BY <3>1, <1>1
  <2>6. Chain(q, h2, nx2)
    BY <2>1, <2>3, <2>4, <2>5 DEF Chain
  <2>7. \A i \in 1..Len(q) : i \in 1..Len(p) /\ i # k /\ q[i] = p[i]
    BY <2>1, <1>1
  <2>8. On(q) \subseteq On(p) \ {p[k]}
    BY <2>7, <1>1 DEF On
  <2> QED
    BY <2>6, <2>8
<1> QED
  BY <1>1, <1>2, <1>3

-----------------------------------------------------------------------------
-----------------------------------------------------------------------------
(* Any number of threads add                                               *)

(* The age of a cell is the identifier of the call of message_send_add     *)
(* whose node it hangs on, Whole when that call has linked it, and for a   *)
(* cell that is no longer held the identifier the call after that would    *)
(* get.  A walk to the tail never comes to a cell as old as its own node,  *)
(* so it cannot close a cycle; rank counts down to the end.                *)
(*                                                                         *)
(* The held cells are nodes: those of the list, those of the threads in    *)
(* message_send_add and some that are lost; not one that is to be freed,   *)
(* or that was cut off when the head had changed between two reads of it.  *)
Whole == MaxAdds + 1

Unled(c, held) == \A d \in held : next[d] # c

HeapInv(age, rank, held) ==
    /\ held \subseteq live
    /\ age \in [Cells -> Nat] /\ rank \in [Cells -> Nat]
    /\ \A c \in held : next[c] # NULL =>
          next[c] \in held /\ age[next[c]] = age[c] /\ rank[next[c]] < rank[c]
    /\ \A c, d \in held : next[c] # NULL /\ next[c] = next[d] => c = d
    /\ \A c \in Cells \ held :
          age[c] <= issued + 1 /\ (next[c] # NULL => age[next[c]] >= age[c])
    /\ head # NULL => head \in held /\ age[head] = Whole /\ Unled(head, held)

AddInv(age, held) ==
    \A a \in Adders : apc[a] # "idle" =>
        /\ node[a] \in held /\ Unled(node[a], held)
        /\ age[node[a]] = id[node[a]] /\ id[node[a]] <= issued
        /\ \A b \in Adders : apc[b] # "idle" /\ id[node[a]] = id[node[b]] => a = b
        /\ apc[a] \in {"walk", "step", "link"} /\ acurr[a] \in Cells =>
              age[acurr[a]] > id[node[a]]

(* The deamon at the head of the list,                                     *)
HeadInv(age, held) ==
    /\ dpc \in Heading /\ dcurr # NULL =>
          dcurr \in held /\ age[dcurr] = Whole /\ Unled(dcurr, held)
    /\ proc = "running" /\ dpc = "loadhead" => head # NULL
    /\ dpc \in {"loadfirst", "storehead"} =>
          victim \in held /\ age[victim] = Whole /\ Unled(victim, held)
    /\ dpc = "storehead" /\ loaded # NULL => loaded # dcurr

(* behind it,                                                              *)
WalkInv(age, rank, held) ==
    /\ dpc = "walk" /\ dcurr # NULL => dcurr \in held /\ age[dcurr] = Whole
    /\ proc = "running" /\ dpc \in Comparing =>
          dcurr \in held /\ age[dcurr] = Whole /\ next[dcurr] # NULL
    /\ dpc \in {"loadnext", "storenext"} =>
          /\ dcurr \in held /\ age[dcurr] = Whole
          /\ victim \in held /\ age[victim] = Whole
          /\ head # victim /\ rank[victim] < rank[dcurr]
          /\ \A c \in held : next[c] = victim => c = dcurr

(* and with what is behind the node it unlinks, and what it frees.         *)
CutInv(age, rank, held) ==
    /\ dpc \in {"storehead", "storenext"} /\ loaded # NULL =>
          /\ loaded \in held /\ age[loaded] = Whole /\ rank[loaded] < rank[victim]
          /\ head # loaded /\ \A c \in held : next[c] = loaded => c = victim
    /\ dpc \in {"freecurr", "free"} /\ Freed # NULL => Freed \in live \ held

RemoveInv(age, rank, held) ==
    HeadInv(age, held) /\ WalkInv(age, rank, held) /\ CutInv(age, rank, held)

Ranked(age, rank, held) ==
    HeapInv(age, rank, held) /\ AddInv(age, held) /\ RemoveInv(age, rank, held)

(* What the types give: pointers that are not NULL are cells.              *)
LEMMA HeapTypes ==
    ASSUME KeepInv
    PROVE  /\ next \in [Cells -> Pointers] /\ id \in [Cells -> 0..MaxAdds]
           /\ live \subseteq Cells
           /\ apc \in [Adders -> {"idle", "test", "first", "head", "walk", "step", "link"}]
           /\ node \in [Adders -> Pointers] /\ acurr \in [Adders -> Places]
           /\ \A c \in Pointers : c # NULL => c \in Cells
           /\ head \in Pointers /\ dcurr \in Pointers /\ victim \in Pointers
           /\ loaded \in Pointers /\ scan \in Places
           /\ issued \in Nat /\ issued <= MaxAdds /\ MaxAdds \in Nat /\ Whole \in Nat
           /\ \A c \in Cells : id[c] \in Nat /\ id[c] < Whole
<1>1. MaxAdds \in Nat /\ Whole \in Nat
  BY KeepAssumption DEF Whole
<1>2. id \in [Cells -> 0..MaxAdds] /\ issued \in 0..MaxAdds
  BY DEF KeepInv, TypeOK
<1>3. \A c \in Cells : id[c] \in Nat /\ id[c] < Whole
  BY <1>1, <1>2 DEF Whole
<1> QED
  BY <1>1, <1>2, <1>3 DEF KeepInv, TypeOK, UsedInv, Pointers

(* What is held is a node, and a cell.                                     *)
LEMMA HeldTypes ==
    ASSUME KeepInv, NEW age, NEW rank, NEW held, Ranked(age, rank, held)
    PROVE  /\ held \subseteq live /\ held \subseteq Cells /\ NULL \notin held
           /\ \A c \in held : NextAt(c) = {next[c]} /\ IdAt(c) = {id[c]}
           /\ \A c \in held : Fate(c) = "running"
<1>1. held \subseteq live /\ held \subseteq Cells /\ NULL \notin held
  BY HeapTypes, CellFacts DEF Ranked, HeapInv
<1>2. \A c \in held : Fate(c) = "running"
  BY <1>1, CellFacts DEF Fate
<1> QED
  BY <1>1, <1>2 DEF NextAt, IdAt

LEMMA RankedFirm ==
    ASSUME KeepInv, NEW age, NEW rank, NEW held, Ranked(age, rank, held)
    PROVE  Firm
  BY HeldTypes DEF Ranked, RemoveInv, HeadInv, WalkInv, Firm

(* Every held cell begins a list without a cycle.                          *)
LEMMA ChainBefore ==
    ASSUME NEW p, NEW nx \in [Cells -> Pointers], NEW c \in Cells, Chain(p, nx[c], nx),
           c \notin On(p)
    PROVE  Chain(<<c>> \o p, c, nx) /\ On(<<c>> \o p) = On(p) \cup {c}
<1> DEFINE q == <<c>> \o p
           L == Len(p)
<1>1. /\ p \in Seq(Cells) /\ L \in Nat /\ \A i \in 1..L : p[i] \in Cells
      /\ nx[c] = Behind(p, 0)
      /\ \A i \in 1..L : nx[p[i]] = Behind(p, i)
      /\ \A i, j \in 1..L : p[i] = p[j] => i = j
  BY ElementOfSeq, LenProperties DEF Chain
<1>2. <<c>> \in Seq(Cells) /\ Len(<<c>>) = 1 /\ <<c>>[1] = c
  OBVIOUS
<1>3. /\ q \in Seq(Cells) /\ Len(q) = L + 1
      /\ \A i \in 1..(L + 1) : q[i] = IF i <= 1 THEN c ELSE p[i - 1]
  <2> DEFINE s == <<c>>
  <2>1. s \in Seq(Cells) /\ Len(s) = 1 /\ s[1] = c
    BY <1>2
  <2> HIDE DEF s
  <2>2. /\ s \o p \in Seq(Cells) /\ Len(s \o p) = Len(s) + Len(p)
        /\ \A i \in 1..(Len(s) + Len(p)) :
              (s \o p)[i] = IF i <= Len(s) THEN s[i] ELSE p[i - Len(s)]
    <3>1. s \in Seq(Cells) /\ p \in Seq(Cells)
      BY <2>1, <1>1
    <3> QED
      BY <3>1, ConcatProperties
  <2>3. s \o p = q
    BY DEF s
  <2> HIDE DEF q
  <2> QED
    BY <2>1, <2>2, <2>3, <1>1
<1> HIDE DEF q
<1>4. q[1] = c /\ \A i \in 1..L : i + 1 \in 1..(L + 1) /\ q[i + 1] = p[i]
  BY <1>1, <1>3
<1>5. \A i \in 1..(L + 1) : i = 1 \/ (i - 1 \in 1..L /\ q[i] = p[i - 1])
  BY <1>1, <1>3
<1>6. c = Behind(q, 0)
  BY <1>1, <1>3, <1>4 DEF Behind
<1>7. ASSUME NEW i \in 1..(L + 1) PROVE nx[q[i]] = Behind(q, i)
  <2>1. CASE i = 1
    <3>1. nx[q[i]] = Behind(p, 0)
      BY <1>1, <1>4, <2>1
    <3> QED
      BY <3>1, <2>1, <1>1, <1>3, <1>4 DEF Behind
  <2>2. CASE i # 1
    <3>1. i - 1 \in 1..L /\ q[i] = p[i - 1]
      BY <1>5, <2>2
    <3>2. nx[q[i]] = Behind(p, i - 1)
      BY <3>1, <1>1
    <3> QED
      BY <3>1, <3>2, <1>1, <1>3, <1>4 DEF Behind
  <2> QED
    BY <2>1, <2>2
<1>8. \A i \in 1..L : p[i] # c
  BY DEF On
<1>9. ASSUME NEW i \in 1..(L + 1), NEW j \in 1..(L + 1), q[i] = q[j] PROVE i = j
  <2>1. i = 1 <=> j = 1
    BY <1>4, <1>5, <1>8, <1>9
  <2>2. CASE i # 1 /\ j # 1
    <3>1. i - 1 \in 1..L /\ j - 1 \in 1..L /\ p[i - 1] = p[j - 1]
      BY <1>5, <1>9, <2>2
    <3>2. i - 1 = j - 1
      BY <3>1, <1>1
    <3> QED
      BY <3>2
  <2> QED
    BY <2>1, <2>2
<1>10. Chain(q, c, nx)
  BY <1>3, <1>6, <1>7, <1>9 DEF Chain
<1>11. On(q) = On(p) \cup {c}
  <2>1. On(q) \subseteq On(p) \cup {c}
    BY <1>3, <1>4, <1>5 DEF On
  <2>2. c \in On(q)
    <3>1. 1 \in 1..Len(q)
      BY <1>1, <1>3
    <3> QED
      BY <3>1, <1>4 DEF On
  <2>3. On(p) \subseteq On(q)
    <3>1. \A i \in 1..Len(p) : i + 1 \in 1..Len(q) /\ q[i + 1] = p[i]
      BY <1>3, <1>4
    <3> QED
      BY <3>1 DEF On
  <2> QED
    BY <2>1, <2>2, <2>3
<1> QED
  BY <1>10, <1>11 DEF q

LEMMA RankedChain ==
    ASSUME KeepInv, NEW age, NEW rank, NEW held, Ranked(age, rank, held), NEW c \in held
    PROVE  \E p : Chain(p, c, next) /\ On(p) \subseteq held
<1> DEFINE Good(d) == \E p : /\ Chain(p, d, next) /\ On(p) \subseteq held
                             /\ \A e \in On(p) : rank[e] <= rank[d]
           Bad == {d \in held : ~Good(d)}
           T == {rank[d] : d \in Bad}
<1>1. /\ rank \in [Cells -> Nat] /\ next \in [Cells -> Pointers] /\ held \subseteq Cells
      /\ \A d \in held : next[d] # NULL => next[d] \in held /\ rank[next[d]] < rank[d]
  BY HeapTypes, HeldTypes DEF Ranked, HeapInv
<1>2. ASSUME Bad # {} PROVE FALSE
  <2>1. T \subseteq Nat /\ T # {}
    BY <1>1, <1>2
  <2>2. PICK x \in T : \A y \in T : x <= y
    <3> HIDE DEF T
    <3> QED
      BY <2>1, Least
  <2>3. PICK d \in Bad : rank[d] = x
    BY <2>2
  <2>4. d \in held /\ d \in Cells /\ ~Good(d) /\ rank[d] \in Nat
    BY <2>3, <1>1
  <2>5. \A e \in held : rank[e] < rank[d] => Good(e)
    <3>1. ASSUME NEW e \in held, rank[e] < rank[d], ~Good(e) PROVE FALSE
      <4>1. rank[e] \in T /\ rank[e] \in Nat
        BY <3>1, <1>1
      <4>2. rank[d] <= rank[e]
        BY <4>1, <2>2, <2>3
      <4> HIDE DEF Good, T, Bad
      <4> QED
        BY <4>1, <4>2, <3>1, <2>4
    <3> QED
      BY <3>1
  <2>6. \E p : /\ Chain(p, next[d], next) /\ On(p) \subseteq held
               /\ \A e \in On(p) : rank[e] < rank[d]
    <3>1. CASE next[d] = NULL
      <4>1. Chain(<<>>, next[d], next) /\ On(<<>>) = {}
        BY <3>1, EmptySeq DEF Chain, Behind, On
      <4> QED
        BY <4>1
    <3>2. CASE next[d] # NULL
      <4>1. next[d] \in held /\ rank[next[d]] < rank[d] /\ rank[next[d]] \in Nat
        BY <3>2, <2>4, <1>1
      <4>2. PICK p : /\ Chain(p, next[d], next) /\ On(p) \subseteq held
                     /\ \A e \in On(p) : rank[e] <= rank[next[d]]
        BY <4>1, <2>5
      <4>3. \A e \in On(p) : rank[e] \in Nat
        BY <4>2, <1>1
      <4>4. \A e \in On(p) : rank[e] < rank[d]
        BY <4>1, <4>2, <4>3, <2>4
      <4> QED
        BY <4>2, <4>4
    <3> QED
      BY <3>1, <3>2
  <2>7. PICK p : /\ Chain(p, next[d], next) /\ On(p) \subseteq held
                 /\ \A e \in On(p) : rank[e] < rank[d]
    BY <2>6
  <2>8. d \notin On(p)
    BY <2>4, <2>7
  <2>9. Chain(<<d>> \o p, d, next) /\ On(<<d>> \o p) = On(p) \cup {d}
    BY <2>4, <2>7, <2>8, <1>1, ChainBefore
  <2>10. \A e \in On(<<d>> \o p) : e \in held /\ rank[e] \in Nat /\ rank[e] <= rank[d]
    BY <2>4, <2>7, <2>9, <1>1
  <2> QED
    BY <2>4, <2>9, <2>10
<1>3. Good(c)
  <2> HIDE DEF Good
  <2> QED
    BY <1>2
<1> QED
  BY <1>3

LEMMA RankedSound ==
    ASSUME KeepInv, NEW age, NEW rank, NEW held, Ranked(age, rank, held)
    PROVE  ListSound /\ FreedOnce
<1>1. next \in [Cells -> Pointers] /\ held \subseteq live /\ live \subseteq Cells
  BY HeapTypes, HeldTypes
<1>2. PICK p : Chain(p, head, next) /\ On(p) \subseteq held
  <2>1. CASE head = NULL
    <3>1. Chain(<<>>, head, next) /\ On(<<>>) = {}
      BY <2>1, EmptySeq DEF Chain, Behind, On
    <3> QED
      BY <3>1
  <2>2. CASE head # NULL
    <3>1. head \in held
      BY <2>2 DEF Ranked, HeapInv
    <3> QED
      BY <3>1, RankedChain
  <2> QED
    BY <2>1, <2>2
<1>3. Path = p
  BY <1>1, <1>2, PathMeaning, ChainIsPath
<1>4. Reachable = On(p)
  <2>1. DOMAIN p = 1..Len(p)
    BY <1>2, LenProperties DEF Chain
  <2> QED
    BY <1>3, <2>1 DEF Reachable, On
<1>5. \A c \in Cells : next[c] # WILD
  BY <1>1, CellFacts DEF Pointers
<1>6. ListSound
  BY <1>1, <1>2, <1>3, <1>4, <1>5, ChainLength DEF ListSound
<1>7. FreedOnce
  BY <1>2, <1>4 DEF FreedOnce, Ranked, RemoveInv, CutInv
<1> QED
  BY <1>6, <1>7

-----------------------------------------------------------------------------
(* The steps of the two sides keep the ages and ranks                      *)

LEMMA RankedAllocate ==
    ASSUME KeepInv, NEW age, NEW rank, NEW held, Ranked(age, rank, held), NEW a \in Adders,
           Allocate(a)
    PROVE  \E ag, rk, h : Ranked(ag, rk, h)' /\ h = held \cup {node'[a]}
<1> USE DEF heapVars, addVars, removeVars, scanVars
<1>1. PICK c \in Cells \ live :
          /\ live' = live \cup {c} /\ next' = [next EXCEPT ![c] = NULL]
          /\ id' = [id EXCEPT ![c] = issued'] /\ node' = [node EXCEPT ![a] = c]
  BY DEF Allocate
<1>2. /\ apc' = [apc EXCEPT ![a] = "test"] /\ issued' = issued + 1
      /\ UNCHANGED <<head, acurr, dpc, dcurr, victim, loaded, proc>>
  BY DEF Allocate
<1>3. PICK k : k = issued
  OBVIOUS
<1>4. PICK ag : ag = [age EXCEPT ![c] = k + 1]
  OBVIOUS
<1>5. PICK rk : rk = [rank EXCEPT ![c] = 0]
  OBVIOUS
<1>6. c \in Cells /\ c \notin held /\ c # NULL /\ k \in Nat /\ k + 1 <= MaxAdds
  BY <1>1, <1>3, HeapTypes, HeldTypes, CellFacts DEF Allocate
<1>7. PICK hd : hd = held \cup {c}
  OBVIOUS
<1>8. /\ age \in [Cells -> Nat] /\ rank \in [Cells -> Nat]
      /\ ag \in [Cells -> Nat] /\ rk \in [Cells -> Nat]
      /\ \A d \in Cells : ag[d] = (IF d = c THEN k + 1 ELSE age[d])
                          /\ rk[d] = IF d = c THEN 0 ELSE rank[d]
  BY <1>4, <1>5, <1>6 DEF Ranked, HeapInv
<1>9. /\ \A d \in Cells : next'[d] = (IF d = c THEN NULL ELSE next[d])
                          /\ id'[d] = IF d = c THEN k + 1 ELSE id[d]
      /\ \A b \in Adders : apc'[b] = (IF b = a THEN "test" ELSE apc[b])
                           /\ node'[b] = IF b = a THEN c ELSE node[b]
  BY <1>1, <1>2, <1>3, HeapTypes
<1>10. held \subseteq Cells /\ \A d \in held : next[d] # c
  BY <1>6, HeldTypes DEF Ranked, HeapInv
<1>11. \A d \in held : next'[d] = next[d] /\ ag[d] = age[d] /\ rk[d] = rank[d] /\ id'[d] = id[d]
  BY <1>6, <1>8, <1>9, <1>10
<1>12. \A d : Unled(d, held) /\ d # NULL => Unled(d, hd)'
  BY <1>6, <1>7, <1>9, <1>11 DEF Unled
<1>13. HeapInv(ag, rk, hd)'
  <2>0. hd \subseteq live'
    BY <1>1, <1>7, HeldTypes
  <2>1. \A d \in hd : next'[d] # NULL =>
          next'[d] \in hd /\ ag[next'[d]] = ag[d] /\ rk[next'[d]] < rk[d]
    BY <1>6, <1>7, <1>9, <1>11 DEF Ranked, HeapInv
  <2>2. \A d, e \in hd : next'[d] # NULL /\ next'[d] = next'[e] => d = e
    BY <1>6, <1>7, <1>9, <1>11 DEF Ranked, HeapInv
  <2>3. ASSUME NEW d \in Cells \ hd
        PROVE  ag[d] <= issued' + 1 /\ (next'[d] # NULL => ag[next'[d]] >= ag[d])
    <3>1. d \in Cells \ held /\ d # c /\ ag[d] = age[d] /\ next'[d] = next[d]
      BY <2>3, <1>7, <1>8, <1>9
    <3>2. age[d] <= k + 1 /\ (next[d] # NULL => age[next[d]] >= age[d])
      BY <3>1, <1>3 DEF Ranked, HeapInv
    <3>3. next[d] # NULL => next[d] \in Cells
      BY HeapTypes
    <3> QED
      BY <3>1, <3>2, <3>3, <1>2, <1>3, <1>6, <1>8
  <2>4. head' # NULL => head' \in hd /\ ag[head'] = Whole /\ Unled(head, hd)'
    BY <1>2, <1>7, <1>11, <1>12 DEF Ranked, HeapInv
  <2> QED
    BY <1>8, <2>0, <2>1, <2>2, <2>3, <2>4 DEF HeapInv
<1>14. AddInv(ag, hd)'
  <2>1. Unled(c, hd)'
    BY <1>7, <1>9, <1>10, <1>11, <1>6 DEF Unled
  <2>2. ASSUME NEW b \in Adders, apc'[b] # "idle"
        PROVE  /\ node'[b] \in hd /\ Unled(node[b], hd)'
               /\ ag[node'[b]] = id'[node'[b]] /\ id'[node'[b]] <= issued'
               /\ b # a => id'[node'[b]] <= k
               /\ (apc'[b] \in {"walk", "step", "link"} /\ acurr'[b] \in Cells) =>
                     ag[acurr'[b]] > id'[node'[b]]
    <3>1. CASE b = a
      BY <3>1, <2>1, <1>2, <1>3, <1>6, <1>7, <1>8, <1>9
    <3>2. CASE b # a
      <4>1. apc[b] # "idle" /\ apc'[b] = apc[b] /\ node'[b] = node[b] /\ acurr'[b] = acurr[b]
        BY <2>2, <3>2, <1>2, <1>9
      <4>2. /\ node[b] \in held /\ Unled(node[b], held)
            /\ age[node[b]] = id[node[b]] /\ id[node[b]] <= k
            /\ apc[b] \in {"walk", "step", "link"} /\ acurr[b] \in Cells =>
                  age[acurr[b]] > id[node[b]]
        BY <4>1, <1>3 DEF Ranked, AddInv
      <4>3. node[b] # NULL /\ node[b] \in Cells /\ id[node[b]] \in Nat
        BY <4>2, <1>10, CellFacts, HeapTypes
      <4>5. id'[node[b]] = id[node[b]] /\ ag[node[b]] = age[node[b]]
        BY <4>2, <1>11
      <4>6. Unled(node[b], hd)'
        BY <4>1, <4>2, <4>3, <1>12, Zenon
      <4>7. apc[b] \in {"walk", "step", "link"} /\ acurr[b] \in Cells =>
               ag[acurr[b]] > id[node[b]]
        <5>1. acurr[b] \in Cells => ag[acurr[b]] = age[acurr[b]] \/ ag[acurr[b]] = k + 1
          BY <1>8
        <5> QED
          BY <5>1, <4>2, <4>3, <1>6
      <4>8. node'[b] \in hd /\ id'[node'[b]] <= issued'
        BY <4>1, <4>2, <4>3, <4>5, <1>2, <1>3, <1>6, <1>7
      <4> QED
        BY <4>1, <4>2, <4>5, <4>6, <4>7, <4>8
    <3> QED
      BY <3>1, <3>2
  <2>3. ASSUME NEW b \in Adders, NEW d \in Adders, apc'[b] # "idle", apc'[d] # "idle",
               id'[node'[b]] = id'[node'[d]]
        PROVE  b = d
    <3>1. CASE b # a /\ d # a
      <4>1. /\ apc[b] # "idle" /\ apc[d] # "idle" /\ node'[b] = node[b] /\ node'[d] = node[d]
        BY <2>3, <3>1, <1>9
      <4>2. node[b] \in held /\ node[d] \in held
        BY <4>1 DEF Ranked, AddInv
      <4>3. id[node[b]] = id[node[d]]
        BY <4>1, <4>2, <2>3, <1>11
      <4> QED
        BY <4>1, <4>3 DEF Ranked, AddInv
    <3>2. id'[node'[a]] = k + 1
      BY <1>6, <1>9
    <3>3. (b # a => id'[node'[b]] <= k) /\ (d # a => id'[node'[d]] <= k)
      BY <2>2, <2>3
    <3> QED
      BY <3>1, <3>2, <3>3, <2>3, <1>6
  <2> QED
    BY <2>2, <2>3 DEF AddInv
<1>15. RemoveInv(ag, rk, hd)'
  <2>1. /\ \A d \in hd : d = c \/ d \in held
        /\ held \subseteq hd /\ next'[c] = NULL /\ c # NULL
        /\ \A d \in held : next'[d] = next[d] /\ ag[d] = age[d] /\ rk[d] = rank[d]
    BY <1>6, <1>7, <1>9, <1>11
  <2>2. HeadInv(ag, hd)'
    <3>1. dpc \in Heading /\ dcurr # NULL =>
             dcurr \in hd /\ ag[dcurr] = Whole /\ \A d \in hd : next'[d] # dcurr
      BY <2>1 DEF Ranked, RemoveInv, HeadInv, Unled
    <3>2. dpc \in {"loadfirst", "storehead"} =>
             victim \in hd /\ ag[victim] = Whole /\ \A d \in hd : next'[d] # victim
      BY <2>1, HeldTypes DEF Ranked, RemoveInv, HeadInv, Unled
    <3> QED
      BY <1>2, <3>1, <3>2 DEF Ranked, RemoveInv, HeadInv, Unled
  <2>3. WalkInv(ag, rk, hd)'
    <3>1. dpc = "walk" /\ dcurr # NULL => dcurr \in hd /\ ag[dcurr] = Whole
      BY <2>1 DEF Ranked, RemoveInv, WalkInv
    <3>2. proc = "running" /\ dpc \in Comparing =>
             dcurr \in hd /\ ag[dcurr] = Whole /\ next'[dcurr] # NULL
      BY <2>1 DEF Ranked, RemoveInv, WalkInv
    <3>3. dpc \in {"loadnext", "storenext"} =>
             /\ dcurr \in hd /\ ag[dcurr] = Whole
             /\ victim \in hd /\ ag[victim] = Whole
             /\ head # victim /\ rk[victim] < rk[dcurr]
             /\ \A d \in hd : next'[d] = victim => d = dcurr
      BY <2>1, HeldTypes DEF Ranked, RemoveInv, WalkInv
    <3> QED
      BY <1>2, <3>1, <3>2, <3>3 DEF WalkInv
  <2>4. dpc \in {"storehead", "storenext"} /\ loaded # NULL =>
          /\ loaded \in hd /\ ag[loaded] = Whole /\ rk[loaded] < rk[victim]
          /\ head # loaded /\ \A d \in hd : next'[d] = loaded => d = victim
    BY <2>1 DEF Ranked, RemoveInv, HeadInv, WalkInv, CutInv
  <2>5. Freed' = Freed /\ (dpc \in {"freecurr", "free"} /\ Freed # NULL =>
                              Freed \in live' \ hd)
    BY <1>1, <1>2, <1>7 DEF Freed, Ranked, RemoveInv, CutInv
  <2> QED
    BY <1>2, <2>2, <2>3, <2>4, <2>5 DEF RemoveInv, CutInv
<1>16. hd = held \cup {node'[a]}
  BY <1>7, <1>9
<1> QED
  BY <1>13, <1>14, <1>15, <1>16 DEF Ranked

(* The steps of message_send_add that write nothing.                       *)
LEMMA RankedLook ==
    ASSUME KeepInv, proc = "running", NEW age, NEW rank, NEW held,
           Ranked(age, rank, held), NEW a \in Adders,
           TestEmpty(a) \/ LoadHead(a) \/ TestNext(a) \/ Step(a)
    PROVE  Ranked(age, rank, held)'
<1> USE DEF heapVars, addVars, removeVars, scanVars
<1>1. /\ UNCHANGED <<head, next, id, live, node, issued, dpc, dcurr, victim, loaded>>
      /\ apc[a] # "idle"
      /\ \A b \in Adders : b # a => apc'[b] = apc[b] /\ acurr'[b] = acurr[b]
  BY HeapTypes DEF TestEmpty, LoadHead, TestNext, Step
<1>2. \/ apc'[a] \in {"first", "head"}
      \/ apc'[a] = "walk" /\ acurr'[a] = head
      \/ apc[a] \in {"walk", "step", "link"} /\ acurr'[a] = acurr[a]
      \/ apc[a] = "step" /\ acurr'[a] \in NextAt(acurr[a])
  BY HeapTypes DEF TestEmpty, LoadHead, TestNext, Step
<1>4. \A d : Unled(d, held)' = Unled(d, held)
  BY <1>1 DEF Unled
<1>5. HeapInv(age, rank, held)' /\ RemoveInv(age, rank, held)'
  <2>1. HeapInv(age, rank, held)'
    BY <1>1, <1>4 DEF Ranked, HeapInv
  <2>2. HeadInv(age, held)' /\ WalkInv(age, rank, held)'
    BY <1>1, <1>4 DEF Ranked, RemoveInv, HeadInv, WalkInv
  <2>3. CutInv(age, rank, held)'
    BY <1>1, <1>4 DEF Ranked, RemoveInv, CutInv, Freed
  <2> QED
    BY <2>1, <2>2, <2>3 DEF RemoveInv
<1>6. ASSUME NEW b \in Adders, apc'[b] # "idle"
      PROVE  apc[b] # "idle"
  BY <1>1, <1>6
<1>7. apc'[a] \in {"walk", "step", "link"} /\ acurr'[a] \in Cells => age[acurr'[a]] > id[node[a]]
  <2>1. /\ node[a] \in held /\ id[node[a]] \in Nat /\ id[node[a]] < Whole
        /\ apc[a] \in {"walk", "step", "link"} /\ acurr[a] \in Cells =>
              age[acurr[a]] > id[node[a]]
    <3>1. node[a] \in held /\ node[a] \in Cells
      BY <1>1, HeldTypes DEF Ranked, AddInv
    <3> QED
      BY <3>1, <1>1, HeapTypes DEF Ranked, AddInv
  <2>2. CASE acurr'[a] = head
    <3>1. head # NULL => age[head] = Whole
      BY DEF Ranked, HeapInv
    <3>2. Whole \in Nat /\ NULL \notin Cells
      BY HeapTypes, CellFacts
    <3> QED
      BY <2>1, <2>2, <3>1, <3>2
  <2>3. CASE apc[a] = "step" /\ acurr'[a] \in NextAt(acurr[a]) /\ acurr'[a] \in Cells
    <3>1. acurr[a] \in Cells
      BY <2>3 DEF KeepInv, UsedInv
    <3>2. acurr'[a] = next[acurr[a]] /\ next[acurr[a]] # NULL
      BY <2>3, <3>1, CellFacts DEF NextAt
    <3>3. /\ age \in [Cells -> Nat] /\ age[next[acurr[a]]] >= age[acurr[a]]
          /\ next[acurr[a]] \in Cells
      <4>1. next[acurr[a]] \in Cells
        BY <2>3, <3>2
      <4>2. age[acurr[a]] \in Nat /\ age \in [Cells -> Nat]
        BY <3>1 DEF Ranked, HeapInv
      <4>3. CASE acurr[a] \in held
        BY <3>2, <4>1, <4>2, <4>3 DEF Ranked, HeapInv
      <4>4. CASE acurr[a] \notin held
        BY <3>1, <3>2, <4>1, <4>2, <4>4 DEF Ranked, HeapInv
      <4> QED
        BY <4>3, <4>4
    <3>4. age[acurr[a]] > id[node[a]] /\ age[acurr[a]] \in Nat
      BY <2>1, <2>3, <3>1, <3>3
    <3>5. age[next[acurr[a]]] \in Nat
      BY <3>3
    <3> QED
      BY <2>1, <3>2, <3>3, <3>4, <3>5
  <2> QED
    BY <1>2, <2>1, <2>2, <2>3
<1>8. AddInv(age, held)'
  BY <1>1, <1>4, <1>6, <1>7 DEF Ranked, AddInv
<1> QED
  BY <1>5, <1>8 DEF Ranked

(* A node that is linked takes the age of what it is linked to.  G are the *)
(* cells that hang on it.                                                  *)
LEMMA RankedLinkFirst ==
    ASSUME KeepInv, NEW age, NEW rank, NEW held, Ranked(age, rank, held), NEW a \in Adders,
           LinkFirst(a)
    PROVE  \E ag, rk : Ranked(ag, rk, held)'
<1> USE DEF heapVars, addVars, removeVars, scanVars
<1>1. PICK n, w : n = node[a] /\ w = Whole
  OBVIOUS
<1>2. /\ apc[a] = "first" /\ head' = n /\ n = node[a]
      /\ apc' = [apc EXCEPT ![a] = "idle"]
      /\ UNCHANGED <<next, id, live, node, acurr, issued, dpc, dcurr, victim, loaded, proc>>
  BY <1>1 DEF LinkFirst
<1>3. PICK G : G = {d \in held : age[d] = id[n]}
  OBVIOUS
<1>4. PICK ag : ag = [d \in Cells |-> IF d \in G THEN w ELSE age[d]]
  OBVIOUS
<1>5. /\ n \in held /\ Unled(n, held) /\ age[n] = id[n] /\ id[n] \in Nat /\ id[n] < w
      /\ n \in Cells /\ n # NULL /\ n \in G /\ w \in Nat /\ Whole = w
  <2>1. n \in held /\ Unled(n, held) /\ age[n] = id[n] /\ n \in Cells
    BY <1>2, HeldTypes DEF Ranked, AddInv
  <2> QED
    BY <1>1, <1>3, <2>1, HeapTypes, CellFacts
<1>6. /\ age \in [Cells -> Nat] /\ ag \in [Cells -> Nat] /\ G \subseteq held
      /\ held \subseteq Cells
      /\ \A d \in Cells : ag[d] = IF d \in G THEN w ELSE age[d]
  <2>1. age \in [Cells -> Nat]
    BY DEF Ranked, HeapInv
  <2> QED
    BY <1>3, <1>4, <1>5, <2>1, HeldTypes
<1>7. \A d : Unled(d, held)' = Unled(d, held)
  BY <1>2 DEF Unled
<1>8. \A d \in Cells : ag[d] >= age[d] /\ (age[d] = w => ag[d] = w)
  <2>1. \A d \in G : age[d] = id[n]
    BY <1>3
  <2> QED
    BY <2>1, <1>5, <1>6
<1>9. HeapInv(ag, rank, held)'
  <2>1. ASSUME NEW d \in held, next[d] # NULL
        PROVE  next[d] \in held /\ ag[next[d]] = ag[d] /\ rank[next[d]] < rank[d]
    <3>1. next[d] \in held /\ age[next[d]] = age[d] /\ rank[next[d]] < rank[d]
      BY <2>1 DEF Ranked, HeapInv
    <3>2. d \in G <=> next[d] \in G
      BY <3>1, <1>3
    <3> QED
      BY <3>1, <3>2, <1>6
  <2>2. ASSUME NEW d \in Cells \ held
        PROVE  ag[d] <= issued + 1 /\ (next[d] # NULL => ag[next[d]] >= ag[d])
    <3>1. age[d] <= issued + 1 /\ (next[d] # NULL => age[next[d]] >= age[d]) /\ ag[d] = age[d]
      BY <1>6 DEF Ranked, HeapInv
    <3>2. next[d] # NULL => next[d] \in Cells
      BY HeapTypes
    <3> QED
      BY <3>1, <3>2, <1>6, <1>8
  <2> QED
    BY <1>2, <1>5, <1>6, <1>7, <2>1, <2>2 DEF Ranked, HeapInv
<1>10. \A b \in Adders : apc'[b] # "idle" => b # a /\ apc'[b] = apc[b]
  BY <1>2, HeapTypes
<1>11. AddInv(ag, held)'
  <2>1. ASSUME NEW b \in Adders, apc[b] # "idle", b # a
        PROVE  /\ ag[node[b]] = id[node[b]]
               /\ apc[b] \in {"walk", "step", "link"} /\ acurr[b] \in Cells =>
                     ag[acurr[b]] > id[node[b]]
    <3>1. /\ node[b] \in held /\ age[node[b]] = id[node[b]]
          /\ apc[b] \in {"walk", "step", "link"} /\ acurr[b] \in Cells =>
                age[acurr[b]] > id[node[b]]
          /\ id[node[b]] # id[n]
      BY <1>2, <2>1 DEF Ranked, AddInv
    <3>2. node[b] \notin G /\ node[b] \in Cells /\ id[node[b]] \in Nat
      BY <1>3, <1>6, <3>1, HeapTypes
    <3> QED
      BY <3>1, <3>2, <1>6, <1>8
  <2> QED
    BY <1>2, <1>7, <1>10, <2>1 DEF Ranked, AddInv
<1>12. RemoveInv(ag, rank, held)'
  <2>1. \A d \in held : age[d] = Whole => ag[d] = Whole /\ d # n
    BY <1>5, <1>6, <1>8
  <2>2. HeadInv(ag, held)'
    BY <1>2, <1>5, <1>7, <2>1 DEF Ranked, RemoveInv, HeadInv
  <2>3. WalkInv(ag, rank, held)'
    BY <1>2, <2>1 DEF Ranked, RemoveInv, WalkInv
  <2>4. CutInv(ag, rank, held)'
    BY <1>2, <2>1 DEF Ranked, RemoveInv, CutInv, Freed
  <2> QED
    BY <2>2, <2>3, <2>4 DEF RemoveInv
<1> QED
  BY <1>9, <1>11, <1>12 DEF Ranked

(* The steps of the deamon that write nothing but free the node.           *)
LEMMA RankedDeamon ==
    ASSUME KeepInv, proc = "running", NEW age, NEW rank, NEW held,
           Ranked(age, rank, held), Deamon, ~Unlink
    PROVE  Ranked(age, rank, held)'
<1> USE DEF heapVars, addVars, removeVars, scanVars
<1>1. UNCHANGED <<head, next, id, apc, node, acurr, issued>>
  BY DEF Deamon, RemoveCall, RemoveBegin, RemoveHead, RemoveWalk, RemoveCompare,
         RemoveMovesOn, LoadVictim, LoadSuccessor, Free, ScanStart, ScanNode, ScanAdvance
<1>2. held \subseteq live'
  <2>1. held \subseteq live /\ NULL \notin held
    BY HeldTypes
  <2>2. CASE Free
    BY <2>1, <2>2 DEF Free, Ranked, RemoveInv, CutInv
  <2>3. CASE ~Free
    <3>1. live' = live
      BY <2>3 DEF Deamon, RemoveCall, RemoveBegin, RemoveHead, RemoveWalk,
             RemoveCompare, RemoveMovesOn, LoadVictim, LoadSuccessor, ScanStart, ScanNode,
             ScanAdvance
    <3> QED
      BY <2>1, <3>1
  <2> QED
    BY <2>2, <2>3
<1>3. \A d : Unled(d, held)' = Unled(d, held)
  BY <1>1 DEF Unled
<1>4. HeapInv(age, rank, held)' /\ AddInv(age, held)'
  BY <1>1, <1>2, <1>3 DEF Ranked, HeapInv, AddInv
<1>5. RemoveInv(age, rank, held)'
  <2> USE DEF RemoveInv, HeadInv, WalkInv, CutInv, Heading, Comparing
  <2>0. /\ head # NULL => head \in held /\ age[head] = Whole /\ Unled(head, held)
        /\ \A c \in held : /\ NextAt(c) = {next[c]} /\ Fate(c) = "running"
                           /\ next[c] # NULL => /\ next[c] \in held
                                                /\ age[next[c]] = age[c]
                                                /\ rank[next[c]] < rank[c]
        /\ \A c, d \in held : next[c] # NULL /\ next[c] = next[d] => c = d
    BY HeldTypes DEF Ranked, HeapInv
  <2>1. CASE RemoveBegin
    <3>1. dcurr' = head /\ dpc' = "comparehead"
      BY <2>1 DEF RemoveBegin
    <3> QED
      BY <1>1, <2>0, <3>1 DEF Unled
  <2>2. CASE RemoveHead
    <3>1. /\ dpc = "comparehead" /\ dpc' \in {"loadhead", "walk"} /\ dcurr' = dcurr
          /\ proc' = Fate(head)
      BY <2>2 DEF RemoveHead
    <3>2. Fate(NULL) = "segv"
      BY CellFacts DEF Fate
    <3> QED
      BY <1>1, <3>1, <3>2 DEF Ranked, Unled
  <2>3. CASE RemoveWalk
    <3>1. PICK n \in NextAt(dcurr) :
              dpc' = CASE n # NULL -> "compare"
                       [] n = NULL /\ scanning -> "advance"
                       [] n = NULL /\ ~scanning -> "idle"
      BY <2>3 DEF RemoveWalk
    <3>2. /\ dpc = "walk" /\ dcurr' = dcurr /\ proc' = Fate(dcurr)
          /\ (n # NULL /\ dpc' = "compare") \/ dpc' \in {"idle", "advance"}
      BY <2>3, <3>1 DEF RemoveWalk
    <3>3. Fate(NULL) = "segv"
      BY CellFacts DEF Fate
    <3>4. proc' = "running" /\ dpc' = "compare" =>
             dcurr \in held /\ age[dcurr] = Whole /\ next[dcurr] # NULL
      <4>1. dcurr = NULL => proc' = "segv"
        BY <3>2, <3>3
      <4>2. dcurr # NULL => dcurr \in held /\ age[dcurr] = Whole
        BY <3>2 DEF Ranked
      <4>3. dcurr \in held /\ dpc' = "compare" => next[dcurr] # NULL
        BY <2>0, <3>1, <3>2
      <4> QED
        BY <4>1, <4>2, <4>3
    <3> QED
      BY <1>1, <3>2, <3>4
  <2>4. CASE RemoveCompare
    <3>1. /\ dpc = "compare" /\ dpc' \in {"loadvictim", "moveon"} /\ dcurr' = dcurr
      BY <2>4 DEF RemoveCompare
    <3> QED
      BY <1>1, <3>1 DEF Ranked
  <2>5. CASE RemoveMovesOn
    <3>1. dpc = "moveon" /\ dpc' = "walk" /\ dcurr' \in NextAt(dcurr)
      BY <2>5 DEF RemoveMovesOn
    <3>2. dcurr \in held /\ age[dcurr] = Whole /\ next[dcurr] # NULL
      BY <3>1 DEF Ranked
    <3>3. dcurr' = next[dcurr] /\ next[dcurr] \in held /\ age[next[dcurr]] = Whole
      BY <2>0, <3>1, <3>2
    <3> QED
      BY <3>1, <3>3
  <2>6. CASE LoadVictim /\ dpc = "loadhead"
    <3>1. victim' = head /\ dpc' = "loadfirst" /\ dcurr' = dcurr
      BY <2>6 DEF LoadVictim
    <3>2. head # NULL
      BY <2>6 DEF Ranked
    <3> QED
      BY <1>1, <2>0, <2>6, <3>1, <3>2 DEF Ranked, Unled
  <2>7. CASE LoadVictim /\ dpc # "loadhead"
    <3>1. dpc = "loadvictim" /\ dpc' = "loadnext" /\ dcurr' = dcurr
          /\ victim' \in NextAt(dcurr)
      BY <2>7 DEF LoadVictim
    <3>2. dcurr \in held /\ age[dcurr] = Whole /\ next[dcurr] # NULL
      BY <3>1 DEF Ranked
    <3>3. PICK v : v = next[dcurr]
      OBVIOUS
    <3>4. /\ victim' = v /\ v \in held /\ age[v] = Whole /\ rank[v] < rank[dcurr]
          /\ \A c \in held : next[c] = v => c = dcurr
      BY <2>0, <3>1, <3>2, <3>3
    <3>5. head # v
      BY <2>0, <3>2, <3>3 DEF Unled
    <3> QED
      BY <1>1, <3>1, <3>2, <3>4, <3>5
  <2>8. CASE LoadSuccessor
    <3>1. PICK v, d : v = victim /\ d = next[victim]
      OBVIOUS
    <3>2. /\ dpc \in {"loadfirst", "loadnext"}
          /\ dpc' = (IF dpc = "loadfirst" THEN "storehead" ELSE "storenext")
          /\ UNCHANGED <<dcurr, victim>> /\ loaded' \in NextAt(v)
      BY <2>8, <3>1 DEF LoadSuccessor
    <3>3. v \in held /\ age[v] = Whole /\ d = next[v]
      BY <3>1, <3>2 DEF Ranked
    <3>4. loaded' = d
      BY <2>0, <3>2, <3>3
    <3>5. d # NULL => /\ d \in held /\ age[d] = Whole /\ rank[d] < rank[v] /\ head # d
                      /\ \A e \in held : next[e] = d => e = v
      BY <2>0, <3>3 DEF Unled
    <3>6. CutInv(age, rank, held)'
      BY <1>1, <3>1, <3>2, <3>4, <3>5
    <3>7. WalkInv(age, rank, held)'
      BY <1>1, <3>2 DEF Ranked
    <3>8. HeadInv(age, held)'
      <4>1. dpc = "loadfirst" /\ dcurr # NULL => dcurr # d
        BY <3>3 DEF Ranked, Unled
      <4>2. dcurr = NULL /\ d # NULL => dcurr # d
        OBVIOUS
      <4> QED
        BY <1>1, <3>1, <3>2, <3>4, <4>1, <4>2 DEF Ranked, Unled
    <3> QED
      BY <3>6, <3>7, <3>8
  <2>9. CASE RemoveCall \/ Free \/ ScanStart \/ ScanNode \/ ScanAdvance
    <3>1. dpc' \in {"remove", "idle", "advance", "scan"}
      BY <2>9 DEF RemoveCall, Free, ScanStart, ScanNode, ScanAdvance
    <3> QED
      BY <3>1
  <2> QED
    BY <2>1, <2>2, <2>3, <2>4, <2>5, <2>6, <2>7, <2>8, <2>9 DEF Deamon
<1> QED
  BY <1>4, <1>5 DEF Ranked

LEMMA RankedLinkLast ==
    ASSUME KeepInv, proc = "running", NEW age, NEW rank, NEW held,
           Ranked(age, rank, held), NEW a \in Adders, LinkLast(a)
    PROVE  \E ag, rk : Ranked(ag, rk, held)'
<1> USE DEF heapVars, addVars, removeVars, scanVars
<1>1. PICK n, e, i, G : /\ n = node[a] /\ e = acurr[a] /\ i = id[n]
                        /\ G = {d \in held : age[d] = i}
  OBVIOUS
<1>2. PICK g, H : g = (IF e \in held THEN age[e] ELSE Whole) /\ H = held \ G
  OBVIOUS
<1>3. PICK ag, rk : /\ ag = [d \in Cells |-> IF d \in G THEN g ELSE age[d]]
                    /\ rk = [d \in Cells |-> IF d \in H THEN rank[d] + rank[n] + 1
                                             ELSE rank[d]]
  OBVIOUS
<1>4. /\ apc[a] = "link" /\ next' = [next EXCEPT ![e] = n] /\ n = node[a] /\ e = acurr[a]
      /\ apc' = [apc EXCEPT ![a] = "idle"]
      /\ UNCHANGED <<head, id, live, node, acurr, issued, dpc, dcurr, victim, loaded, proc>>
  BY <1>1 DEF LinkLast
<1>5. /\ n \in held /\ n \in Cells /\ n # NULL /\ Unled(n, held) /\ age[n] = i /\ i = id[n]
      /\ e \in Cells /\ age[e] > i /\ i \in Nat /\ i < Whole /\ n # e
  <2>1. n \in held /\ Unled(n, held) /\ age[n] = id[n] /\ n \in Cells
    BY <1>4, HeldTypes DEF Ranked, AddInv
  <2>2. e \in Cells
    BY <1>4 DEF KeepInv, UsedInv
  <2>3. age[e] > id[n]
    BY <1>4, <2>2 DEF Ranked, AddInv
  <2>4. id[n] \in Nat /\ id[n] < Whole /\ n # NULL
    BY <2>1, HeapTypes, CellFacts
  <2> QED
    BY <1>1, <2>1, <2>2, <2>3, <2>4
<1>6. /\ age \in [Cells -> Nat] /\ rank \in [Cells -> Nat] /\ held \subseteq Cells
      /\ Whole \in Nat /\ issued \in Nat /\ issued + 1 <= Whole
  <2>1. Whole \in Nat /\ issued \in Nat /\ MaxAdds \in Nat /\ issued <= MaxAdds
    BY HeapTypes
  <2> QED
    BY <2>1, HeldTypes DEF Ranked, HeapInv, Whole
<1>7. g \in Nat /\ g > i
  BY <1>2, <1>5, <1>6
<1>8. /\ \A d \in Cells : ag[d] = IF d \in G THEN g ELSE age[d]
      /\ \A d \in held : rk[d] = IF d \in G THEN rank[d] ELSE rank[d] + rank[n] + 1
      /\ ag \in [Cells -> Nat] /\ rk \in [Cells -> Nat]
      /\ \A d \in G : d \in held /\ age[d] = i
      /\ \A d \in held : age[d] = i => d \in G
      /\ n \in G /\ e \notin G
  <2>1. /\ \A d \in G : d \in held /\ age[d] = i
        /\ \A d \in held : age[d] = i => d \in G
        /\ n \in G /\ e \notin G
    BY <1>1, <1>5, <1>6
  <2>2. rank[n] \in Nat
    BY <1>5, <1>6
  <2>3. ag \in [Cells -> Nat] /\ \A d \in Cells : ag[d] = IF d \in G THEN g ELSE age[d]
    BY <1>3, <1>6, <1>7
  <2>4. rk \in [Cells -> Nat]
    BY <1>3, <1>6, <2>2
  <2>5. \A d \in held : rk[d] = IF d \in G THEN rank[d] ELSE rank[d] + rank[n] + 1
    BY <1>2, <1>3, <1>6, <2>1
  <2> QED
    BY <2>1, <2>3, <2>4, <2>5
<1>9. \A d \in Cells : ag[d] >= age[d] /\ (age[d] # i => ag[d] = age[d])
  BY <1>5, <1>6, <1>7, <1>8
<1>10. \A c, d \in held : age[c] = age[d] /\ rank[c] < rank[d] => rk[c] < rk[d]
  <2>1. ASSUME NEW c \in held, NEW d \in held, age[c] = age[d], rank[c] < rank[d]
        PROVE  rk[c] < rk[d]
    <3>1. c \in G <=> d \in G
      BY <2>1, <1>8
    <3>2. rank[c] \in Nat /\ rank[d] \in Nat /\ rank[n] \in Nat
      BY <1>5, <1>6
    <3> QED
      BY <2>1, <3>1, <3>2, <1>8
  <2> QED
    BY <2>1
<1>11. \A d \in Cells : next'[d] = IF d = e THEN n ELSE next[d]
  BY <1>4, HeapTypes
<1>12. \A d : Unled(d, held) /\ d # n => Unled(d, held)'
  BY <1>6, <1>11 DEF Unled
<1>13. HeapInv(ag, rk, held)'
  <2>0. held \subseteq live
    BY HeldTypes
  <2>1. ASSUME NEW d \in held, next'[d] # NULL
        PROVE  next'[d] \in held /\ ag[next'[d]] = ag[d] /\ rk[next'[d]] < rk[d]
    <3>1. CASE d = e
      <4>1. next'[d] = n /\ g = age[e] /\ ag[n] = g /\ ag[e] = age[e]
        BY <2>1, <3>1, <1>2, <1>5, <1>8, <1>11
      <4>2. rk[n] = rank[n] /\ rk[e] = rank[e] + rank[n] + 1
        BY <2>1, <3>1, <1>5, <1>8
      <4>3. rank[n] \in Nat /\ rank[e] \in Nat
        BY <1>5, <1>6
      <4> QED
        BY <3>1, <4>1, <4>2, <4>3, <1>5
    <3>2. CASE d # e
      <4>1. /\ next'[d] = next[d] /\ next[d] \in held /\ age[next[d]] = age[d]
            /\ rank[next[d]] < rank[d]
        BY <2>1, <3>2, <1>6, <1>11 DEF Ranked, HeapInv
      <4>2. ag[next[d]] = ag[d]
        BY <4>1, <1>6, <1>8
      <4> QED
        BY <4>1, <4>2, <1>10
    <3> QED
      BY <3>1, <3>2
  <2>2. ASSUME NEW c \in held, NEW d \in held, next'[c] # NULL, next'[c] = next'[d]
        PROVE  c = d
    <3>1. next[c] # n /\ next[d] # n
      BY <1>5 DEF Unled
    <3>2. c \in Cells /\ d \in Cells
      BY <1>6
    <3>3. CASE c = e \/ d = e
      BY <3>1, <3>2, <3>3, <2>2, <1>11
    <3>4. CASE c # e /\ d # e
      BY <3>2, <3>4, <2>2, <1>11 DEF Ranked, HeapInv
    <3> QED
      BY <3>3, <3>4
  <2>3. ASSUME NEW d \in Cells \ held
        PROVE  ag[d] <= issued + 1 /\ (next'[d] # NULL => ag[next'[d]] >= ag[d])
    <3>1. /\ age[d] <= issued + 1 /\ (next[d] # NULL => age[next[d]] >= age[d])
          /\ ag[d] = age[d] /\ age[d] \in Nat
      BY <1>6, <1>8 DEF Ranked, HeapInv
    <3>2. CASE d = e
      <4>1. next'[d] = n /\ ag[n] = Whole
        BY <3>2, <1>2, <1>5, <1>8, <1>11
      <4> QED
        BY <3>1, <4>1, <1>6
    <3>3. CASE d # e
      <4>1. next'[d] = next[d]
        BY <3>3, <1>11
      <4>2. next[d] # NULL => /\ next[d] \in Cells /\ age[next[d]] \in Nat
                              /\ ag[next[d]] \in Nat /\ ag[next[d]] >= age[next[d]]
        BY <1>6, <1>8, <1>9, HeapTypes
      <4> QED
        BY <3>1, <4>1, <4>2
    <3> QED
      BY <3>2, <3>3
  <2>4. head # NULL => head \in held /\ ag[head] = Whole /\ Unled(head, held)'
    <3>1. head # NULL => head \in held /\ age[head] = Whole /\ Unled(head, held)
      BY DEF Ranked, HeapInv
    <3>2. head # NULL => head # n /\ head \in Cells
      BY <3>1, <1>5, <1>6
    <3>3. head # NULL => ag[head] = Whole
      BY <3>1, <3>2, <1>5, <1>9
    <3>4. PICK h : h = head
      OBVIOUS
    <3>5. h # NULL => Unled(h, held)'
      BY <3>1, <3>2, <3>4, <1>12
    <3> QED
      BY <3>1, <3>3, <3>4, <3>5, <1>4 DEF Unled
  <2> QED
    BY <1>4, <1>8, <1>11, <2>0, <2>1, <2>2, <2>3, <2>4 DEF HeapInv, Unled
<1>14. AddInv(ag, held)'
  <2>1. \A b \in Adders : apc'[b] # "idle" => b # a /\ apc'[b] = apc[b]
    BY <1>4, HeapTypes
  <2>2. ASSUME NEW b \in Adders, apc[b] # "idle", b # a
        PROVE  /\ ag[node[b]] = id[node[b]] /\ Unled(node[b], held)'
               /\ apc[b] \in {"walk", "step", "link"} /\ acurr[b] \in Cells =>
                     ag[acurr[b]] > id[node[b]]
    <3>1. /\ node[b] \in held /\ age[node[b]] = id[node[b]] /\ Unled(node[b], held)
          /\ apc[b] \in {"walk", "step", "link"} /\ acurr[b] \in Cells =>
                age[acurr[b]] > id[node[b]]
          /\ id[node[b]] # id[n]
      BY <1>4, <2>2 DEF Ranked, AddInv
    <3>2. node[b] \in Cells /\ id[node[b]] \in Nat
      BY <3>1, <1>6, HeapTypes
    <3>4. ag[node[b]] = id[node[b]] /\ node[b] # n
      BY <3>1, <3>2, <1>5, <1>9
    <3>5. apc[b] \in {"walk", "step", "link"} /\ acurr[b] \in Cells =>
             ag[acurr[b]] > id[node[b]]
      <4>1. acurr[b] \in Cells => /\ ag[acurr[b]] >= age[acurr[b]]
                               /\ ag[acurr[b]] \in Nat /\ age[acurr[b]] \in Nat
        BY <1>6, <1>8, <1>9
      <4> QED
        BY <4>1, <3>1, <3>2
    <3>6. Unled(node[b], held)'
      <4>1. PICK m : m = node[b]
        OBVIOUS
      <4>2. Unled(m, held)'
        BY <4>1, <3>1, <3>4, <1>12
      <4> QED
        BY <4>1, <4>2, <1>4 DEF Unled
    <3> QED
      BY <3>4, <3>5, <3>6
  <2>3. \A b \in Adders : apc[b] # "idle" => node[b] \in held /\ id[node[b]] <= issued
    BY DEF Ranked, AddInv
  <2>4. \A b, d \in Adders : apc[b] # "idle" /\ apc[d] # "idle" /\ id[node[b]] = id[node[d]]
           => b = d
    BY DEF Ranked, AddInv
  <2> QED
    BY <1>4, <1>11, <2>1, <2>2, <2>3, <2>4 DEF AddInv
<1>15. RemoveInv(ag, rk, held)'
  <2>1. \A d \in held : age[d] = Whole => ag[d] = Whole /\ d # n
    BY <1>5, <1>6, <1>9
  <2>2. \A c, d \in held : age[c] = Whole /\ age[d] = Whole /\ rank[c] < rank[d] =>
           rk[c] < rk[d]
    BY <1>10
  <2>3. \A c, d \in held : age[d] = Whole /\ next'[c] = d => next[c] = d
    BY <2>1, <1>6, <1>11
  <2>4. HeadInv(ag, held)'
    <3>1. dpc \in Heading /\ dcurr # NULL =>
             dcurr \in held /\ ag[dcurr] = Whole /\ \A d \in held : next'[d] # dcurr
      BY <2>1, <2>3 DEF Ranked, RemoveInv, HeadInv, Unled
    <3>2. dpc \in {"loadfirst", "storehead"} =>
             victim \in held /\ ag[victim] = Whole /\ \A d \in held : next'[d] # victim
      BY <2>1, <2>3 DEF Ranked, RemoveInv, HeadInv, Unled
    <3> QED
      BY <1>4, <3>1, <3>2 DEF Ranked, RemoveInv, HeadInv, Unled
  <2>5. WalkInv(ag, rk, held)'
    <3>1. dpc = "walk" /\ dcurr # NULL => dcurr \in held /\ ag[dcurr] = Whole
      BY <2>1 DEF Ranked, RemoveInv, WalkInv
    <3>2. proc = "running" /\ dpc \in Comparing =>
             dcurr \in held /\ ag[dcurr] = Whole /\ next'[dcurr] # NULL
      BY <2>1, <1>5, <1>6, <1>11 DEF Ranked, RemoveInv, WalkInv
    <3>3. dpc \in {"loadnext", "storenext"} =>
             /\ dcurr \in held /\ ag[dcurr] = Whole
             /\ victim \in held /\ ag[victim] = Whole
             /\ head # victim /\ rk[victim] < rk[dcurr]
             /\ \A d \in held : next'[d] = victim => d = dcurr
      BY <2>1, <2>2, <2>3 DEF Ranked, RemoveInv, WalkInv
    <3> QED
      BY <1>4, <3>1, <3>2, <3>3 DEF WalkInv
  <2>6. dpc \in {"storehead", "storenext"} /\ loaded # NULL =>
          /\ loaded \in held /\ ag[loaded] = Whole /\ rk[loaded] < rk[victim]
          /\ head # loaded /\ \A c \in held : next'[c] = loaded => c = victim
    BY <2>1, <2>2, <2>3 DEF Ranked, RemoveInv, HeadInv, WalkInv, CutInv
  <2>7. CutInv(ag, rk, held)'
    BY <1>4, <2>6 DEF Ranked, RemoveInv, CutInv, Freed
  <2> QED
    BY <2>4, <2>5, <2>7 DEF RemoveInv
<1> QED
  BY <1>13, <1>14, <1>15 DEF Ranked

(* The unlinked node is not held any more, nor what was the head when the  *)
(* call began.                                                             *)
LEMMA RankedUnlink ==
    ASSUME KeepInv, NEW age, NEW rank, NEW held, Ranked(age, rank, held), Unlink
    PROVE  \E ag, rk, h :
              /\ Ranked(ag, rk, h)'
              /\ h = held \ (IF dpc = "storehead" THEN {victim, dcurr} ELSE {victim})
<1> USE DEF heapVars, addVars, removeVars, scanVars
<1>1. PICK v, c, l, k : v = victim /\ c = dcurr /\ l = loaded /\ k = issued
  OBVIOUS
<1>2. PICK D : D = IF dpc = "storehead" THEN {v, c} ELSE {v}
  OBVIOUS
<1>a. PICK hd : hd = held \ D
  OBVIOUS
<1>b. PICK ag : ag = [d \in Cells |-> IF d \in D THEN k + 1 ELSE age[d]]
  OBVIOUS
<1>3. /\ k = issued
      /\ UNCHANGED <<id, live, apc, node, acurr, issued, dcurr, victim, loaded>>
      /\ \/ dpc = "storehead" /\ dpc' = "freecurr" /\ head' = l /\ next' = next
         \/ /\ dpc = "storenext" /\ dpc' = "free" /\ head' = head
            /\ next' = [next EXCEPT ![c] = l]
  BY <1>1 DEF Unlink
<1>4. /\ age \in [Cells -> Nat] /\ rank \in [Cells -> Nat]
      /\ held \subseteq Cells /\ held \subseteq live
      /\ Whole \in Nat /\ k \in Nat /\ k + 1 <= Whole
  <2>1. Whole \in Nat /\ issued \in Nat /\ MaxAdds \in Nat /\ issued <= MaxAdds
    BY HeapTypes
  <2> QED
    BY <1>1, <2>1, HeldTypes DEF Ranked, HeapInv, Whole
<1>5. v \in held /\ v \in Cells /\ v # NULL /\ age[v] = Whole
  <2>1. v \in held /\ age[v] = Whole
    BY <1>1, <1>3 DEF Ranked, RemoveInv, HeadInv, WalkInv
  <2> QED
    BY <2>1, <1>4, CellFacts
<1>6. l # NULL => /\ l \in held /\ age[l] = Whole /\ rank[l] < rank[v] /\ l # v
                  /\ head # l /\ \A d \in held : next[d] = l => d = v
  <2>1. l # NULL => /\ l \in held /\ age[l] = Whole /\ rank[l] < rank[v]
                    /\ head # l /\ \A d \in held : next[d] = l => d = v
    BY <1>1, <1>3 DEF Ranked, RemoveInv, CutInv
  <2>2. rank[v] \in Nat
    BY <1>4, <1>5
  <2> QED
    BY <2>1, <2>2
<1>7. dpc = "storenext" => /\ c \in held /\ age[c] = Whole /\ rank[v] < rank[c] /\ c # v
                           /\ head # v /\ \A d \in held : next[d] = v => d = c
  <2>1. dpc = "storenext" => /\ c \in held /\ age[c] = Whole /\ rank[v] < rank[c]
                             /\ head # v /\ \A d \in held : next[d] = v => d = c
    BY <1>1, <1>3 DEF Ranked, RemoveInv, WalkInv
  <2>2. rank[v] \in Nat
    BY <1>4, <1>5
  <2> QED
    BY <2>1, <2>2
<1>8. dpc = "storehead" =>
         /\ \A d \in held : next[d] # v
         /\ c # NULL => c \in held /\ age[c] = Whole /\ \A d \in held : next[d] # c
         /\ l # NULL => l # c
  BY <1>1, <1>3 DEF Ranked, RemoveInv, HeadInv, Unled, Heading
<1>9. /\ v \in D /\ \A d \in D : d # NULL => d \in held /\ age[d] = Whole
      /\ l # NULL => l \notin D
      /\ dpc = "storehead" => \A d \in held : next[d] \in D => next[d] = NULL
      /\ dpc = "storenext" => D = {v}
  BY <1>2, <1>3, <1>5, <1>6, <1>8
<1>10. \A d \in Cells : next'[d] = IF dpc = "storenext" /\ d = c THEN l ELSE next[d]
  BY <1>3, HeapTypes
<1>11. ag \in [Cells -> Nat] /\ \A d \in Cells : ag[d] = IF d \in D THEN k + 1 ELSE age[d]
  BY <1>b, <1>4, <1>5
<1>12. HeapInv(ag, rank, hd)'
  <2>0. hd \subseteq live'
    BY <1>a, <1>3, <1>4
  <2>1. ASSUME NEW d \in hd, next'[d] # NULL
        PROVE  next'[d] \in hd /\ ag[next'[d]] = ag[d] /\ rank[next'[d]] < rank[d]
    <3>1. d \in held /\ d \notin D /\ d # v /\ d \in Cells /\ ag[d] = age[d] /\ rank[d] \in Nat
      BY <2>1, <1>a, <1>4, <1>9, <1>11
    <3>2. CASE dpc = "storenext" /\ d = c
      <4>1. next'[d] = l /\ l # NULL
        BY <3>1, <3>2, <2>1, <1>10
      <4>2. l \in held /\ l \in Cells /\ l \notin D /\ ag[l] = Whole /\ age[c] = Whole
        BY <4>1, <3>2, <1>4, <1>6, <1>7, <1>9, <1>11
      <4>3. rank[l] \in Nat /\ rank[v] \in Nat /\ rank[l] < rank[v] /\ rank[v] < rank[c]
        BY <4>1, <4>2, <3>2, <1>4, <1>5, <1>6, <1>7
      <4> QED
        BY <4>1, <4>2, <4>3, <3>1, <3>2, <1>a
    <3>3. CASE ~(dpc = "storenext" /\ d = c)
      <4>1. /\ next'[d] = next[d] /\ next[d] \in held /\ age[next[d]] = age[d]
            /\ rank[next[d]] < rank[d]
        BY <3>1, <3>3, <2>1, <1>10 DEF Ranked, HeapInv
      <4>2. next[d] \notin D
        BY <3>1, <3>3, <2>1, <4>1, <1>3, <1>7, <1>9
      <4> QED
        BY <4>1, <4>2, <3>1, <1>4, <1>a, <1>11
    <3> QED
      BY <3>2, <3>3
  <2>2. ASSUME NEW d \in hd, NEW e \in hd, next'[d] # NULL, next'[d] = next'[e]
        PROVE  d = e
    <3>1. d \in held /\ e \in held /\ d # v /\ e # v /\ d \in Cells /\ e \in Cells
      BY <1>4, <1>a, <1>9
    <3>2. CASE dpc = "storenext" /\ (d = c \/ e = c)
      BY <3>1, <3>2, <2>2, <1>6, <1>10
    <3>3. CASE ~(dpc = "storenext" /\ (d = c \/ e = c))
      <4>1. next'[d] = next[d] /\ next'[e] = next[e]
        BY <3>1, <3>3, <1>10
      <4> QED
        BY <4>1, <3>1, <2>2 DEF Ranked, HeapInv
    <3> QED
      BY <3>2, <3>3
  <2>3. ASSUME NEW d \in Cells \ hd
        PROVE  ag[d] <= issued' + 1 /\ (next'[d] # NULL => ag[next'[d]] >= ag[d])
    <3>1. next'[d] = next[d] /\ (next[d] # NULL => next[d] \in Cells)
      BY <2>3, <1>7, <1>9, <1>10, <1>a, HeapTypes
    <3>2. CASE d \in D
      <4>0. d \in held /\ d # NULL
        BY <2>3, <3>2, <1>9, CellFacts
      <4>1. next[d] # NULL => next[d] \in held /\ age[next[d]] = Whole /\ next[d] \notin D
        <5>1. next[d] # NULL => next[d] \in held /\ age[next[d]] = age[d]
                                /\ rank[next[d]] < rank[d]
          BY <4>0 DEF Ranked, HeapInv
        <5>2. rank[d] \in Nat
          BY <2>3, <1>4
        <5> QED
          BY <5>1, <5>2, <4>0, <3>2, <1>3, <1>9
      <4>2. ag[d] = k + 1 /\ (next[d] # NULL => ag[next[d]] = Whole)
        BY <4>1, <2>3, <3>1, <3>2, <1>11
      <4> QED
        BY <4>2, <3>1, <1>3, <1>4
    <3>3. CASE d \notin D
      <4>1. d \in Cells \ held /\ ag[d] = age[d] /\ age[d] \in Nat
        BY <2>3, <3>3, <1>4, <1>a, <1>11
      <4>2. age[d] <= k + 1 /\ (next[d] # NULL => age[next[d]] >= age[d])
        BY <4>1, <1>3 DEF Ranked, HeapInv
      <4> QED
        BY <4>1, <4>2, <3>1, <1>3, <1>4, <1>11
    <3> QED
      BY <3>2, <3>3
  <2>4. head' # NULL => head' \in hd /\ ag[head'] = Whole /\ Unled(head, hd)'
    <3>1. CASE dpc = "storehead"
      <4>1. head' = l /\ next' = next
        BY <3>1, <1>3
      <4>2. l # NULL => l \in hd /\ ag[l] = Whole
        BY <1>4, <1>6, <1>9, <1>a, <1>11
      <4>3. l # NULL => \A d \in hd : next[d] # l
        BY <1>6, <1>9, <1>a
      <4> QED
        BY <4>1, <4>2, <4>3 DEF Unled
    <3>2. CASE dpc = "storenext"
      <4>1. head' = head
        BY <3>2, <1>3
      <4>2. head # NULL => /\ head \in held /\ age[head] = Whole /\ head # v
                           /\ \A d \in held : next[d] # head
        BY <3>2, <1>7 DEF Ranked, HeapInv, Unled
      <4>3. head # NULL => head \in hd /\ ag[head] = Whole
        BY <4>2, <3>2, <1>4, <1>9, <1>a, <1>11
      <4>4. head # NULL => \A d \in hd : next'[d] # head
        BY <4>2, <1>4, <1>6, <1>a, <1>10
      <4> QED
        BY <4>1, <4>3, <4>4 DEF Unled
    <3> QED
      BY <3>1, <3>2, <1>3
  <2> QED
    BY <1>4, <1>11, <2>0, <2>1, <2>2, <2>3, <2>4 DEF HeapInv
<1>13. AddInv(ag, hd)'
  <2>1. ASSUME NEW b \in Adders, apc[b] # "idle"
        PROVE  /\ node[b] \in hd /\ ag[node[b]] = id[node[b]] /\ id[node[b]] <= issued
               /\ \A d \in hd : next'[d] # node[b]
               /\ apc[b] \in {"walk", "step", "link"} /\ acurr[b] \in Cells =>
                     ag[acurr[b]] > id[node[b]]
    <3>1. /\ node[b] \in held /\ age[node[b]] = id[node[b]] /\ id[node[b]] <= issued
          /\ \A d \in held : next[d] # node[b]
          /\ apc[b] \in {"walk", "step", "link"} /\ acurr[b] \in Cells =>
                age[acurr[b]] > id[node[b]]
      BY <2>1 DEF Ranked, AddInv, Unled
    <3>2. node[b] \in Cells /\ node[b] # NULL /\ id[node[b]] \in Nat /\ id[node[b]] < Whole
      BY <3>1, <1>4, HeapTypes, CellFacts
    <3>3. node[b] \notin D /\ node[b] # l
      BY <3>1, <3>2, <1>4, <1>6, <1>9
    <3>5. \A d \in hd : next'[d] # node[b]
      BY <3>1, <3>3, <1>4, <1>a, <1>10
    <3> QED
      BY <3>1, <3>2, <3>3, <3>5, <1>3, <1>4, <1>a, <1>11
  <2>2. \A b, d \in Adders : apc[b] # "idle" /\ apc[d] # "idle" /\ id[node[b]] = id[node[d]]
           => b = d
    BY DEF Ranked, AddInv
  <2> QED
    BY <1>3, <2>1, <2>2 DEF AddInv, Unled
<1>14. RemoveInv(ag, rank, hd)'
  <2>1. Freed' # NULL => Freed' \in live' \ hd
    <3>1. \/ dpc = "storehead" /\ Freed' = c
          \/ dpc = "storenext" /\ Freed' = v
      BY <1>1, <1>3 DEF Freed
    <3> QED
      BY <3>1, <1>2, <1>3, <1>4, <1>9, <1>a
  <2> QED
    BY <1>3, <2>1 DEF RemoveInv, HeadInv, WalkInv, CutInv, Heading, Comparing
<1> QED
  BY <1>1, <1>2, <1>a, <1>12, <1>13, <1>14 DEF Ranked
LEMMA RankedStep ==
    ASSUME KeepInv, NEW age, NEW rank, NEW held, Ranked(age, rank, held), [Next]_vars
    PROVE  \E ag, rk, h : Ranked(ag, rk, h)'
<1>1. CASE UNCHANGED vars
  <2>1. Ranked(age, rank, held)'
    BY <1>1 DEF vars, Ranked, HeapInv, AddInv, RemoveInv, HeadInv, WalkInv, CutInv, Freed,
               Unled
  <2> QED
    BY <2>1
<1>2. ASSUME proc = "running", NEW a \in Adders, Add(a)
      PROVE  \E ag, rk, h : Ranked(ag, rk, h)'
  <2>1. CASE TestEmpty(a) \/ LoadHead(a) \/ TestNext(a) \/ Step(a)
    <3>1. Ranked(age, rank, held)'
      BY <1>2, <2>1, RankedLook
    <3> QED
      BY <3>1
  <2>2. CASE LinkFirst(a) \/ LinkLast(a)
    <3>1. \E ag, rk : Ranked(ag, rk, held)'
      BY <1>2, <2>2, RankedLinkFirst, RankedLinkLast
    <3> QED
      BY <3>1
  <2> QED
    BY <1>2, <2>1, <2>2, RankedAllocate DEF Add
<1>3. ASSUME proc = "running", Deamon PROVE \E ag, rk, h : Ranked(ag, rk, h)'
  <2>1. CASE Unlink
    BY <2>1, RankedUnlink
  <2>2. CASE ~Unlink
    <3>1. Ranked(age, rank, held)'
      BY <1>3, <2>2, RankedDeamon
    <3> QED
      BY <3>1
  <2> QED
    BY <2>1, <2>2
<1> QED
  BY <1>1, <1>2, <1>3 DEF Next, Running

LEMMA RankedInit == Init => \E ag, rk, h : Ranked(ag, rk, h)
<1> SUFFICES ASSUME Init PROVE \E ag, rk, h : Ranked(ag, rk, h)
  OBVIOUS
<1>1. PICK z : z = [c \in Cells |-> 0]
  OBVIOUS
<1>2. /\ z \in [Cells -> Nat] /\ live = {} /\ head = NULL /\ issued = 0 /\ dpc = "idle"
      /\ \A c \in Cells : z[c] = 0 /\ next[c] = NULL
      /\ \A a \in Adders : apc[a] = "idle"
  BY <1>1 DEF Init
<1>3. Ranked(z, z, {})
  BY <1>2 DEF Ranked, HeapInv, AddInv, RemoveInv, HeadInv, WalkInv, CutInv, Heading,
              Comparing
<1> QED
  BY <1>3

RankedInv == KeepInv /\ \E ag, rk, h : Ranked(ag, rk, h)

LEMMA RankedInvStep == RankedInv /\ [Next]_vars => RankedInv'
<1> SUFFICES ASSUME RankedInv, [Next]_vars PROVE RankedInv'
  OBVIOUS
<1>1. PICK ag, rk, h : Ranked(ag, rk, h)
  BY DEF RankedInv
<1>2. Firm
  BY <1>1, RankedFirm DEF RankedInv
<1> QED
  BY <1>1, <1>2, RankedStep, UsedStep DEF RankedInv, KeepInv

LEMMA RankedAlways == Spec => []RankedInv
<1>1. Init => RankedInv
  BY RankedInit, UsedInit DEF RankedInv, KeepInv
<1> QED
  BY <1>1, RankedInvStep, PTL DEF Spec

(* Types, for any number of threads, cells and messages, whatever others   *)
(* write into freed memory: message_send_remove follows the pointers of    *)
(* nodes only, so that what leads astray is the walk of an adder or the    *)
(* step of the scan; a call of the deamon ends with its scan               *)
(* (client_deamon.c:210-219, message_keep.c:32-84).                        *)
THEOREM KeepTypeCorrect == Spec => []TypeOK
<1>1. RankedInv => TypeOK
  BY DEF RankedInv, KeepInv
<1> QED
  BY <1>1, RankedAlways, PTL

(* Any number of application threads and the deamon thread, in any         *)
(* interleaving of the steps of message_send_add with each other, with     *)
(* those of message_send_remove and with the scan, freed memory handed out *)
(* again, to nodes and to others: the list stays finite, without a cycle,  *)
(* without a freed node and without a pointer to anything else             *)
(* (message_keep.c:32-42, 66-84).                                          *)
THEOREM ListStaysSound == Spec => []ListSound
<1>1. RankedInv => ListSound
  BY RankedSound DEF RankedInv
<1> QED
  BY <1>1, RankedAlways, PTL

(* Nor is a node freed twice, or while it is on the list                   *)
(* (message_keep.c:71-72, 78-80).                                          *)
THEOREM NodesAreFreedOnce == Spec => []FreedOnce
<1>1. RankedInv => FreedOnce
  BY RankedSound DEF RankedInv
<1> QED
  BY <1>1, RankedAlways, PTL

-----------------------------------------------------------------------------
(* One thread adds at a time                                               *)

(* No two threads are in message_send_add at once.                         *)
Single == \A a, b \in Adders : apc[a] # "idle" /\ apc[b] # "idle" => a = b

Links == {"head", "walk", "step", "link"}

(* p is the list.  What the two threads hold of it: the adder's node is    *)
(* not on it; where the adder links, the cell is the last one or no longer *)
(* on the list,                                                            *)
WriteInv(p) ==
    /\ On(p) \subseteq live
    /\ \A a \in Adders :
          /\ apc[a] # "idle" => /\ node[a] \in live /\ node[a] \notin On(p)
                                /\ next[node[a]] = NULL
          /\ apc[a] = "first" => p = <<>>
          /\ apc[a] = "link" /\ acurr[a] \in On(p) => next[acurr[a]] = NULL

(* the deamon holds cells of the list until it has unlinked the one it     *)
(* looked for, NULL for the head that has come since, and the successor it *)
(* has read may have come too late, when it was NULL,                      *)
FindInv(p) ==
    /\ dpc \in Heading => dcurr \in {NULL, head}
    /\ dpc = "walk" => dcurr \in On(p) \cup {NULL}
    /\ proc = "running" /\ dpc = "loadhead" => head # NULL /\ id[head] = target
    /\ proc = "running" /\ dpc \in Comparing => dcurr \in On(p) /\ next[dcurr] # NULL
    /\ proc = "running" /\ dpc = "loadvictim" => id[next[dcurr]] = target
    /\ dpc \in {"loadfirst", "storehead"} => head = victim
    /\ dpc \in {"loadnext", "storenext"} => dcurr \in On(p) /\ next[dcurr] = victim
    /\ dpc \in {"loadfirst", "storehead", "loadnext", "storenext"} =>
          victim # NULL /\ id[victim] = target
    /\ dpc \in {"storehead", "storenext"} => loaded \in {NULL, next[victim]}

(* and what it frees is not on the list, nor the adder's.                  *)
FreeInv(p) ==
    dpc \in {"freecurr", "free"} /\ Freed # NULL =>
        /\ Freed \in live /\ Freed \notin On(p)
        /\ \A a \in Adders : apc[a] # "idle" => node[a] # Freed

ListInv(p) == WriteInv(p) /\ FindInv(p) /\ FreeInv(p)

(* When calls do not overlap, none of the doubts remain.                   *)
AloneInv(p) ==
    ~overlap =>
        /\ \A a \in Adders :
              /\ apc[a] # "idle" => dpc = "idle"
              /\ apc[a] = "head" => p # <<>>
              /\ apc[a] \in {"walk", "step", "link"} => acurr[a] \in On(p)
              /\ apc[a] = "step" => next[acurr[a]] # NULL
        /\ dpc \in {"storehead", "storenext"} => loaded = next[victim]
        /\ added \subseteq {id[c] : c \in On(p)} \cup unlinked

Settled(p) == Chain(p, head, next) /\ ListInv(p) /\ AloneInv(p)

(* How the list of a caller that is alone may change in a step.            *)
Moves(p, q) ==
    \/ q = p
    \/ \E c \in Cells : q = Append(p, c) /\ id[c] \in Ids
    \/ \E k \in 1..Len(p) : q = Without(p, k)

LEMMA HeldFacts ==
    ASSUME KeepInv, NEW p, Settled(p)
    PROVE  /\ next \in [Cells -> Pointers] /\ head \in Pointers
           /\ On(p) \subseteq Cells /\ live \subseteq Cells /\ NULL \notin On(p)
           /\ \A c \in On(p) : NextAt(c) = {next[c]} /\ IdAt(c) = {id[c]}
                                /\ Fate(c) = "running"
           /\ \A a \in Adders : apc[a] # "idle" => node[a] \in Cells
           /\ head = NULL <=> p = <<>>
           /\ head # NULL => head \in On(p)
           /\ \A c \in On(p) : next[c] # NULL => next[c] \in On(p)
           /\ dpc \in {"loadnext", "storenext", "loadfirst", "storehead"} =>
                 victim \in On(p)
<1>1. /\ On(p) \subseteq Cells /\ (head = NULL <=> p = <<>>)
      /\ head # NULL => head \in On(p)
      /\ \A c \in On(p) : next[c] # NULL => next[c] \in On(p)
  BY OnFacts DEF Settled
<1>2. dpc \in {"loadnext", "storenext", "loadfirst", "storehead"} => victim \in On(p)
  BY <1>1 DEF Settled, ListInv, FindInv
<1>3. /\ NULL \notin On(p) /\ On(p) \subseteq live
      /\ \A c \in On(p) : Fate(c) = "running"
  BY <1>1, CellFacts DEF Settled, ListInv, WriteInv, Fate
<1>4. \A c \in On(p) : NextAt(c) = {next[c]} /\ IdAt(c) = {id[c]}
  BY <1>3 DEF NextAt, IdAt
<1> QED
  BY <1>1, <1>2, <1>3, <1>4
     DEF KeepInv, TypeOK, UsedInv, Pointers, Settled, ListInv, WriteInv

(* While one thread adds no other is in message_send_add.                  *)
LEMMA OthersIdle ==
    ASSUME KeepInv, Single, Single', NEW a \in Adders, Add(a)
    PROVE  \A b \in Adders : b # a => apc[b] = "idle" /\ apc'[b] = "idle"
<1>0. apc \in [Adders -> {"idle", "test", "first", "head", "walk", "step", "link"}]
  BY DEF KeepInv, TypeOK
<1>1. \A b \in Adders : b # a => apc'[b] = apc[b]
  <2>1. (\E x : apc' = [apc EXCEPT ![a] = x]) \/ apc' = apc
    BY DEF Add, Allocate, TestEmpty, LinkFirst, LoadHead, TestNext, Step, LinkLast
  <2> QED
    BY <1>0, <2>1
<1>2. apc[a] # "idle" \/ apc'[a] # "idle"
  <2>1. CASE Allocate(a)
    <3>1. a \in DOMAIN apc /\ apc' = [apc EXCEPT ![a] = "test"]
      BY <2>1 DEF KeepInv, TypeOK, Allocate
    <3> QED
      BY <3>1
  <2>2. CASE ~Allocate(a)
    BY <2>2 DEF Add, TestEmpty, LinkFirst, LoadHead, TestNext, Step, LinkLast
  <2> QED
    BY <2>1, <2>2
<1> QED
  BY <1>1, <1>2 DEF Single

LEMMA SettledAllocate ==
    ASSUME KeepInv, Single, Single', NEW p, Settled(p), NEW a \in Adders, Allocate(a),
           UNCHANGED overlap
    PROVE  Settled(p)' /\ \A c \in On(p) : id'[c] = id[c]
<1> USE DEF heapVars, addVars, removeVars, scanVars
<1>1. PICK c \in Cells \ live :
          /\ live' = live \cup {c} /\ next' = [next EXCEPT ![c] = NULL]
          /\ id' = [id EXCEPT ![c] = issued'] /\ node' = [node EXCEPT ![a] = c]
  BY DEF Allocate
<1>2. /\ apc' = [apc EXCEPT ![a] = "test"] /\ apc[a] = "idle" /\ (overlap \/ Quiet)
      /\ UNCHANGED <<head, acurr, dpc, target, dcurr, victim, loaded, added, unlinked, overlap,
                     proc>>
  BY DEF Allocate, MayStart
<1>3. c \notin On(p) /\ c \in Cells /\ \A d \in On(p) : d \in Cells
  BY <1>1, HeldFacts DEF Settled, ListInv, WriteInv
<1>4. \A d \in Cells : next'[d] = (IF d = c THEN NULL ELSE next[d]) /\
                       id'[d] = (IF d = c THEN issued' ELSE id[d])
  BY <1>1 DEF KeepInv, TypeOK
<1>5. Chain(p, head', next')
  BY <1>1, <1>2, <1>3, HeldFacts, ChainApart DEF Settled
<1>6. \A b \in Adders : b # a => apc[b] = "idle" /\ apc'[b] = "idle"
  BY OthersIdle DEF Add
<1>7. apc'[a] = "test" /\ node'[a] = c
  <2>1. apc'[a] = "test"
    <3>1. a \in DOMAIN apc
      BY DEF KeepInv, TypeOK
    <3>2. apc' = [apc EXCEPT ![a] = "test"]
      BY <1>2
    <3> QED
      BY <3>1, <3>2, Zenon
  <2>2. node'[a] = c
    <3>1. node \in [Adders -> Pointers]
      BY DEF KeepInv, TypeOK
    <3> QED
      BY <1>1, <3>1
  <2> QED
    BY <2>1, <2>2
<1>8. \A d \in Cells : d \in live => d # c
  BY <1>1
<1>9. ListInv(p)'
  <2>1. On(p) \subseteq live'
    BY <1>1 DEF Settled, ListInv, WriteInv
  <2>2. \A b \in Adders :
          /\ apc'[b] # "idle" => /\ node'[b] \in live' /\ node'[b] \notin On(p)
                                 /\ next'[node'[b]] = NULL
          /\ apc'[b] = "first" => p = <<>>
          /\ apc'[b] = "link" /\ acurr'[b] \in On(p) => next'[acurr'[b]] = NULL
    BY <1>1, <1>3, <1>4, <1>6, <1>7
  <2>3. \A d \in On(p) : next'[d] = next[d] /\ id'[d] = id[d]
    BY <1>3, <1>4
  <2>4. FindInv(p)'
    <3>1. /\ dpc \in Heading => dcurr \in {NULL, head}
          /\ dpc = "walk" => dcurr \in On(p) \cup {NULL}
          /\ proc = "running" /\ dpc \in Comparing => dcurr \in On(p) /\ next'[dcurr] # NULL
          /\ dpc \in {"loadfirst", "storehead"} => head = victim
          /\ dpc \in {"loadnext", "storenext"} => dcurr \in On(p) /\ next'[dcurr] = victim
      BY <2>3 DEF Settled, ListInv, FindInv
    <3>2. /\ proc = "running" /\ dpc = "loadhead" => head # NULL /\ id'[head] = target
          /\ proc = "running" /\ dpc = "loadvictim" => id'[next'[dcurr]] = target
          /\ dpc \in {"loadfirst", "storehead", "loadnext", "storenext"} =>
                victim # NULL /\ id'[victim] = target
          /\ dpc \in {"storehead", "storenext"} => loaded \in {NULL, next'[victim]}
      BY <2>3, HeldFacts DEF Settled, ListInv, FindInv, Comparing
    <3> QED
      BY <1>2, <3>1, <3>2 DEF FindInv
  <2>5. FreeInv(p)'
    <3>1. Freed' = Freed
      BY <1>2 DEF Freed
    <3>2. dpc \in {"freecurr", "free"} /\ Freed # NULL =>
             /\ Freed \in live' /\ Freed \notin On(p)
             /\ \A b \in Adders : apc'[b] # "idle" => node'[b] # Freed
      BY <1>1, <1>6, <1>7 DEF Settled, ListInv, FreeInv
    <3> QED
      BY <1>2, <3>1, <3>2 DEF FreeInv
  <2> QED
    BY <2>1, <2>2, <2>4, <2>5 DEF ListInv, WriteInv
<1>10. \A d \in On(p) : id'[d] = id[d] /\ next'[d] = next[d]
  BY <1>3, <1>4
<1>11. AloneInv(p)'
  <2>1. SUFFICES ASSUME ~overlap
                 PROVE  /\ dpc = "idle"
                        /\ added \subseteq {id'[d] : d \in On(p)} \cup unlinked
    BY <1>2, <1>6, <1>7 DEF AloneInv
  <2>2. dpc = "idle"
    BY <1>2, <2>1 DEF Quiet
  <2>3. {id'[d] : d \in On(p)} = {id[d] : d \in On(p)}
    BY <1>10
  <2> QED
    BY <2>1, <2>2, <2>3 DEF Settled, AloneInv
<1> QED
  BY <1>5, <1>9, <1>10, <1>11 DEF Settled

(* The steps of message_send_add that write nothing.                       *)
LEMMA SettledLook ==
    ASSUME KeepInv, proc = "running", Single, Single', NEW p, Settled(p), NEW a \in Adders,
           TestEmpty(a) \/ LoadHead(a) \/ TestNext(a) \/ Step(a), UNCHANGED overlap
    PROVE  Settled(p)' /\ id' = id
<1> USE DEF heapVars, addVars, removeVars, scanVars
<1>1. /\ UNCHANGED <<head, next, id, live, node, added, dpc, target, dcurr, victim, loaded,
                     unlinked>>
      /\ apc[a] # "idle" /\ overlap' = overlap
      /\ \A b \in Adders : b # a => apc[b] = "idle" /\ apc'[b] = "idle"
  BY OthersIdle DEF TestEmpty, LoadHead, TestNext, Step, Add
<1>2. \/ apc'[a] = "first" /\ head = NULL /\ acurr' = acurr
      \/ apc'[a] = "head" /\ head # NULL /\ acurr' = acurr
      \/ apc'[a] = "walk" /\ apc[a] = "head" /\ acurr'[a] = head
      \/ \E n \in NextAt(acurr[a]) :
            /\ apc[a] = "walk" /\ acurr' = acurr
            /\ apc'[a] = IF n # NULL THEN "step" ELSE "link"
      \/ apc'[a] = "walk" /\ apc[a] = "step" /\ acurr'[a] \in NextAt(acurr[a])
  BY DEF KeepInv, TypeOK, TestEmpty, LoadHead, TestNext, Step
<1>3. ListInv(p)'
  <2>1. WriteInv(p)'
    BY <1>1, <1>2, HeldFacts DEF Settled, ListInv, WriteInv
  <2>2. FindInv(p)'
    BY <1>1 DEF Settled, ListInv, FindInv
  <2>3. FreeInv(p)'
    BY <1>1, <1>2 DEF Settled, ListInv, FreeInv, Freed
  <2> QED
    BY <2>1, <2>2, <2>3 DEF ListInv
<1>4. AloneInv(p)'
  BY <1>1, <1>2, HeldFacts DEF Settled, AloneInv
<1> QED
  BY <1>1, <1>3, <1>4 DEF Settled

LEMMA SettledLinkFirst ==
    ASSUME KeepInv, Single, Single', NEW p, Settled(p), NEW a \in Adders, LinkFirst(a),
           UNCHANGED overlap
    PROVE  /\ id' = id
           /\ \E c \in Cells : /\ c = node[a] /\ id[c] \in Ids /\ On(Append(p, c)) = {c}
                              /\ p = <<>> /\ Settled(Append(p, c))'
<1> USE DEF heapVars, addVars, removeVars, scanVars
<1>0. PICK n : n = node[a]
  OBVIOUS
<1> DEFINE q == Append(p, n)
<1>1. /\ apc[a] = "first" /\ n = node[a] /\ head' = n /\ added' = added \cup {id[n]}
      /\ apc' = [apc EXCEPT ![a] = "idle"] /\ overlap' = overlap
      /\ UNCHANGED <<next, id, live, node, acurr, dpc, target, dcurr, victim, loaded, unlinked,
                     proc>>
      /\ \A b \in Adders : b # a => apc[b] = "idle" /\ apc'[b] = "idle"
  BY <1>0, OthersIdle DEF LinkFirst, Add
<1>2. /\ p = <<>> /\ n \in live /\ next[n] = NULL /\ n \in Cells /\ On(p) = {}
      /\ head = NULL
  <2>1. p = <<>> /\ n \in live /\ next[n] = NULL /\ n \in Cells /\ head = NULL
    BY <1>1, HeldFacts DEF Settled, ListInv, WriteInv
  <2> QED
    BY <2>1, EmptySeq DEF On
<1>3. id[n] \in Ids
  BY <1>1, <1>2, CellFacts DEF KeepInv, UsedInv, ToUsed, Used
<1>4. Chain(q, n, next) /\ On(q) = {n}
  BY <1>2, HeldFacts, ChainFirst
<1>5. apc'[a] = "idle"
  <2>1. a \in DOMAIN apc
    BY DEF KeepInv, TypeOK
  <2> QED
    BY <1>1, <2>1
<1>6. /\ dpc \notin {"loadnext", "storenext", "loadfirst", "storehead"}
      /\ dpc \notin Comparing \cup {"loadhead"} \/ proc # "running"
      /\ dpc \in Heading \cup {"walk"} => dcurr = NULL
      /\ dpc \in {"freecurr", "free"} /\ Freed # NULL => Freed # n /\ Freed \in live
  BY <1>1, <1>2, HeldFacts DEF Settled, ListInv, FindInv, FreeInv
<1> HIDE DEF q
<1>7. ListInv(q)'
  <2>1. On(q) \subseteq live'
    BY <1>1, <1>2, <1>4
  <2>2. \A b \in Adders : apc'[b] = "idle"
    BY <1>1, <1>5
  <2>3. FindInv(q)'
    BY <1>1, <1>6 DEF FindInv, Comparing
  <2>4. FreeInv(q)'
    BY <1>1, <1>4, <1>6, <2>2 DEF FreeInv, Freed
  <2> QED
    BY <1>1, <2>1, <2>2, <2>3, <2>4 DEF ListInv, WriteInv
<1>8. AloneInv(q)'
  <2>1. SUFFICES ASSUME ~overlap
                 PROVE  /\ dpc \notin {"storehead", "storenext"}
                        /\ added' \subseteq {id[c] : c \in On(q)} \cup unlinked
    BY <1>1, <1>5 DEF AloneInv
  <2>2. added \subseteq unlinked
    BY <1>2, <2>1 DEF Settled, AloneInv
  <2> QED
    BY <1>1, <1>4, <1>6, <2>2
<1> QED
  BY <1>1, <1>2, <1>3, <1>4, <1>7, <1>8 DEF Settled, q

LEMMA SettledLinkLast ==
    ASSUME KeepInv, proc = "running", Single, Single', NEW p, Settled(p), NEW a \in Adders,
           LinkLast(a), UNCHANGED overlap
    PROVE  \E q : /\ Settled(q)' /\ id' = id
                  /\ q = p \/ \E c \in Cells : q = Append(p, c) /\ id[c] \in Ids
                  /\ ~overlap => q # p
                  /\ IF acurr[a] \in On(p)
                        THEN q = Append(p, node[a]) /\ On(q) = On(p) \cup {node[a]}
                        ELSE q = p
<1> USE DEF heapVars, addVars, removeVars, scanVars
<1>0. PICK n, e : n = node[a] /\ e = acurr[a]
  OBVIOUS
<1>1. /\ apc[a] = "link" /\ n = node[a] /\ e = acurr[a]
      /\ next' = [next EXCEPT ![e] = n] /\ added' = added \cup {id[n]}
      /\ apc' = [apc EXCEPT ![a] = "idle"] /\ overlap' = overlap
      /\ UNCHANGED <<head, id, live, node, acurr, dpc, target, dcurr, victim, loaded, unlinked,
                     proc>>
      /\ \A b \in Adders : b # a => apc[b] = "idle" /\ apc'[b] = "idle"
  BY <1>0, OthersIdle DEF LinkLast, Add
<1>2. n \in live /\ n \notin On(p) /\ next[n] = NULL /\ n \in Cells
  BY <1>1, HeldFacts DEF Settled, ListInv, WriteInv
<1>3. id[n] \in Ids
  BY <1>1, <1>2, CellFacts DEF KeepInv, UsedInv, ToUsed, Used
<1>4. apc'[a] = "idle"
  <2>1. a \in DOMAIN apc
    BY DEF KeepInv, TypeOK
  <2> QED
    BY <1>1, <2>1
<1>5. e \in Cells
  BY <1>1 DEF KeepInv, UsedInv
<1>6. \A d \in Cells : next'[d] = IF d = e THEN n ELSE next[d]
  BY <1>1 DEF KeepInv, TypeOK
<1>7. CASE e \in On(p)
  <2> DEFINE q == Append(p, n)
  <2>1. next[e] = NULL /\ p # <<>> /\ e = p[Len(p)]
    <3>1. next[e] = NULL
      BY <1>1, <1>7 DEF Settled, ListInv, WriteInv
    <3> QED
      BY <1>7, <3>1, OnFacts DEF Settled
  <2>2. Chain(q, head, next') /\ On(q) = On(p) \cup {n}
    <3>1. Chain(p, head, next) /\ next \in [Cells -> Pointers]
      BY HeldFacts DEF Settled
    <3> DEFINE nx == [next EXCEPT ![p[Len(p)]] = n]
    <3>2. Chain(Append(p, n), head, nx) /\ On(Append(p, n)) = On(p) \cup {n}
      <4>1. n \in Cells /\ n \notin On(p) /\ next[n] = NULL /\ p # <<>>
        BY <1>2, <2>1
      <4> HIDE DEF nx
      <4>2. Chain(Append(p, n), head, [next EXCEPT ![p[Len(p)]] = n])
            /\ On(Append(p, n)) = On(p) \cup {n}
        BY <4>1, <3>1, ChainAppended
      <4> QED
        BY <4>2 DEF nx
    <3>3. next' = nx
      BY <1>1, <2>1
    <3> HIDE DEF nx
    <3> QED
      BY <3>2, <3>3
  <2>3. FindInv(q)'
    <3>1. /\ dpc = "walk" => dcurr \in On(q) \cup {NULL}
          /\ proc = "running" /\ dpc \in Comparing =>
                dcurr \in On(p) /\ dcurr \in Cells /\ dcurr # e
          /\ dpc \in {"loadnext", "storenext"} =>
                dcurr \in On(p) /\ dcurr \in Cells /\ dcurr # e
          /\ dpc \in {"storehead", "storenext"} =>
                loaded \in {NULL, next[victim]} /\ victim \in Cells
      BY <2>1, <2>2, HeldFacts DEF Settled, ListInv, FindInv
    <3>2. dpc \in {"storehead", "storenext"} => loaded \in {NULL, next'[victim]}
      BY <3>1, <2>1, <1>6
    <3>3. \A d \in Cells : d # e => next'[d] = next[d]
      BY <1>6
    <3> HIDE DEF q
    <3> QED
      BY <3>1, <3>2, <3>3, <2>2, <1>1 DEF Settled, ListInv, FindInv, Comparing
  <2> HIDE DEF q
  <2>4. \A b \in Adders : apc'[b] = "idle"
    BY <1>1, <1>4
  <2>5. ListInv(q)'
    <3>1. On(q) \subseteq live'
      BY <1>1, <1>2, <2>2 DEF Settled, ListInv, WriteInv
    <3>2. FreeInv(q)'
      BY <1>1, <2>2, <2>4 DEF Settled, ListInv, FreeInv, Freed
    <3> QED
      BY <1>1, <2>3, <2>4, <3>1, <3>2 DEF ListInv, WriteInv
  <2>6. AloneInv(q)'
    <3>1. SUFFICES ASSUME ~overlap
                   PROVE  /\ dpc \notin {"storehead", "storenext"}
                          /\ added' \subseteq {id[c] : c \in On(q)} \cup unlinked
      BY <1>1, <2>4 DEF AloneInv
    <3>2. dpc = "idle" /\ added \subseteq {id[c] : c \in On(p)} \cup unlinked
      BY <1>1, <3>1 DEF Settled, AloneInv
    <3> QED
      BY <1>1, <2>2, <3>2
  <2>7. Settled(q)'
    BY <1>1, <2>2, <2>5, <2>6 DEF Settled
  <2>8. q # p
    BY <2>2, <1>2
  <2> QED
    BY <1>1, <1>2, <1>3, <1>7, <2>2, <2>7, <2>8 DEF q
<1>8. CASE e \notin On(p)
  <2>1. Chain(p, head, next') /\ overlap
    <3>1. overlap
      BY <1>1, <1>8 DEF Settled, AloneInv
    <3> QED
      BY <1>1, <1>8, <3>1, HeldFacts, ChainApart DEF Settled
  <2>2. \A d \in On(p) : next'[d] = next[d] /\ d \in Cells
    BY <1>6, <1>8, HeldFacts
  <2>3. \A b \in Adders : apc'[b] = "idle"
    BY <1>1, <1>4
  <2>4. ListInv(p)'
    <3>1. FindInv(p)'
      BY <1>1, <2>2, HeldFacts DEF Settled, ListInv, FindInv, Comparing
    <3>2. On(p) \subseteq live
      BY DEF Settled, ListInv, WriteInv
    <3>3. FreeInv(p)'
      BY <1>1, <2>3 DEF Settled, ListInv, FreeInv, Freed
    <3> QED
      BY <1>1, <2>3, <3>1, <3>2, <3>3 DEF ListInv, WriteInv
  <2>5. AloneInv(p)'
    BY <1>1, <2>1 DEF AloneInv
  <2> QED
    BY <1>1, <1>8, <2>1, <2>4, <2>5 DEF Settled
<1> QED
  BY <1>7, <1>8

(* The cell that is unlinked and its place.                                *)
LEMMA UnlinkPlace ==
    ASSUME KeepInv, NEW p, Settled(p), Unlink
    PROVE  \E k \in 1..Len(p) : /\ p[k] = victim
                                 /\ Unlinks(head, next, k, p, loaded, head', next')
<1>1. Chain(p, head, next) /\ Len(p) \in Nat /\ victim # NULL
  BY LenProperties DEF Settled, Chain, Unlink, ListInv, FindInv
<1>2. CASE dpc = "storehead"
  <2>1. head = victim /\ head # NULL /\ Len(p) >= 1 /\ head = p[1]
    BY <1>1, <1>2, OnFacts DEF Settled, ListInv, FindInv
  <2>2. head' = loaded /\ next' = next
    BY <1>2 DEF Unlink
  <2>3. 1 \in 1..Len(p) /\ Unlinks(head, next, 1, p, loaded, head', next')
    BY <1>1, <2>1, <2>2 DEF Unlinks
  <2> QED
    BY <2>1, <2>3
<1>3. CASE dpc = "storenext"
  <2>1. dcurr \in On(p) /\ next[dcurr] = victim
    BY <1>3 DEF Settled, ListInv, FindInv
  <2>2. PICK j \in 1..Len(p) : p[j] = dcurr
    BY <2>1 DEF On
  <2>3. victim = Behind(p, j)
    BY <1>1, <2>1, <2>2 DEF Chain
  <2>4. j < Len(p) /\ victim = p[j + 1] /\ j + 1 \in 1..Len(p) /\ j + 1 > 1
        /\ (j + 1) - 1 = j
    BY <1>1, <2>3 DEF Behind
  <2>5. head' = head /\ next' = [next EXCEPT ![dcurr] = loaded]
    BY <1>3 DEF Unlink
  <2>6. Unlinks(head, next, j + 1, p, loaded, head', next')
    BY <2>2, <2>4, <2>5 DEF Unlinks
  <2> QED
    BY <2>4, <2>6
<1> QED
  BY <1>2, <1>3 DEF Unlink

LEMMA SettledUnlink ==
    ASSUME KeepInv, NEW p, Settled(p), Unlink, UNCHANGED overlap
    PROVE  \E q : /\ Settled(q)' /\ id' = id
                  /\ ~overlap => \E k \in 1..Len(p) : q = Without(p, k)
                  /\ victim \in On(p) /\ On(q) \subseteq On(p) \ {victim}
                  /\ loaded = next[victim] => On(q) = On(p) \ {victim}
<1> USE DEF heapVars, addVars, removeVars, scanVars
<1>1. /\ dpc \in {"storehead", "storenext"}
      /\ dpc' = IF dpc = "storehead" THEN "freecurr" ELSE "free"
      /\ unlinked' = unlinked \cup {target}
      /\ UNCHANGED <<id, live, apc, node, acurr, added, target, dcurr, victim, loaded, overlap,
                     proc>>
  BY DEF Unlink
<1>2. PICK k \in 1..Len(p) : /\ p[k] = victim
                             /\ Unlinks(head, next, k, p, loaded, head', next')
  BY UnlinkPlace
<1>3. /\ Chain(p, head, next) /\ next \in [Cells -> Pointers] /\ victim \in On(p)
      /\ loaded \in {NULL, next[victim]} /\ On(p) \subseteq live
      /\ On(p) \subseteq Cells /\ victim # NULL /\ id[victim] = target
  BY <1>1, HeldFacts DEF Settled, ListInv, FindInv, WriteInv
<1>4. PICK q : /\ Chain(q, head', next') /\ On(q) \subseteq On(p) \ {victim}
               /\ loaded = next[victim] => /\ On(q) = On(p) \ {victim}
                                           /\ q = Without(p, k)
  <2>1. CASE loaded = next[victim]
    <3>1. Unlinks(head, next, k, p, next[p[k]], head', next')
      BY <1>2, <2>1
    <3>2. /\ Chain(Without(p, k), head', next')
          /\ On(Without(p, k)) = On(p) \ {p[k]}
      BY <1>3, <3>1, ChainWithout
    <3> QED
      BY <1>2, <3>2
  <2>2. CASE loaded = NULL /\ loaded # next[victim]
    <3>1. Unlinks(head, next, k, p, NULL, head', next')
      BY <1>2, <2>2
    <3>2. \E q : Chain(q, head', next') /\ On(q) \subseteq On(p) \ {p[k]}
      BY <1>3, <3>1, ChainCutOff
    <3> QED
      BY <1>2, <2>2, <3>2
  <2> QED
    BY <1>3, <2>1, <2>2
<1>5. \A c \in Cells : next'[c] = next[c] \/ (c \in On(p) /\ next[c] = victim)
  <2>1. CASE dpc = "storehead"
    BY <2>1 DEF Unlink
  <2>2. CASE dpc = "storenext"
    <3>1. dcurr \in On(p) /\ next[dcurr] = victim
      BY <2>2 DEF Settled, ListInv, FindInv
    <3>2. next' = [next EXCEPT ![dcurr] = loaded]
      BY <2>2 DEF Unlink
    <3> QED
      BY <1>3, <3>1, <3>2
  <2> QED
    BY <1>1, <2>1, <2>2
<1>6. dpc = "storehead" => dcurr \in {NULL, victim}
  BY DEF Settled, ListInv, FindInv, Heading
<1>7. ListInv(q)'
  <2>1. ASSUME NEW a \in Adders
        PROVE  /\ apc[a] # "idle" => /\ node[a] \in live /\ node[a] \notin On(q)
                                     /\ next'[node[a]] = NULL /\ node[a] # victim
               /\ apc[a] # "first"
               /\ apc[a] = "link" /\ acurr[a] \in On(q) => next'[acurr[a]] = NULL
    <3>1. /\ apc[a] # "idle" => /\ node[a] \in live /\ node[a] \notin On(p)
                                /\ next[node[a]] = NULL /\ node[a] \in Cells
          /\ apc[a] = "first" => p = <<>>
          /\ apc[a] = "link" /\ acurr[a] \in On(p) => next[acurr[a]] = NULL
      BY HeldFacts DEF Settled, ListInv, WriteInv
    <3>2. p # <<>>
      BY <1>2, EmptySeq
    <3>3. apc[a] = "link" /\ acurr[a] \in On(q) =>
             acurr[a] \in On(p) /\ acurr[a] \in Cells
      BY <1>3, <1>4
    <3> QED
      BY <1>3, <1>4, <1>5, <3>1, <3>2, <3>3
  <2>2. On(q) \subseteq live /\ victim \in live /\ victim \notin On(q)
    BY <1>3, <1>4
  <2>3. WriteInv(q)'
    BY <1>1, <2>1, <2>2 DEF WriteInv
  <2>4. FindInv(q)'
    BY <1>1 DEF FindInv, Heading, Comparing
  <2>5. Freed' \in {NULL, victim}
    BY <1>1, <1>6 DEF Freed
  <2>6. FreeInv(q)'
    BY <1>1, <2>1, <2>2, <2>5 DEF FreeInv
  <2> QED
    BY <2>3, <2>4, <2>6 DEF ListInv
<1>8. ~overlap => loaded = next[victim]
  BY <1>1 DEF Settled, AloneInv
<1>9. AloneInv(q)'
  <2>1. SUFFICES ASSUME ~overlap
                 PROVE  /\ \A a \in Adders : apc[a] = "idle"
                        /\ added \subseteq {id[c] : c \in On(q)} \cup unlinked'
    BY <1>1 DEF AloneInv
  <2>2. /\ \A a \in Adders : apc[a] = "idle"
        /\ added \subseteq {id[c] : c \in On(p)} \cup unlinked
    BY <1>1, <2>1 DEF Settled, AloneInv
  <2>3. On(q) = On(p) \ {victim}
    BY <1>4, <1>8, <2>1
  <2> QED
    BY <1>1, <1>3, <2>2, <2>3
<1> QED
  BY <1>1, <1>2, <1>3, <1>4, <1>7, <1>8, <1>9 DEF Settled

(* The steps of the deamon that leave the list as it is.                   *)
LEMMA SettledDeamon ==
    ASSUME KeepInv, proc = "running", NEW p, Settled(p), UNCHANGED overlap, Deamon, ~Unlink
    PROVE  Settled(p)' /\ id' = id
<1> USE DEF heapVars, addVars, removeVars, scanVars
<1>1. /\ UNCHANGED <<head, next, id, apc, node, acurr, added, unlinked, overlap>>
      /\ live' = live \/ Free
  BY DEF Deamon, RemoveCall, RemoveBegin, RemoveHead, RemoveWalk, RemoveCompare,
         RemoveMovesOn, LoadVictim, LoadSuccessor, Free, ScanStart, ScanNode, ScanAdvance
<1>2. On(p) \subseteq live'
  BY <1>1, HeldFacts DEF Free, Settled, ListInv, WriteInv, FreeInv
<1>3. ASSUME NEW a \in Adders, apc[a] # "idle" PROVE node[a] \in live'
  BY <1>1, <1>3, HeldFacts, CellFacts DEF Free, Settled, ListInv, WriteInv, FreeInv
<1>4. /\ head # NULL => head \in On(p)
      /\ \A c \in On(p) : /\ NextAt(c) = {next[c]} /\ IdAt(c) = {id[c]}
                          /\ Fate(c) = "running" /\ c # NULL
                          /\ next[c] # NULL => next[c] \in On(p)
      /\ Fate(NULL) = "segv"
  BY HeldFacts, CellFacts DEF Fate
<1>5. FindInv(p)' /\ (dpc' \in {"storehead", "storenext"} => loaded' = next[victim'])
  <2> USE DEF Settled, ListInv, FindInv, Heading, Comparing
  <2>1. CASE RemoveBegin
    BY <1>1, <2>1 DEF RemoveBegin
  <2>2. CASE RemoveHead
    <3>1. PICK i \in IdAt(head) : dpc' = IF i = target THEN "loadhead" ELSE "walk"
      BY <2>2 DEF RemoveHead
    <3>2. /\ dpc = "comparehead" /\ dcurr' = dcurr /\ target' = target
          /\ proc' = Fate(head)
      BY <2>2 DEF RemoveHead
    <3>3. dpc' = "loadhead" /\ head # NULL => id[head] = target
      BY <1>4, <3>1
    <3> QED
      BY <1>1, <1>4, <3>1, <3>2, <3>3
  <2>3. CASE RemoveWalk
    <3>1. PICK n \in NextAt(dcurr) :
              dpc' = CASE n # NULL -> "compare"
                       [] n = NULL /\ scanning -> "advance"
                       [] n = NULL /\ ~scanning -> "idle"
      BY <2>3 DEF RemoveWalk
    <3>2. /\ dpc = "walk" /\ dcurr' = dcurr /\ proc' = Fate(dcurr)
          /\ (n # NULL /\ dpc' = "compare") \/ dpc' \in {"idle", "advance"}
      BY <2>3, <3>1 DEF RemoveWalk
    <3> QED
      BY <1>1, <1>4, <3>1, <3>2
  <2>4. CASE RemoveCompare
    <3>1. PICK n \in NextAt(dcurr), i \in 0..MaxAdds :
              /\ i \in IdAt(n) /\ proc' = Fate(n)
              /\ dpc' = IF i = target THEN "loadvictim" ELSE "moveon"
      BY <2>4 DEF RemoveCompare
    <3>2. dpc = "compare" /\ dcurr' = dcurr /\ target' = target
      BY <2>4 DEF RemoveCompare
    <3>3. dcurr \in On(p) /\ n = next[dcurr] /\ n \in On(p) /\ i = id[n]
      BY <1>4, <3>1, <3>2
    <3> QED
      BY <1>1, <1>4, <3>1, <3>2, <3>3
  <2>5. CASE RemoveMovesOn
    BY <1>1, <1>4, <2>5 DEF RemoveMovesOn
  <2>6. CASE LoadVictim
    BY <1>1, <1>4, <2>6 DEF LoadVictim
  <2>7. CASE LoadSuccessor
    <3>1. victim \in On(p) /\ loaded' = next[victim] /\ UNCHANGED <<target, dcurr, victim>>
      BY <1>4, <2>7, HeldFacts DEF LoadSuccessor
    <3> QED
      BY <1>1, <2>7, <3>1 DEF LoadSuccessor
  <2>8. CASE RemoveCall \/ Free \/ ScanStart \/ ScanNode \/ ScanAdvance
    BY <2>8 DEF RemoveCall, Free, ScanStart, ScanNode, ScanAdvance
  <2> QED
    BY <2>1, <2>2, <2>3, <2>4, <2>5, <2>6, <2>7, <2>8 DEF Deamon
<1>6. dpc' \notin {"freecurr", "free"}
  BY DEF Deamon, RemoveCall, RemoveBegin, RemoveHead, RemoveWalk, RemoveCompare,
         RemoveMovesOn, LoadVictim, LoadSuccessor, Free, ScanStart, ScanNode, ScanAdvance
<1>7. ListInv(p)'
  <2>1. WriteInv(p)'
    BY <1>1, <1>2, <1>3 DEF Settled, ListInv, WriteInv
  <2> QED
    BY <1>5, <1>6, <2>1 DEF ListInv, FreeInv
<1>8. ~overlap => \A a \in Adders : apc[a] # "idle" => dpc' = "idle"
  <2>1. ASSUME ~overlap, NEW a \in Adders, apc[a] # "idle" PROVE dpc' = "idle"
    <3>1. dpc = "idle"
      BY <2>1 DEF Settled, AloneInv
    <3> QED
      BY <2>1, <3>1 DEF Deamon, RemoveCall, RemoveBegin, RemoveHead, RemoveWalk,
         RemoveCompare, RemoveMovesOn, LoadVictim, LoadSuccessor, Free, ScanStart, ScanNode,
         ScanAdvance, MayStart, Quiet
  <2> QED
    BY <2>1
<1>9. AloneInv(p)'
  BY <1>1, <1>5, <1>8 DEF Settled, AloneInv
<1> QED
  BY <1>1, <1>7, <1>9 DEF Settled

LEMMA SettledStep ==
    ASSUME KeepInv, Single, Single', NEW p, Settled(p), [Next]_vars
    PROVE  \E q : /\ Settled(q)'
                  /\ \A c \in On(p) : id'[c] = id[c]
                  /\ ~overlap => Moves(p, q)
                  /\ q # p => id' = id
<1>1. CASE UNCHANGED vars
  <2>1. Settled(p)' /\ id' = id
    BY <1>1 DEF vars, Settled, ListInv, WriteInv, FindInv, FreeInv, Freed, AloneInv
  <2> QED
    BY <2>1 DEF Moves
<1>2. CASE Next
  <2>1. proc = "running" /\ overlap' = overlap /\ ((\E a \in Adders : Add(a)) \/ Deamon)
    BY <1>2 DEF Next, Running
  <2>2. ASSUME NEW a \in Adders, Add(a)
        PROVE  \E q : /\ Settled(q)' /\ (\A c \in On(p) : id'[c] = id[c])
                      /\ Moves(p, q) /\ (q # p => id' = id)
    <3>1. CASE Allocate(a)
      BY <2>1, <3>1, SettledAllocate DEF Moves
    <3>2. CASE TestEmpty(a) \/ LoadHead(a) \/ TestNext(a) \/ Step(a)
      BY <2>1, <3>2, SettledLook DEF Moves
    <3>3. CASE LinkFirst(a)
      <4>1. id' = id /\ \E c \in Cells : id[c] \in Ids /\ Settled(Append(p, c))'
        BY <2>1, <3>3, SettledLinkFirst
      <4> QED
        BY <4>1 DEF Moves
    <3>4. CASE LinkLast(a)
      BY <2>1, <3>4, SettledLinkLast DEF Moves
    <3> QED
      BY <2>2, <3>1, <3>2, <3>3, <3>4 DEF Add
  <2>3. CASE Unlink
    BY <2>1, <2>3, SettledUnlink DEF Moves
  <2>4. CASE Deamon /\ ~Unlink
    <3>1. Settled(p)' /\ id' = id
      BY <2>1, <2>4, SettledDeamon
    <3> QED
      BY <3>1 DEF Moves
  <2> QED
    BY <2>1, <2>2, <2>3, <2>4
<1> QED
  BY <1>1, <1>2

-----------------------------------------------------------------------------
(* Theorems *)

(* Either calls do not overlap or one application thread adds.             *)
Orderly == ~overlap \/ Sole

SettledInv == RankedInv /\ (Orderly => Single /\ \E p : Settled(p))

LEMMA SingleStep ==
    ASSUME RankedInv, Single, Orderly', [Next]_vars
    PROVE  Single'
<1>0. KeepInv /\ KeepInv'
  BY RankedInvStep DEF RankedInv
<1>1. CASE Sole'
  <2>1. KeepInv'
    BY <1>0
  <2>2. \A a \in Adders : apc'[a] # "idle" => node'[a] # NULL
    BY <2>1 DEF KeepInv, UsedInv
  <2> QED
    BY <1>1, <2>2 DEF Sole, Single
<1>2. CASE ~overlap
  <2>1. ASSUME NEW a \in Adders, Allocate(a)
        PROVE  \A b \in Adders : b # a => apc'[b] = "idle"
    <3>1. /\ apc \in [Adders -> {"idle", "test", "first", "head", "walk", "step", "link"}]
          /\ apc' = [apc EXCEPT ![a] = "test"]
          /\ \A b \in Adders : apc[b] = "idle"
      BY <1>0, <1>2, <2>1 DEF Allocate, MayStart, Quiet, KeepInv, TypeOK
    <3> QED
      BY <3>1
  <2>2. (\A b \in Adders : apc[b] = "idle" => apc'[b] = "idle")
        \/ \E a \in Adders : Allocate(a)
    <3>1. ASSUME NEW a \in Adders, Add(a), ~Allocate(a)
          PROVE  \A b \in Adders : apc[b] = "idle" => apc'[b] = "idle"
      <4>1. apc[a] # "idle"
        BY <3>1 DEF Add, TestEmpty, LinkFirst, LoadHead, TestNext, Step, LinkLast
      <4>2. (\E x : apc' = [apc EXCEPT ![a] = x]) \/ apc' = apc
        BY <3>1 DEF Add, TestEmpty, LinkFirst, LoadHead, TestNext, Step, LinkLast
      <4>3. apc \in [Adders -> {"idle", "test", "first", "head", "walk", "step", "link"}]
        BY <1>0 DEF KeepInv, TypeOK
      <4> QED
        BY <4>1, <4>2, <4>3
    <3>2. Deamon => apc' = apc
      BY DEF Deamon, RemoveCall, RemoveBegin, RemoveHead, RemoveWalk, RemoveCompare,
             RemoveMovesOn, LoadVictim, LoadSuccessor, Unlink, Free, ScanStart, ScanNode,
             ScanAdvance, addVars
    <3> QED
      BY <3>1, <3>2 DEF vars, Next, Running
  <2> QED
    BY <2>1, <2>2 DEF Single
<1> QED
  <2>1. overlap' = overlap
    BY DEF Next, Running, vars
  <2> QED
    BY <1>1, <1>2, <2>1 DEF Orderly

LEMMA SoleBefore ==
    ASSUME KeepInv, Sole', [Next]_vars
    PROVE  Sole
<1>1. ASSUME NEW b \in Adders, node[b] # NULL PROVE node'[b] # NULL
  <2>1. CASE node' = node
    BY <1>1, <2>1
  <2>2. CASE \E a \in Adders : Allocate(a)
    <3>1. PICK a \in Adders, c \in Cells : node' = [node EXCEPT ![a] = c]
      BY <2>2 DEF Allocate
    <3> QED
      BY <1>1, <3>1, HeapTypes, CellFacts
  <2>3. node' = node \/ \E a \in Adders : Allocate(a)
    BY DEF vars, Next, Running, Deamon, RemoveCall, RemoveBegin, RemoveHead, RemoveWalk,
           RemoveCompare, RemoveMovesOn, LoadVictim, LoadSuccessor, Unlink, Free, ScanStart,
           ScanNode, ScanAdvance, Add, TestEmpty, LinkFirst, LoadHead, TestNext, Step,
           LinkLast, addVars
  <2> QED
    BY <2>1, <2>2, <2>3
<1> QED
  BY <1>1 DEF Sole

LEMMA OrderlyBefore ==
    ASSUME KeepInv, Orderly', [Next]_vars
    PROVE  Orderly
<1>1. overlap' = overlap
  BY DEF Next, Running, vars
<1> QED
  BY <1>1, SoleBefore DEF Orderly

LEMMA SettledInit == Init => RankedInv /\ Settled(<<>>)
<1> SUFFICES ASSUME Init PROVE RankedInv /\ Settled(<<>>)
  OBVIOUS
<1>1. On(<<>>) = {} /\ Len(<<>>) = 0
  BY DEF On
<1>2. Chain(<<>>, head, next)
  BY <1>1, EmptySeq DEF Init, Chain, Behind
<1>3. ListInv(<<>>)
  BY <1>1 DEF Init, ListInv, WriteInv, FindInv, FreeInv, Heading, Comparing
<1>4. AloneInv(<<>>)
  BY <1>1 DEF Init, AloneInv
<1> QED
  BY <1>2, <1>3, <1>4, UsedInit, RankedInit DEF RankedInv, KeepInv, Settled

LEMMA SettledNext ==
    ASSUME SettledInv, [Next]_vars
    PROVE  SettledInv'
<1>1. RankedInv' /\ KeepInv
  BY RankedInvStep DEF SettledInv, RankedInv
<1>2. ASSUME Orderly' PROVE Single' /\ \E q : Settled(q)'
  <2>1. RankedInv /\ Single /\ \E p : Settled(p)
    BY <1>1, <1>2, OrderlyBefore DEF SettledInv
  <2>2. Single'
    BY <1>2, <2>1, SingleStep
  <2>3. PICK p : Settled(p)
    BY <2>1
  <2>4. \E q : Settled(q)'
    BY <1>1, <2>1, <2>2, <2>3, SettledStep
  <2> QED
    BY <2>2, <2>4
<1> QED
  BY <1>1, <1>2 DEF SettledInv

LEMMA SettledAlways == Spec => []SettledInv
<1>1. Init => SettledInv
  BY SettledInit DEF SettledInv, Single, Init
<1> QED
  BY <1>1, SettledNext, PTL DEF Spec

LEMMA SettledPath ==
    ASSUME KeepInv, NEW p, Settled(p)
    PROVE  Path = p /\ Reachable = On(p) /\ p \in Seq(Cells)
<1>1. Path = p
  BY PathMeaning, ChainIsPath, HeldFacts DEF Settled
<1>2. p \in Seq(Cells) /\ DOMAIN p = 1..Len(p)
  BY LenProperties DEF Settled, Chain
<1> QED
  BY <1>1, <1>2 DEF Reachable, On

(* Where calls do not overlap, a message stays on the list until the       *)
(* deamon takes it off, whichever threads add (message_keep.c:32-42).      *)
THEOREM NothingIsLostAlone == Spec => []AddedIsKeptAlone
<1>1. SettledInv => AddedIsKeptAlone
  <2> SUFFICES ASSUME SettledInv, ~overlap PROVE AddedIsKept
    BY DEF AddedIsKeptAlone
  <2>1. PICK p : Settled(p)
    BY DEF SettledInv, Orderly
  <2>2. Reachable = On(p)
    BY <2>1, SettledPath DEF SettledInv, RankedInv
  <2> QED
    BY <2>1, <2>2 DEF AddedIsKept, Settled, AloneInv
<1> QED
  BY <1>1, SettledAlways, PTL

-----------------------------------------------------------------------------
(* The list of a caller that is alone is that of SendList                  *)

Identifiers(p, f) == [i \in DOMAIN p |-> f[p[i]]]

LEMMA IdentifiersFacts ==
    ASSUME NEW p \in Seq(Cells), NEW S, NEW f \in [Cells -> S]
    PROVE  /\ Identifiers(p, f) \in Seq(S)
           /\ Len(Identifiers(p, f)) = Len(p)
           /\ \A i \in 1..Len(p) : Identifiers(p, f)[i] = f[p[i]]
<1>1. DOMAIN p = 1..Len(p) /\ Len(p) \in Nat /\ \A i \in 1..Len(p) : p[i] \in Cells
  BY ElementOfSeq, LenProperties
<1>2. Identifiers(p, f) = [i \in 1..Len(p) |-> f[p[i]]]
  BY <1>1 DEF Identifiers
<1>3. \A i \in 1..Len(p) : f[p[i]] \in S
  BY <1>1
<1>4. Identifiers(p, f) \in Seq(S)
  BY <1>1, <1>2, <1>3
<1>5. DOMAIN Identifiers(p, f) = 1..Len(p)
  BY <1>2
<1>6. Len(Identifiers(p, f)) = Len(p)
  BY <1>1, <1>4, <1>5, LenProperties
<1> QED
  BY <1>2, <1>4, <1>6

LEMMA IdentifiersAppended ==
    ASSUME NEW p \in Seq(Cells), NEW S, NEW f \in [Cells -> S], NEW c \in Cells
    PROVE  Identifiers(Append(p, c), f) = Append(Identifiers(p, f), f[c])
<1> DEFINE q == Append(p, c)
           s == Identifiers(p, f)
           t == Identifiers(q, f)
           u == Append(s, f[c])
           L == Len(p)
<1>1. /\ q \in Seq(Cells) /\ Len(q) = L + 1 /\ q[L + 1] = c /\ L \in Nat
      /\ \A i \in 1..L : q[i] = p[i]
  BY AppendProperties, LenProperties
<1>2. s \in Seq(S) /\ Len(s) = L /\ \A i \in 1..L : s[i] = f[p[i]]
  BY IdentifiersFacts
<1>3. t \in Seq(S) /\ Len(t) = L + 1 /\ \A i \in 1..(L + 1) : t[i] = f[q[i]]
  <2> HIDE DEF q
  <2>1. t \in Seq(S) /\ Len(t) = Len(q) /\ \A i \in 1..Len(q) : t[i] = f[q[i]]
    BY <1>1, IdentifiersFacts
  <2> HIDE DEF t, L
  <2> QED
    BY <1>1, <2>1
<1>4. /\ u \in Seq(S) /\ Len(u) = L + 1 /\ u[L + 1] = f[c]
      /\ \A i \in 1..L : u[i] = s[i]
  <2>1. f[c] \in S
    OBVIOUS
  <2> HIDE DEF s, L
  <2> QED
    BY <1>2, <2>1, AppendProperties
<1> HIDE DEF q, s, t, u, L
<1>5. \A i \in 1..(L + 1) : t[i] = u[i]
  <2>1. \A i \in 1..(L + 1) : i \in 1..L \/ i = L + 1
    BY <1>1
  <2> QED
    BY <2>1, <1>1, <1>2, <1>3, <1>4
<1>6. t = u
  BY <1>3, <1>4, <1>5, SeqEqual
<1> QED
  BY <1>6 DEF t, u, s, q

LEMMA IdentifiersWithout ==
    ASSUME NEW p \in Seq(Cells), NEW S, NEW f \in [Cells -> S], NEW k \in 1..Len(p)
    PROVE  Identifiers(Without(p, k), f) = Without(Identifiers(p, f), k)
<1> DEFINE q == Without(p, k)
           s == Identifiers(p, f)
           t == Identifiers(q, f)
           u == Without(s, k)
           L == Len(p)
<1>1. /\ q \in Seq(Cells) /\ Len(q) = L - 1 /\ L \in Nat
      /\ \A i \in 1..(L - 1) : q[i] = IF i < k THEN p[i] ELSE p[i + 1]
  BY WithoutFacts, LenProperties
<1>2. s \in Seq(S) /\ Len(s) = L /\ \A i \in 1..L : s[i] = f[p[i]]
  BY IdentifiersFacts
<1>3. t \in Seq(S) /\ Len(t) = L - 1 /\ \A i \in 1..(L - 1) : t[i] = f[q[i]]
  <2> HIDE DEF q
  <2>1. t \in Seq(S) /\ Len(t) = Len(q) /\ \A i \in 1..Len(q) : t[i] = f[q[i]]
    BY <1>1, IdentifiersFacts
  <2> HIDE DEF t, L
  <2> QED
    BY <1>1, <2>1
<1>4. /\ u \in Seq(S) /\ Len(u) = L - 1
      /\ \A i \in 1..(L - 1) : u[i] = IF i < k THEN s[i] ELSE s[i + 1]
  <2>1. k \in 1..Len(s)
    BY <1>2
  <2> HIDE DEF s
  <2> QED
    BY <1>2, <2>1, WithoutFacts
<1> HIDE DEF q, s, t, u
<1>5. \A i \in 1..(L - 1) : t[i] = u[i]
  <2> TAKE i \in 1..(L - 1)
  <2>1. i \in 1..L /\ i + 1 \in 1..L
    BY <1>1
  <2> HIDE DEF L
  <2>2. t[i] = f[q[i]] /\ s[i] = f[p[i]] /\ s[i + 1] = f[p[i + 1]]
    BY <2>1, <1>2, <1>3
  <2>3. /\ q[i] = IF i < k THEN p[i] ELSE p[i + 1]
        /\ u[i] = IF i < k THEN s[i] ELSE s[i + 1]
    BY <1>1, <1>4
  <2>4. CASE i < k
    BY <2>2, <2>3, <2>4
  <2>5. CASE ~(i < k)
    BY <2>2, <2>3, <2>5
  <2> QED
    BY <2>4, <2>5
<1>6. t = u
  <2> HIDE DEF L
  <2> QED
    BY <1>3, <1>4, <1>5, SeqEqual
<1> QED
  BY <1>6 DEF t, u, s, q

LEMMA KeptFacts ==
    ASSUME KeepInv, NEW p, Settled(p), ~overlap
    PROVE  Kept = Identifiers(p, id)
  BY SettledPath DEF Kept, Identifiers

LEMMA ListStep ==
    ASSUME SettledInv, [Next]_vars
    PROVE  [List!Next]_Kept
<1>1. overlap' = overlap
  BY DEF Next, Running, vars
<1>2. CASE overlap
  BY <1>1, <1>2 DEF Kept
<1>3. CASE ~overlap
  <2>1. PICK p : Settled(p)
    BY <1>3 DEF SettledInv, Orderly
  <2>2. Single /\ Single'
    BY <1>1, <1>3, SingleStep DEF SettledInv, Orderly
  <2>3. PICK q : /\ Settled(q)' /\ (\A c \in On(p) : id'[c] = id[c])
                 /\ Moves(p, q) /\ (q # p => id' = id)
    BY <1>3, <2>1, <2>2, SettledStep DEF SettledInv, RankedInv
  <2>4. KeepInv /\ KeepInv'
    BY RankedInvStep DEF SettledInv, RankedInv
  <2>5. Kept = Identifiers(p, id)
    BY <1>3, <2>1, <2>4, KeptFacts
  <2>6. Kept' = Identifiers(q, id')
    <3>1. /\ Chain(q, head', next') /\ next' \in [Cells -> Pointers]
          /\ Path' = PathFrom(head', next')
      BY <2>3, <2>4, PathMeaning DEF Settled, KeepInv, TypeOK, UsedInv
    <3>2. Path' = q
      BY <3>1, ChainIsPath
    <3> QED
      BY <1>1, <1>3, <3>2 DEF Kept, Identifiers
  <2>7. /\ p \in Seq(Cells) /\ id \in [Cells -> 0..MaxAdds] /\ On(p) \subseteq Cells
        /\ DOMAIN p = 1..Len(p)
    BY <2>1, <2>4, HeldFacts, LenProperties DEF Settled, Chain, KeepInv, TypeOK
  <2>8. CASE q = p
    <3>1. \A i \in DOMAIN p : id'[p[i]] = id[p[i]]
      BY <2>3, <2>7 DEF On
    <3>2. Identifiers(q, id') = Identifiers(p, id)
      BY <2>8, <3>1 DEF Identifiers
    <3> QED
      BY <2>5, <2>6, <3>2
  <2>9. CASE q # p /\ \E c \in Cells : q = Append(p, c) /\ id[c] \in Ids
    <3>1. PICK c \in Cells : q = Append(p, c) /\ id[c] \in Ids
      BY <2>9
    <3>2. Kept' = Append(Kept, id[c])
      BY <2>3, <2>5, <2>6, <2>7, <2>9, <3>1, IdentifiersAppended
    <3> QED
      BY <3>1, <3>2 DEF List!Next, List!Keep
  <2>10. CASE q # p /\ \E k \in 1..Len(p) : q = Without(p, k)
    <3>1. PICK k \in 1..Len(p) : q = Without(p, k)
      BY <2>10
    <3>2. Kept' = Without(Kept, k)
      BY <2>3, <2>5, <2>6, <2>7, <2>10, <3>1, IdentifiersWithout
    <3>3. k \in DOMAIN Kept
      BY <2>5, <2>7 DEF Identifiers
    <3>4. List!Take(k)
      BY <3>2 DEF List!Take, List!RemoveAt, Without
    <3> QED
      BY <3>3, <3>4 DEF List!Next
  <2> QED
    BY <2>3, <2>8, <2>9, <2>10 DEF Moves
<1> QED
  BY <1>2, <1>3

(* For a caller whose calls do not overlap the pointers implement the list *)
(* that SendList describes, for any number of threads, messages and cells: *)
(* a message goes to the end, one is taken out, the others keep their      *)
(* order.                                                                  *)
THEOREM ListRefined == Spec => RefinesSendList
<1>1. Init => List!Init
  <2> SUFFICES ASSUME Init PROVE Kept = <<>>
    BY DEF List!Init
  <2>1. KeepInv /\ Settled(<<>>)
    BY SettledInit DEF RankedInv
  <2>2. ~overlap => Kept = <<>>
    BY <2>1, KeptFacts DEF Identifiers
  <2> QED
    BY <2>2 DEF Kept
<1> QED
  BY <1>1, SettledAlways, ListStep, PTL DEF Spec, RefinesSendList, List!Spec


-----------------------------------------------------------------------------
(* What the scan tells the application                                     *)

(* The deamon looks for the message of which it has just told.             *)
Seeking == scanning /\ dpc \in Searching \ {"freecurr", "free"}

(* A cell the scan may come to: held, not told of, and on the list or cut  *)
(* off from it behind cells that were told of.                             *)
Fresh(p, held, d) ==
    /\ d \in held /\ id[d] \notin reported
    /\ \A a \in Adders : apc[a] # "idle" => node[a] # d
    /\ d \in On(p) \/ \A c \in held : next[c] = d => id[c] \in reported

NumberInv ==
    /\ \A c \in live : id[c] <= issued
    /\ \A c, d \in live : id[c] = id[d] => c = d
    /\ \A i \in reported : i <= issued

(* Of the cells on the list only the one that is being removed was told    *)
(* of, and no cell not told of leads to one that was.                      *)
MarkInv(p, held) ==
    /\ \A c \in On(p) : id[c] \in reported => Seeking /\ c = scan
    /\ \A a \in Adders : apc[a] # "idle" => id[node[a]] \notin reported
    /\ \A c \in held :
          next[c] # NULL /\ id[c] \notin reported /\ id[next[c]] \in reported =>
              Seeking /\ next[c] = scan /\ scan \in On(p)

(* While the cell is on the list the search cannot miss it.                *)
SeekInv(p, held) ==
    /\ Seeking => scan \in held /\ target = id[scan] /\ target \in reported
    /\ Seeking /\ dpc \in Heading /\ dcurr = NULL => scan \notin On(p)
    /\ Seeking /\ dpc \in Comparing \cup {"walk"} /\ scan \in On(p) =>
          \E i, j \in 1..Len(p) : i < j /\ p[i] = dcurr /\ p[j] = scan
    /\ Seeking /\ dpc = "moveon" => next[dcurr] # scan
    /\ scanning /\ dpc \in {"freecurr", "free"} => Freed = scan /\ scan \notin held

(* What the scan comes to next, where it is a cell.                        *)
AheadInv(p, held) ==
    /\ dpc = "scan" /\ scan \in Cells => Fresh(p, held, scan)
    /\ dpc = "advance" \/ (scanning /\ dpc \in Searching) =>
          scan \in Cells /\ (next[scan] # NULL => Fresh(p, held, next[scan]))

(* When the freed cell the scan stands on was handed out again, its new    *)
(* message goes to the list.                                               *)
ReusedInv(p, held) ==
    dpc = "advance" /\ scan \in held /\ id[scan] \notin reported =>
        \/ scan \in On(p)
        \/ \E a \in Adders :
              /\ apc[a] # "idle" /\ node[a] = scan
              /\ apc[a] = "head" => p # <<>>
              /\ apc[a] \in {"walk", "step", "link"} => acurr[a] \in On(p)
              /\ apc[a] = "step" => next[acurr[a]] # NULL

Told(p, held) ==
    /\ On(p) \subseteq held
    /\ NumberInv /\ MarkInv(p, held) /\ SeekInv(p, held)
    /\ AheadInv(p, held) /\ ReusedInv(p, held)

LEMMA ToldFacts ==
    ASSUME KeepInv, NEW age, NEW rank, NEW held, Ranked(age, rank, held),
           NEW p, Settled(p), Told(p, held)
    PROVE  /\ On(p) \subseteq held /\ held \subseteq live /\ live \subseteq Cells
           /\ held \subseteq Cells
           /\ \A c \in held : next[c] # NULL => next[c] \in held /\ next[c] # c
           /\ \A c, d \in held : next[c] # NULL /\ next[c] = next[d] => c = d
           /\ \A a \in Adders : apc[a] # "idle" =>
                 /\ node[a] \in held /\ node[a] \notin On(p)
                 /\ \A c \in held : next[c] # node[a]
<1>1. held \subseteq live /\ live \subseteq Cells /\ rank \in [Cells -> Nat]
  BY HeapTypes DEF Ranked, HeapInv
<1>2. On(p) \subseteq held
  BY DEF Told
<1>3. \A c \in held : next[c] # NULL => next[c] \in held /\ rank[next[c]] < rank[c]
  BY DEF Ranked, HeapInv
<1>4. \A c \in held : next[c] # NULL => next[c] # c
  <2>1. \A c \in held : rank[c] \in Nat
    BY <1>1
  <2> QED
    BY <1>3, <2>1
<1>5. \A a \in Adders : apc[a] # "idle" =>
         /\ node[a] \in held /\ node[a] \notin On(p)
         /\ \A c \in held : next[c] # node[a]
  BY DEF Ranked, AddInv, Unled, Settled, ListInv, WriteInv
<1> QED
  BY <1>1, <1>2, <1>3, <1>4, <1>5 DEF Ranked, HeapInv

LEMMA ToldAllocate ==
    ASSUME KeepInv, proc = "running", Single, Single', NEW age, NEW rank, NEW held,
           Ranked(age, rank, held), NEW p, Settled(p), Told(p, held), NEW a \in Adders,
           Allocate(a), NEW h, h = held \cup {node'[a]}
    PROVE  Told(p, h)'
<1> USE DEF heapVars, addVars, removeVars, scanVars
<1>1. PICK c \in Cells \ live :
          /\ live' = live \cup {c} /\ next' = [next EXCEPT ![c] = NULL]
          /\ id' = [id EXCEPT ![c] = issued'] /\ node' = [node EXCEPT ![a] = c]
  BY DEF Allocate
<1>2. /\ apc' = [apc EXCEPT ![a] = "test"] /\ apc[a] = "idle" /\ issued' = issued + 1
      /\ UNCHANGED <<head, acurr, dpc, dcurr, victim, loaded, target, scan, scanning,
                     reported>>
  BY DEF Allocate
<1>3. PICK k : k = issued
  OBVIOUS
<1>4. /\ \A d \in Cells : next'[d] = (IF d = c THEN NULL ELSE next[d])
                          /\ id'[d] = IF d = c THEN k + 1 ELSE id[d]
      /\ apc'[a] = "test" /\ node'[a] = c /\ k \in Nat /\ k = issued
      /\ \A d \in Cells : id[d] \in Nat
  BY <1>1, <1>2, <1>3, HeapTypes
<1>5. \A b \in Adders : (apc'[b] # "idle" => b = a) /\ apc[b] = "idle"
  BY <1>2, OthersIdle DEF Add
<1>6. h = held \cup {c} /\ c \notin held /\ c # NULL /\ c \notin On(p) /\ c \in Cells
  BY <1>1, <1>4, ToldFacts, CellFacts
<1>7. /\ \A d \in live : id'[d] = id[d] /\ next'[d] = next[d]
      /\ On(p) \subseteq held /\ held \subseteq live /\ live \subseteq Cells
      /\ \A d \in held : next[d] # NULL => next[d] \in held
      /\ reported' = reported /\ scan' = scan /\ scanning' = scanning /\ dpc' = dpc
      /\ next'[c] = NULL /\ id'[c] = k + 1
  BY <1>1, <1>2, <1>4, ToldFacts
<1>8. k + 1 \notin reported
  BY <1>4 DEF Told, NumberInv
<1>9. NumberInv'
  <2>1. \A d \in live : id[d] <= k /\ id[d] \in Nat
    BY <1>4, <1>7 DEF Told, NumberInv
  <2>2. \A i \in reported : i <= k
    BY <1>4 DEF Told, NumberInv
  <2>3. reported \subseteq Nat
    BY KeepAssumption DEF KeepInv, TypeOK
  <2>4. \A d, e \in live : id[d] = id[e] => d = e
    BY DEF Told, NumberInv
  <2> QED
    BY <1>1, <1>2, <1>4, <1>7, <2>1, <2>2, <2>3, <2>4 DEF NumberInv
<1>10. Seeking' = Seeking
  BY <1>7 DEF Seeking
<1>11. MarkInv(p, h)'
  <2>1. \A d \in On(p) : id'[d] \in reported => Seeking /\ d = scan
    BY <1>7 DEF Told, MarkInv
  <2>2. ASSUME NEW d \in h, next'[d] # NULL, id'[d] \notin reported,
               id'[next'[d]] \in reported
        PROVE  Seeking /\ next'[d] = scan /\ scan \in On(p)
    <3>1. d \in held /\ next'[d] = next[d] /\ id'[d] = id[d] /\ id'[next[d]] = id[next[d]]
      BY <2>2, <1>6, <1>7
    <3> QED
      BY <2>2, <3>1 DEF Told, MarkInv
  <2>3. \A b \in Adders : apc'[b] # "idle" => id'[node'[b]] \notin reported
    BY <1>4, <1>5, <1>7, <1>8
  <2> QED
    BY <1>7, <1>10, <2>1, <2>2, <2>3 DEF MarkInv
<1>12. SeekInv(p, h)'
  <2>1. Seeking => scan \in h /\ target = id'[scan] /\ target \in reported
    BY <1>6, <1>7 DEF Told, SeekInv
  <2>2. Seeking /\ dpc = "moveon" => next'[dcurr] # scan
    BY <1>7 DEF Told, SeekInv, Settled, ListInv, FindInv, Comparing
  <2>3. scanning /\ dpc \in {"freecurr", "free"} => Freed = scan /\ scan \notin h
    BY <1>1, <1>6, <1>7 DEF Told, SeekInv, Settled, ListInv, FreeInv
  <2>4. Freed' = Freed
    BY <1>2 DEF Freed
  <2> QED
    BY <1>2, <1>10, <2>1, <2>2, <2>3, <2>4 DEF Told, SeekInv
<1>13. \A d : Fresh(p, held, d) => Fresh(p, h, d)'
  BY <1>4, <1>5, <1>6, <1>7, CellFacts DEF Fresh
<1>14. AheadInv(p, h)'
  <2>1. PICK s, t : s = scan /\ t = next[scan]
    OBVIOUS
  <2>2. dpc = "scan" /\ s \in Cells => Fresh(p, h, s)'
    BY <2>1, <1>13 DEF Told, AheadInv
  <2>3. (dpc = "advance" \/ (scanning /\ dpc \in Searching)) /\ t # NULL => Fresh(p, h, t)'
    BY <2>1, <1>13 DEF Told, AheadInv
  <2>4. dpc = "advance" \/ (scanning /\ dpc \in Searching) =>
           s \in Cells /\ next'[s] \in {NULL, t}
    BY <2>1, <1>4 DEF Told, AheadInv
  <2> QED
    BY <1>7, <2>1, <2>2, <2>3, <2>4 DEF AheadInv, Fresh
<1>15. ReusedInv(p, h)'
  <2>1. SUFFICES ASSUME dpc = "advance", scan \in h, id'[scan] \notin reported,
                        scan # c
                 PROVE  scan \in On(p)
    BY <1>4, <1>7 DEF ReusedInv
  <2>2. scan \in held /\ id'[scan] = id[scan]
    BY <2>1, <1>6, <1>7
  <2> QED
    BY <2>1, <2>2, <1>5 DEF Told, ReusedInv
<1> QED
  BY <1>6, <1>7, <1>9, <1>11, <1>12, <1>14, <1>15 DEF Told

LEMMA ToldLook ==
    ASSUME KeepInv, proc = "running", Single, Single', NEW age, NEW rank, NEW held,
           Ranked(age, rank, held), NEW p, Settled(p), Told(p, held), NEW a \in Adders,
           TestEmpty(a) \/ LoadHead(a) \/ TestNext(a) \/ Step(a)
    PROVE  Told(p, held)'
<1> USE DEF heapVars, addVars, removeVars, scanVars
<1>1. /\ UNCHANGED <<head, next, id, live, node, issued, dpc, dcurr, victim, loaded,
                     target, scan, scanning, reported>>
      /\ apc[a] # "idle"
  BY DEF TestEmpty, LoadHead, TestNext, Step
<1>2. \/ apc'[a] = "first" /\ acurr' = acurr
      \/ apc'[a] = "head" /\ head # NULL /\ acurr' = acurr
      \/ apc'[a] = "walk" /\ apc[a] = "head" /\ acurr'[a] = head
      \/ \E n \in NextAt(acurr[a]) :
            /\ apc[a] = "walk" /\ acurr' = acurr
            /\ apc'[a] = IF n # NULL THEN "step" ELSE "link"
      \/ apc'[a] = "walk" /\ apc[a] = "step" /\ acurr'[a] \in NextAt(acurr[a])
  BY HeapTypes DEF TestEmpty, LoadHead, TestNext, Step
<1>3. /\ \A b \in Adders : b # a => apc[b] = "idle" /\ apc'[b] = "idle"
      /\ apc'[a] # "idle"
  BY <1>2, OthersIdle DEF Add
<1>4. Seeking' = Seeking /\ Freed' = Freed
  BY <1>1 DEF Seeking, Freed
<1>5. \A d : Fresh(p, held, d)' = Fresh(p, held, d)
  BY <1>1, <1>3 DEF Fresh
<1>6. NumberInv' /\ MarkInv(p, held)' /\ SeekInv(p, held)'
  BY <1>1, <1>3, <1>4 DEF Told, NumberInv, MarkInv, SeekInv
<1>7. AheadInv(p, held)'
  <2>1. PICK s, t : s = scan /\ t = next[scan]
    OBVIOUS
  <2>2. Fresh(p, held, s)' = Fresh(p, held, s) /\ Fresh(p, held, t)' = Fresh(p, held, t)
    BY <1>5
  <2> QED
    BY <1>1, <2>1, <2>2 DEF Told, AheadInv, Fresh
<1>8. ReusedInv(p, held)'
  <2>1. SUFFICES ASSUME dpc = "advance", scan \in held, id[scan] \notin reported,
                        scan \notin On(p)
                 PROVE  /\ apc'[a] # "idle" /\ node[a] = scan
                        /\ apc'[a] = "head" => p # <<>>
                        /\ apc'[a] \in {"walk", "step", "link"} => acurr'[a] \in On(p)
                        /\ apc'[a] = "step" => next[acurr'[a]] # NULL
    BY <1>1, <1>4 DEF ReusedInv
  <2>2. PICK b \in Adders :
              /\ apc[b] # "idle" /\ node[b] = scan
              /\ apc[b] = "head" => p # <<>>
              /\ apc[b] \in {"walk", "step", "link"} => acurr[b] \in On(p)
              /\ apc[b] = "step" => next[acurr[b]] # NULL
    BY <2>1 DEF Told, ReusedInv
  <2>3. b = a
    BY <2>2, <1>3
  <2> QED
    BY <1>2, <1>3, <2>2, <2>3, HeldFacts
<1> QED
  BY <1>6, <1>7, <1>8 DEF Told

LEMMA ToldLinkFirst ==
    ASSUME KeepInv, proc = "running", Single, Single', NEW age, NEW rank, NEW held,
           Ranked(age, rank, held), NEW p, Settled(p), Told(p, held), NEW a \in Adders,
           LinkFirst(a), NEW q, On(p) = {}, On(q) = {node[a]}
    PROVE  Told(q, held)'
<1> USE DEF heapVars, addVars, removeVars, scanVars
<1>1. PICK n : n = node[a]
  OBVIOUS
<1>2. /\ apc[a] = "first" /\ apc' = [apc EXCEPT ![a] = "idle"] /\ n = node[a]
      /\ UNCHANGED <<next, id, live, node, acurr, issued, dpc, dcurr, victim, loaded,
                     target, scan, scanning, reported>>
  BY <1>1 DEF LinkFirst
<1>3. /\ \A b \in Adders : apc'[b] = "idle" /\ (b # a => apc[b] = "idle")
  BY <1>2, OthersIdle, HeapTypes DEF Add
<1>4. Seeking' = Seeking /\ Freed' = Freed
  BY <1>2 DEF Seeking, Freed
<1>5. id[n] \notin reported /\ On(q) = {n} /\ n \in held
  BY <1>1, <1>2, ToldFacts DEF Told, MarkInv
<1>6. \A d : Fresh(p, held, d) => Fresh(q, held, d)'
  BY <1>2, <1>3 DEF Fresh
<1>7. NumberInv' /\ MarkInv(q, held)'
  BY <1>2, <1>3, <1>4, <1>5 DEF Told, NumberInv, MarkInv
<1>8. SeekInv(q, held)'
  <2>1. Seeking => scan # n
    BY <1>5 DEF Told, SeekInv
  <2> QED
    BY <1>2, <1>4, <1>5, <2>1 DEF Told, SeekInv
<1>9. AheadInv(q, held)'
  <2>1. PICK s, t : s = scan /\ t = next[scan]
    OBVIOUS
  <2>2. (Fresh(p, held, s) => Fresh(q, held, s)') /\ (Fresh(p, held, t) => Fresh(q, held, t)')
    BY <1>6
  <2> QED
    BY <1>2, <2>1, <2>2 DEF Told, AheadInv, Fresh
<1>10. ReusedInv(q, held)'
  BY <1>2, <1>3, <1>4, <1>5 DEF Told, ReusedInv
<1> QED
  BY <1>5, <1>7, <1>8, <1>9, <1>10 DEF Told

LEMMA ToldLinkLast ==
    ASSUME KeepInv, proc = "running", Single, Single', NEW age, NEW rank, NEW held,
           Ranked(age, rank, held), NEW p, Settled(p), Told(p, held), NEW a \in Adders,
           LinkLast(a), NEW q,
           IF acurr[a] \in On(p)
              THEN q = Append(p, node[a]) /\ On(q) = On(p) \cup {node[a]}
              ELSE q = p
    PROVE  Told(q, held)'
<1> USE DEF heapVars, addVars, removeVars, scanVars
<1>1. PICK n, e : n = node[a] /\ e = acurr[a]
  OBVIOUS
<1>2. /\ apc[a] = "link" /\ apc' = [apc EXCEPT ![a] = "idle"] /\ n = node[a] /\ e = acurr[a]
      /\ next' = [next EXCEPT ![e] = n]
      /\ UNCHANGED <<head, id, live, node, acurr, issued, dpc, dcurr, victim, loaded,
                     target, scan, scanning, reported>>
  BY <1>1 DEF LinkLast
<1>3. \A b \in Adders : apc'[b] = "idle" /\ (b # a => apc[b] = "idle")
  BY <1>2, OthersIdle, HeapTypes DEF Add
<1>4. Seeking' = Seeking /\ Freed' = Freed
  BY <1>2 DEF Seeking, Freed
<1>5. /\ id[n] \notin reported /\ n \in held /\ n \notin On(p)
      /\ \A c \in held : next[c] # n
  BY <1>2, ToldFacts DEF Told, MarkInv
<1>6. /\ On(q) \subseteq On(p) \cup {n} /\ On(p) \subseteq On(q)
      /\ e \in On(p) => n \in On(q)
      /\ On(p) \subseteq held /\ held \subseteq Cells
      /\ \A d \in Cells : next'[d] = IF d = e THEN n ELSE next[d]
  BY <1>1, <1>2, ToldFacts, HeapTypes
<1>7. \A d : Fresh(p, held, d) => Fresh(q, held, d)'
  <2>1. ASSUME NEW d, Fresh(p, held, d) PROVE Fresh(q, held, d)'
    <3>1. d # n
      BY <2>1, <1>2 DEF Fresh
    <3>2. \A c \in held : next'[c] = d => next[c] = d
      BY <3>1, <1>6
    <3> QED
      BY <2>1, <3>2, <1>2, <1>3, <1>6 DEF Fresh
  <2> QED
    BY <2>1
<1>8. NumberInv'
  BY <1>2 DEF Told, NumberInv
<1>9. MarkInv(q, held)'
  <2>1. \A c \in On(q) : id[c] \in reported => Seeking /\ c = scan
    BY <1>5, <1>6 DEF Told, MarkInv
  <2>2. \A c \in held :
           next'[c] # NULL /\ id[c] \notin reported /\ id[next'[c]] \in reported =>
              Seeking /\ next'[c] = scan /\ scan \in On(q)
    BY <1>5, <1>6 DEF Told, MarkInv
  <2> QED
    BY <1>2, <1>3, <1>4, <2>1, <2>2 DEF MarkInv
<1>10. SeekInv(q, held)'
  <2>1. Seeking => scan # n
    BY <1>5 DEF Told, SeekInv
  <2>2. ASSUME Seeking, dpc \in Comparing \cup {"walk"}, scan \in On(q)
        PROVE  \E i, j \in 1..Len(q) : i < j /\ q[i] = dcurr /\ q[j] = scan
    <3>1. PICK i, j \in 1..Len(p) : i < j /\ p[i] = dcurr /\ p[j] = scan
      BY <2>1, <2>2, <1>6 DEF Told, SeekInv
    <3>2. CASE e \in On(p)
      <4>1. p \in Seq(Cells) /\ Len(p) \in Nat /\ n \in Cells /\ q = Append(p, n)
        BY <3>2, <1>1, <1>5, <1>6, LenProperties DEF Settled, Chain
      <4>2. Len(q) = Len(p) + 1 /\ \A k \in 1..Len(p) : q[k] = p[k]
        BY <4>1, AppendProperties
      <4>3. i \in 1..Len(q) /\ j \in 1..Len(q) /\ q[i] = dcurr /\ q[j] = scan
        BY <3>1, <4>1, <4>2
      <4> QED
        BY <3>1, <4>3
    <3>3. CASE e \notin On(p)
      BY <3>1, <3>3, <1>1
    <3> QED
      BY <3>2, <3>3
  <2>3. Seeking /\ dpc = "moveon" => next'[dcurr] # scan
    BY <1>6, <2>1 DEF Told, SeekInv, Settled, ListInv, FindInv, Comparing
  <2>4. Seeking /\ dpc \in Heading /\ dcurr = NULL => scan \notin On(q)
    BY <1>6, <2>1 DEF Told, SeekInv
  <2> QED
    BY <1>2, <1>4, <2>2, <2>3, <2>4 DEF Told, SeekInv
<1>11. AheadInv(q, held)'
  <2>1. PICK s, t : s = scan /\ t = next[scan]
    OBVIOUS
  <2>2. dpc = "scan" /\ s \in Cells => Fresh(q, held, s)'
    BY <2>1, <1>7 DEF Told, AheadInv
  <2>3. dpc = "advance" \/ (scanning /\ dpc \in Searching) =>
           s \in Cells /\ (t # NULL => Fresh(q, held, t)')
    BY <2>1, <1>7 DEF Told, AheadInv
  <2>4. ASSUME dpc = "advance" \/ (scanning /\ dpc \in Searching), s = e
        PROVE  Fresh(q, held, n)'
    <3>1. e \in On(p) \/ (e \in held => id[e] \in reported)
      <4>1. CASE dpc = "advance"
        BY <2>1, <2>4, <4>1, <1>2, <1>3 DEF Told, ReusedInv
      <4>2. CASE Seeking
        BY <2>1, <2>4, <4>2 DEF Told, SeekInv
      <4>3. CASE dpc \in {"freecurr", "free"} /\ scanning
        BY <2>1, <2>4, <4>3 DEF Told, SeekInv
      <4> QED
        BY <2>4, <4>1, <4>2, <4>3 DEF Seeking
    <3>2. \A c \in held : next'[c] = n => c = e
      BY <1>5, <1>6
    <3> QED
      BY <3>1, <3>2, <1>2, <1>3, <1>5, <1>6 DEF Fresh
  <2>5. dpc = "advance" \/ (scanning /\ dpc \in Searching) =>
           next'[s] = IF s = e THEN n ELSE t
    BY <2>1, <2>3, <1>6
  <2> QED
    BY <1>2, <2>1, <2>2, <2>3, <2>4, <2>5 DEF AheadInv, Fresh
<1>12. ReusedInv(q, held)'
  <2>1. SUFFICES ASSUME dpc = "advance", scan \in held, id[scan] \notin reported
                 PROVE  scan \in On(q)
    BY <1>2, <1>4 DEF ReusedInv
  <2>2. \/ scan \in On(p)
        \/ n = scan /\ e \in On(p)
    BY <2>1, <1>2, <1>3 DEF Told, ReusedInv
  <2> QED
    BY <2>2, <1>6
<1>13. On(q) \subseteq held
  BY <1>5, <1>6
<1> QED
  BY <1>8, <1>9, <1>10, <1>11, <1>12, <1>13 DEF Told

LEMMA ToldUnlink ==
    ASSUME KeepInv, NEW age, NEW rank, NEW held, Ranked(age, rank, held),
           NEW p, Settled(p), Told(p, held), Unlink,
           NEW q, victim \in On(p), On(q) \subseteq On(p) \ {victim},
           loaded = next[victim] => On(q) = On(p) \ {victim},
           NEW h, h = held \ (IF dpc = "storehead" THEN {victim, dcurr} ELSE {victim})
    PROVE  Told(q, h)'
<1> USE DEF heapVars, addVars, removeVars, scanVars
<1>1. PICK v, c, l : v = victim /\ c = dcurr /\ l = loaded
  OBVIOUS
<1>2. /\ dpc \in {"storehead", "storenext"}
      /\ dpc' = IF dpc = "storehead" THEN "freecurr" ELSE "free"
      /\ UNCHANGED <<id, live, apc, node, acurr, issued, dcurr, victim, loaded, target,
                     scan, scanning, reported>>
      /\ \/ dpc = "storehead" /\ next' = next
         \/ dpc = "storenext" /\ next' = [next EXCEPT ![c] = l]
  BY <1>1 DEF Unlink
<1>3. /\ On(p) \subseteq held /\ held \subseteq Cells /\ held \subseteq live
      /\ \A d \in held : next[d] # NULL => next[d] \in held /\ next[d] # d
      /\ \A d, e \in held : next[d] # NULL /\ next[d] = next[e] => d = e
      /\ \A d \in On(p) : next[d] # NULL => next[d] \in On(p)
      /\ \A b \in Adders : apc[b] # "idle" => node[b] \in held /\ node[b] \notin On(p)
  BY ToldFacts, HeldFacts
<1>4. /\ h = held \ {v} /\ v \in held /\ v # NULL
      /\ dpc = "storehead" => c \in {NULL, v}
  <2>1. dpc = "storehead" => c \in {NULL, v}
    BY <1>1 DEF Settled, ListInv, FindInv, Heading
  <2>2. v \in held /\ v # NULL /\ NULL \notin held
    BY <1>1, <1>3, CellFacts
  <2> QED
    BY <1>1, <1>2, <2>1, <2>2
<1>5. l \in {NULL, next[v]} /\ id[v] = target
  BY <1>1, <1>2 DEF Settled, ListInv, FindInv
<1>6. dpc = "storenext" => c \in On(p) /\ next[c] = v /\ c # v
  BY <1>1, <1>3, <1>4 DEF Settled, ListInv, FindInv
<1>7. dpc = "storehead" => \A d \in held : next[d] # v
  BY <1>1 DEF Ranked, RemoveInv, HeadInv, Unled
<1>8. \A d \in Cells : next'[d] = IF dpc = "storenext" /\ d = c THEN l ELSE next[d]
  BY <1>2, HeapTypes
<1>9. \A d \in h : next'[d] # v
  <2>1. l # v
    BY <1>1, <1>3, <1>4, <1>5
  <2>2. dpc = "storenext" => next'[c] = l /\ \A d \in held : next[d] = v => d = c
    BY <1>2, <1>3, <1>4, <1>6, <1>8
  <2> QED
    BY <1>2, <1>3, <1>4, <1>7, <1>8, <2>1, <2>2
<1>10. scanning => scan = v /\ (dpc = "storehead" => c = v)
  <2>1. scanning => Seeking
    BY <1>2 DEF Seeking, Searching, Heading
  <2>2. scanning => scan = v
    BY <2>1, <1>3, <1>4, <1>5 DEF Told, SeekInv, NumberInv
  <2>3. scanning /\ dpc = "storehead" => c # NULL
    BY <2>1, <2>2, <1>1 DEF Told, SeekInv, Heading
  <2> QED
    BY <2>2, <2>3, <1>4
<1>11. \A d \in On(p) : d # v => id[d] \notin reported
  BY <1>1, <1>10 DEF Told, MarkInv, Seeking
<1>12. ~Seeking' /\ Freed' = IF dpc = "storehead" THEN c ELSE v
  BY <1>1, <1>2 DEF Seeking, Freed
<1>13. NumberInv'
  BY <1>2 DEF Told, NumberInv
<1>14. MarkInv(q, h)'
  <2>1. \A d \in On(q) : id[d] \notin reported
    BY <1>1, <1>11
  <2>2. ASSUME NEW d \in h, next'[d] # NULL, id[d] \notin reported,
               id[next'[d]] \in reported
        PROVE  FALSE
    <3>1. d \in held /\ d # v /\ d \in Cells /\ next'[d] # v
      BY <2>2, <1>3, <1>4, <1>9
    <3>2. CASE next'[d] = next[d]
      BY <2>2, <3>1, <3>2, <1>10 DEF Told, MarkInv, Seeking
    <3>3. CASE next'[d] = l
      <4>1. l = next[v] /\ next[v] # NULL
        BY <2>2, <3>3, <1>5
      <4>2. l \in On(p) /\ l # v
        BY <4>1, <1>1, <1>3, <1>4
      <4> QED
        BY <2>2, <3>3, <4>2, <1>11
    <3> QED
      BY <3>1, <3>2, <3>3, <1>8
  <2> QED
    BY <1>2, <2>1, <2>2 DEF Told, MarkInv
<1>15. SeekInv(q, h)'
  BY <1>1, <1>2, <1>4, <1>10, <1>12 DEF SeekInv, Heading, Comparing
<1>16. AheadInv(q, h)'
  <2>1. SUFFICES ASSUME scanning
                 PROVE  v \in Cells /\ (next'[v] # NULL => Fresh(q, h, next[v])'
                                                            /\ next'[v] = next[v])
    <3>1. PICK t : t = next[v]
      OBVIOUS
    <3>2. Fresh(q, h, t)' /\ next'[v] = t => Fresh(q, h, next[v])'
      BY <3>1 DEF Fresh
    <3> QED
      BY <1>2, <1>10 DEF AheadInv, Fresh
  <2>2. PICK t : t = next[v]
    OBVIOUS
  <2>3. next'[v] = t /\ v \in Cells
    BY <2>2, <1>3, <1>4, <1>6, <1>8
  <2>4. t # NULL => scan = v /\ Fresh(p, held, t)
    BY <2>1, <2>2, <2>3, <1>2, <1>10 DEF Told, AheadInv, Searching, Heading
  <2>5. t # NULL => t # v /\ t \in On(p)
    BY <2>2, <2>4, <1>1, <1>3, <1>4
  <2>6. t # NULL => t \in On(q) \/ \A d \in h : next'[d] # t
    <3>1. CASE l = t
      BY <2>2, <2>5, <3>1, <1>1
    <3>2. CASE l # t
      <4>1. l = NULL
        BY <2>2, <3>2, <1>5
      <4>2. t # NULL => \A d \in held : next[d] = t => d = v
        BY <2>2, <1>3, <1>4
      <4> QED
        BY <4>1, <4>2, <1>3, <1>4, <1>8
    <3> QED
      BY <3>1, <3>2
  <2>7. t # NULL => /\ t \in h /\ id[t] \notin reported
                    /\ \A b \in Adders : apc[b] # "idle" => node[b] # t
    BY <2>4, <2>5, <1>4 DEF Fresh
  <2>8. t # NULL => Fresh(q, h, t)'
    BY <2>6, <2>7, <1>2 DEF Fresh
  <2> QED
    BY <2>2, <2>3, <2>8 DEF Fresh
<1>17. ReusedInv(q, h)'
  BY <1>2 DEF ReusedInv
<1>18. On(q) \subseteq h
  BY <1>1, <1>3, <1>4
<1> QED
  BY <1>13, <1>14, <1>15, <1>16, <1>17, <1>18 DEF Told

(* The search for the cell.                                                *)
Search ==
    \/ RemoveBegin \/ RemoveHead \/ RemoveWalk \/ RemoveCompare
    \/ RemoveMovesOn \/ LoadVictim \/ LoadSuccessor

LEMMA WalkReads ==
    ASSUME RemoveWalk
    PROVE  \E n \in NextAt(dcurr) : \/ n # NULL /\ dpc' = "compare"
                                    \/ n = NULL /\ dpc' \in {"idle", "advance"}
<1>1. PICK n \in NextAt(dcurr) :
          dpc' = CASE n # NULL -> "compare"
                   [] n = NULL /\ scanning -> "advance"
                   [] n = NULL /\ ~scanning -> "idle"
  BY DEF RemoveWalk
<1>2. CASE n # NULL
  BY <1>1, <1>2
<1>3. CASE n = NULL /\ scanning
  BY <1>1, <1>3
<1>4. CASE n = NULL /\ ~scanning
  BY <1>1, <1>4
<1> QED
  BY <1>2, <1>3, <1>4

LEMMA SearchSteps ==
    ASSUME Search
    PROVE  /\ UNCHANGED <<head, next, id, live, apc, node, acurr, issued, target, scan,
                          scanning, reported>>
           /\ dpc \in Searching \ {"freecurr", "free"}
           /\ dpc' \in Searching \ {"freecurr", "free"} \/ dpc' \in {"idle", "advance"}
           /\ dpc' \in {"idle", "advance"} => RemoveWalk
           /\ dpc' = "advance" => scanning
<1> USE DEF heapVars, addVars, removeVars, scanVars, Searching, Heading, Comparing
<1>1. CASE RemoveWalk
  <2>1. PICK n \in NextAt(dcurr) :
            dpc' = CASE n # NULL -> "compare"
                     [] n = NULL /\ scanning -> "advance"
                     [] n = NULL /\ ~scanning -> "idle"
    BY <1>1 DEF RemoveWalk
  <2>2. CASE n # NULL
    BY <1>1, <2>1, <2>2 DEF RemoveWalk
  <2>3. CASE n = NULL /\ scanning
    BY <1>1, <2>1, <2>3 DEF RemoveWalk
  <2>4. CASE n = NULL /\ ~scanning
    BY <1>1, <2>1, <2>4 DEF RemoveWalk
  <2> QED
    BY <2>2, <2>3, <2>4
<1>2. CASE RemoveBegin \/ RemoveHead \/ RemoveCompare \/ RemoveMovesOn \/ LoadVictim
           \/ LoadSuccessor
  BY <1>2 DEF RemoveBegin, RemoveHead, RemoveCompare, RemoveMovesOn, LoadVictim,
              LoadSuccessor
<1> QED
  BY <1>1, <1>2 DEF Search

LEMMA SearchSeeks ==
    ASSUME KeepInv, proc = "running", proc' = "running", NEW age, NEW rank, NEW held,
           Ranked(age, rank, held), NEW p, Settled(p), Told(p, held), Search, scanning
    PROVE  /\ dcurr' = NULL /\ dpc' \in Heading => scan \notin On(p)
           /\ dpc' \in Comparing \cup {"walk"} /\ scan \in On(p) =>
                 \E i, j \in 1..Len(p) : i < j /\ p[i] = dcurr' /\ p[j] = scan
           /\ dpc' = "moveon" => next[dcurr'] # scan
           /\ dpc' \notin Searching => scan \notin On(p)
<1> USE DEF heapVars, addVars, removeVars, scanVars, Searching, Heading, Comparing
<1>1. /\ On(p) \subseteq held /\ held \subseteq live
      /\ \A c \in On(p) : NextAt(c) = {next[c]} /\ IdAt(c) = {id[c]} /\ c # NULL
      /\ \A c \in On(p) : next[c] # NULL => next[c] \in On(p)
      /\ head # NULL => head \in On(p)
      /\ head = NULL => On(p) = {}
  <2>1. head = NULL => On(p) = {}
    BY HeldFacts, EmptySeq DEF On
  <2> QED
    BY <2>1, ToldFacts, HeldFacts
<1>2. Seeking
  BY SearchSteps DEF Seeking
<1>3. scan \in held /\ target = id[scan] /\ \A c \in held : id[c] = target => c = scan
  BY <1>1, <1>2 DEF Told, SeekInv, NumberInv
<1>4. /\ Len(p) \in Nat /\ \A i \in 1..Len(p) : next[p[i]] = Behind(p, i)
      /\ \A i \in 1..Len(p) : p[i] \in On(p)
  <2>1. \A i \in 1..Len(p) : p[i] \in On(p)
    BY DEF On
  <2> QED
    BY <2>1, LenProperties DEF Settled, Chain
<1>5. Fate(NULL) = "segv"
  BY CellFacts DEF Fate
<1>6. CASE RemoveBegin
  BY <1>1, <1>6 DEF RemoveBegin
<1>7. CASE RemoveHead
  <2>1. PICK q \in IdAt(head) : dpc' = IF q = target THEN "loadhead" ELSE "walk"
    BY <1>7 DEF RemoveHead
  <2>2. dpc = "comparehead" /\ dcurr' = dcurr /\ head # NULL
    BY <1>5, <1>7 DEF RemoveHead
  <2>3. dcurr = NULL => scan \notin On(p)
    BY <1>2, <2>2 DEF Told, SeekInv
  <2>4. ASSUME dpc' = "walk", scan \in On(p)
        PROVE  \E i, j \in 1..Len(p) : i < j /\ p[i] = dcurr /\ p[j] = scan
    <3>1. PICK j \in 1..Len(p) : p[j] = scan
      BY <2>4 DEF On
    <3>2. dcurr = head /\ q = id[head] /\ id[head] # target
      BY <1>1, <2>1, <2>2, <2>3, <2>4 DEF Settled, ListInv, FindInv
    <3>3. head = p[1] /\ 1 \in 1..Len(p)
      BY <2>2, <1>4, <3>1, OnFacts DEF Settled
    <3>4. 1 < j
      BY <3>1, <3>2, <3>3, <1>3, <1>4
    <3> QED
      BY <3>1, <3>2, <3>3, <3>4
  <2> QED
    BY <2>1, <2>2, <2>3, <2>4
<1>8. CASE RemoveWalk
  <2>1. PICK n \in NextAt(dcurr) : \/ n # NULL /\ dpc' = "compare"
                                   \/ n = NULL /\ dpc' \in {"idle", "advance"}
    BY <1>8, WalkReads
  <2>2. dpc = "walk" /\ dcurr' = dcurr /\ dcurr # NULL
    BY <1>5, <1>8 DEF RemoveWalk
  <2>3. dcurr \in On(p) /\ n = next[dcurr]
    BY <1>1, <2>1, <2>2 DEF Settled, ListInv, FindInv
  <2>4. scan \in On(p) =>
           \E i, j \in 1..Len(p) : i < j /\ p[i] = dcurr /\ p[j] = scan
    BY <1>2, <2>2 DEF Told, SeekInv
  <2>5. ASSUME scan \in On(p) PROVE dpc' = "compare"
    <3>1. PICK i, j \in 1..Len(p) : i < j /\ p[i] = dcurr /\ p[j] = scan
      BY <2>4, <2>5
    <3>2. i < Len(p) /\ i + 1 \in 1..Len(p)
      BY <3>1, <1>4
    <3>3. n = p[i + 1]
      BY <3>1, <3>2, <2>3, <1>4 DEF Behind
    <3> QED
      BY <2>1, <3>2, <3>3, <1>1, <1>4
  <2> QED
    BY <2>1, <2>2, <2>4, <2>5
<1>9. CASE RemoveCompare
  <2>1. PICK n \in NextAt(dcurr), i \in 0..MaxAdds :
            i \in IdAt(n) /\ proc' = Fate(n)
            /\ dpc' = IF i = target THEN "loadvictim" ELSE "moveon"
    BY <1>9 DEF RemoveCompare
  <2>2. dpc = "compare" /\ dcurr' = dcurr
    BY <1>9 DEF RemoveCompare
  <2>3. dcurr \in On(p) /\ n = next[dcurr] /\ n \in On(p) /\ i = id[n]
    BY <1>1, <2>1, <2>2 DEF Settled, ListInv, FindInv
  <2>4. scan \in On(p) =>
           \E k, j \in 1..Len(p) : k < j /\ p[k] = dcurr /\ p[j] = scan
    BY <1>2, <2>2 DEF Told, SeekInv
  <2> QED
    BY <2>1, <2>2, <2>3, <2>4, <1>3
<1>10. CASE RemoveMovesOn
  <2>1. dpc = "moveon" /\ dpc' = "walk" /\ dcurr' \in NextAt(dcurr)
    BY <1>10 DEF RemoveMovesOn
  <2>2. dcurr \in On(p) /\ dcurr' = next[dcurr] /\ next[dcurr] # scan
    BY <1>1, <1>2, <2>1 DEF Told, SeekInv, Settled, ListInv, FindInv
  <2>3. ASSUME scan \in On(p)
        PROVE  \E i, j \in 1..Len(p) : i < j /\ p[i] = next[dcurr] /\ p[j] = scan
    <3>1. PICK i, j \in 1..Len(p) : i < j /\ p[i] = dcurr /\ p[j] = scan
      BY <1>2, <2>1, <2>3 DEF Told, SeekInv
    <3>2. i < Len(p) /\ i + 1 \in 1..Len(p) /\ i + 1 <= j
      BY <3>1, <1>4
    <3>3. next[dcurr] = p[i + 1]
      BY <3>1, <3>2, <1>4 DEF Behind
    <3>4. i + 1 < j
      BY <3>1, <3>2, <3>3, <2>2
    <3> QED
      BY <3>1, <3>2, <3>3, <3>4
  <2> QED
    BY <2>1, <2>2, <2>3
<1>11. CASE LoadVictim
  <2>1. \/ dpc = "loadhead" /\ dpc' = "loadfirst" /\ dcurr' = dcurr
        \/ dpc' = "loadnext"
    BY <1>11 DEF LoadVictim
  <2> QED
    BY <2>1, <1>2 DEF Told, SeekInv
<1>12. CASE LoadSuccessor
  <2>1. \/ dpc = "loadfirst" /\ dpc' = "storehead" /\ dcurr' = dcurr
        \/ dpc' = "storenext"
    BY <1>12 DEF LoadSuccessor
  <2> QED
    BY <2>1, <1>2 DEF Told, SeekInv
<1> QED
  BY <1>6, <1>7, <1>8, <1>9, <1>10, <1>11, <1>12 DEF Search

(* The steps of the deamon that leave the list as it is.                   *)
LEMMA ToldSearch ==
    ASSUME KeepInv, proc = "running", proc' = "running", NEW age, NEW rank, NEW held,
           Ranked(age, rank, held), NEW p, Settled(p), Told(p, held), Search
    PROVE  Told(p, held)'
<1>1. /\ UNCHANGED <<head, next, id, live, apc, node, acurr, issued, target, scan, scanning,
                     reported>>
      /\ dpc \in Searching \ {"freecurr", "free"}
      /\ dpc' \in Searching \ {"freecurr", "free"} \/ dpc' \in {"idle", "advance"}
      /\ dpc' # "scan" /\ (dpc' = "advance" => scanning)
  BY SearchSteps DEF Searching, Heading, Comparing
<1>2. \A d : Fresh(p, held, d)' = Fresh(p, held, d)
  BY <1>1 DEF Fresh
<1>3. Seeking <=> scanning
  BY <1>1 DEF Seeking
<1>4. Seeking' <=> scanning /\ dpc' \in Searching
  BY <1>1 DEF Seeking
<1>5. scanning /\ dpc' \notin Searching => scan \notin On(p)
  BY SearchSeeks
<1>6. NumberInv'
  BY <1>1 DEF Told, NumberInv
<1>7. MarkInv(p, held)'
  <2>1. \A c \in On(p) : id[c] \in reported => scanning /\ dpc' \in Searching /\ c = scan
    BY <1>3, <1>5 DEF Told, MarkInv
  <2>2. \A c \in held : next[c] # NULL /\ id[c] \notin reported /\ id[next[c]] \in reported =>
           scanning /\ dpc' \in Searching /\ next[c] = scan /\ scan \in On(p)
    BY <1>3, <1>5 DEF Told, MarkInv
  <2>3. \A a \in Adders : apc[a] # "idle" => id[node[a]] \notin reported
    BY DEF Told, MarkInv
  <2> QED
    BY <1>1, <1>4, <2>1, <2>2, <2>3 DEF MarkInv
<1>8. SeekInv(p, held)'
  <2>1. scanning => scan \in held /\ target = id[scan] /\ target \in reported
    BY <1>3 DEF Told, SeekInv
  <2>2. dpc' \notin {"freecurr", "free"}
    BY <1>1
  <2> QED
    BY <1>1, <1>4, <2>1, <2>2, SearchSeeks DEF SeekInv
<1>9. AheadInv(p, held)'
  <2>1. PICK t : t = next[scan]
    OBVIOUS
  <2>2. scanning => scan \in Cells /\ (t # NULL => Fresh(p, held, t)')
    BY <1>1, <1>2, <2>1 DEF Told, AheadInv
  <2> QED
    BY <1>1, <2>1, <2>2 DEF AheadInv, Fresh
<1>10. ReusedInv(p, held)'
  BY <1>1, <1>3 DEF Told, SeekInv, ReusedInv
<1> QED
  BY <1>6, <1>7, <1>8, <1>9, <1>10 DEF Told

LEMMA ToldDeamon ==
    ASSUME KeepInv, proc = "running", proc' = "running", NEW age, NEW rank, NEW held,
           Ranked(age, rank, held), NEW p, Settled(p), Told(p, held),
           RemoveCall \/ Free \/ ScanStart \/ ScanAdvance
    PROVE  Told(p, held)'
<1> USE DEF heapVars, addVars, removeVars, scanVars, Searching, Heading, Comparing
<1>1. /\ UNCHANGED <<head, next, id, apc, node, acurr, issued, victim, scanning, reported>>
      /\ dpc \in {"idle", "freecurr", "free", "advance"}
      /\ dpc' \in {"remove", "idle", "advance", "scan"}
      /\ live' \subseteq live
  BY DEF RemoveCall, Free, ScanStart, ScanAdvance
<1>2. dpc' = "remove" => ~scanning
  BY DEF KeepInv, TypeOK, RemoveCall, Free, ScanStart, ScanAdvance
<1>3. ~Seeking /\ ~Seeking'
  <2>1. dpc = "idle" => ~scanning
    BY DEF KeepInv, TypeOK
  <2> QED
    BY <1>1, <1>2, <2>1 DEF Seeking
<1>4. \A d : Fresh(p, held, d)' = Fresh(p, held, d)
  BY <1>1 DEF Fresh
<1>5. NumberInv' /\ MarkInv(p, held)'
  BY <1>1, <1>3 DEF Told, NumberInv, MarkInv
<1>6. SeekInv(p, held)'
  BY <1>1, <1>3 DEF SeekInv
<1>7. AheadInv(p, held)' /\ ReusedInv(p, held)'
  <2>1. CASE RemoveCall
    <3>1. dpc' = "remove" /\ ~scanning' /\ scan' = scan
      BY <2>1, <1>1, <1>2 DEF RemoveCall
    <3> QED
      BY <3>1 DEF AheadInv, ReusedInv
  <2>2. CASE Free
    <3>1. /\ dpc \in {"freecurr", "free"} /\ scan' = scan
          /\ dpc' = (IF scanning THEN "advance" ELSE "idle")
      BY <2>2 DEF Free
    <3>2. PICK t : t = next[scan]
      OBVIOUS
    <3>3. scanning => /\ scan \in Cells /\ scan \notin held
                      /\ t # NULL => Fresh(p, held, t)'
      BY <3>1, <3>2, <1>4 DEF Told, AheadInv, SeekInv
    <3>4. scanning => (next'[scan'] # NULL => Fresh(p, held, next[scan])')
      BY <3>1, <3>2, <3>3, <1>1 DEF Fresh
    <3> QED
      BY <3>1, <3>3, <3>4, <1>1 DEF AheadInv, ReusedInv
  <2>3. CASE ScanStart
    <3>1. PICK h : h = head
      OBVIOUS
    <3>2. dpc' = "scan" /\ scan' = h /\ h \in On(p)
      BY <2>3, <3>1, HeldFacts DEF ScanStart
    <3>3. h \in held /\ id[h] \notin reported
      BY <3>2, <1>3, ToldFacts DEF Told, MarkInv
    <3>4. \A a \in Adders : apc[a] # "idle" => node[a] # h
      BY <3>2, ToldFacts
    <3>5. Fresh(p, held, h)
      BY <3>2, <3>3, <3>4 DEF Fresh
    <3>6. Fresh(p, held, scan)'
      BY <3>2, <3>5, <1>4 DEF Fresh
    <3> QED
      BY <3>2, <3>6 DEF AheadInv, ReusedInv
  <2>4. CASE ScanAdvance
    <3>1. PICK t : t = next[scan]
      OBVIOUS
    <3>2. dpc = "advance" /\ dpc' = "scan" /\ scan' \in NextAt(scan) /\ scan \in Cells
      BY <2>4 DEF ScanAdvance, Told, AheadInv
    <3>3. t # NULL => Fresh(p, held, t)
      BY <3>1, <3>2 DEF Told, AheadInv
    <3>4. scan' \in {NULL, WILD, t}
      BY <3>1, <3>2 DEF NextAt
    <3>5. scan' \in Cells => Fresh(p, held, scan)'
      BY <3>3, <3>4, <1>4, CellFacts DEF Fresh
    <3> QED
      BY <3>2, <3>5 DEF AheadInv, ReusedInv
  <2> QED
    BY <2>1, <2>2, <2>3, <2>4
<1> QED
  BY <1>5, <1>6, <1>7 DEF Told

LEMMA ToldScanNode ==
    ASSUME KeepInv, proc = "running", proc' = "running", NEW age, NEW rank, NEW held,
           Ranked(age, rank, held), NEW p, Settled(p), Told(p, held), ScanNode
    PROVE  Told(p, held)'
<1> USE DEF heapVars, addVars, removeVars, scanVars
<1>1. PICK s, i : s = scan /\ i = id[scan]
  OBVIOUS
<1>2. /\ UNCHANGED <<head, next, id, live, apc, node, acurr, issued, victim, dcurr, scan>>
      /\ dpc = "scan" /\ s = scan
      /\ \/ /\ s = NULL /\ dpc' = "idle" /\ ~scanning'
            /\ UNCHANGED reported
         \/ /\ s # NULL /\ dpc' = "remove" /\ scanning' /\ Fate(s) = "running"
            /\ target' \in IdAt(s) /\ reported' = reported \cup {target'}
  BY <1>1 DEF ScanNode
<1>3. ~Seeking
  BY <1>2 DEF Seeking, Searching, Heading, Comparing
<1>4. CASE s = NULL
  <2>1. ~Seeking' /\ dpc' = "idle" /\ ~scanning' /\ reported' = reported
    BY <1>2, <1>4 DEF Seeking
  <2> QED
    BY <1>2, <1>3, <2>1 DEF Told, NumberInv, MarkInv, SeekInv, AheadInv, ReusedInv
<1>5. CASE s # NULL
  <2>0. s \in Cells
    BY <1>1, <1>2, <1>5, HeapTypes DEF Fate, Places, Pointers
  <2>1. Fresh(p, held, s) /\ i = id[s]
    BY <1>1, <1>2, <2>0 DEF Told, AheadInv
  <2>2. /\ On(p) \subseteq held /\ held \subseteq live
        /\ \A c \in held : next[c] # NULL => next[c] \in held /\ next[c] # c
        /\ \A c, d \in held : next[c] # NULL /\ next[c] = next[d] => c = d
        /\ \A a \in Adders : apc[a] # "idle" =>
              node[a] \in held /\ \A c \in held : next[c] # node[a]
    BY ToldFacts
  <2>3. dpc' = "remove" /\ scanning' /\ reported' = reported \cup {i} /\ target' = i
    BY <1>2, <1>5, <2>1, <2>2 DEF IdAt, Fresh
  <2>4. Seeking'
    BY <2>3 DEF Seeking, Searching
  <2>5. \A c \in held : id[c] = i => c = s
    BY <2>1, <2>2 DEF Told, NumberInv, Fresh
  <2>6. NumberInv'
    BY <1>2, <2>1, <2>2, <2>3 DEF Told, NumberInv, Fresh
  <2>7. MarkInv(p, held)'
    <3>1. \A c \in On(p) : id[c] \in reported \cup {i} => c = s
      BY <1>3, <2>2, <2>5 DEF Told, MarkInv
    <3>2. \A a \in Adders : apc[a] # "idle" => id[node[a]] \notin reported \cup {i}
      BY <2>1, <2>2, <2>5 DEF Told, MarkInv, Fresh
    <3>3. ASSUME NEW c \in held, next[c] # NULL, id[c] \notin reported \cup {i},
                 id[next[c]] \in reported \cup {i}
          PROVE  next[c] = s /\ s \in On(p)
      <4>1. id[next[c]] \notin reported
        BY <3>3, <1>3 DEF Told, MarkInv
      <4>2. next[c] = s
        BY <4>1, <3>3, <2>2, <2>5
      <4> QED
        BY <4>2, <3>3, <2>1 DEF Fresh
    <3> QED
      BY <1>2, <2>3, <2>4, <3>1, <3>2, <3>3 DEF MarkInv
  <2>8. SeekInv(p, held)'
    BY <1>1, <1>2, <2>1, <2>3 DEF SeekInv, Heading, Comparing, Fresh
  <2>9. AheadInv(p, held)'
    <3>1. PICK t : t = next[s]
      OBVIOUS
    <3>2. ASSUME t # NULL PROVE Fresh(p, held, t)'
      <4>1. t \in held /\ t # s /\ s \in held /\ id[s] \notin reported
        BY <3>1, <3>2, <2>1, <2>2 DEF Fresh
      <4>2. id[t] \notin reported
        BY <4>1, <3>1, <3>2, <1>3 DEF Told, MarkInv
      <4>3. id[t] # i
        BY <4>1, <2>5
      <4>4. \A c \in held : next[c] = t => c = s
        BY <4>1, <3>1, <3>2, <2>2
      <4>5. \A a \in Adders : apc[a] # "idle" => node[a] # t
        BY <4>1, <3>1, <2>2
      <4> QED
        BY <4>1, <4>2, <4>3, <4>4, <4>5, <1>2, <2>1, <2>3 DEF Fresh
    <3>3. next'[scan'] # NULL => Fresh(p, held, next[scan])'
      BY <3>1, <3>2, <1>2 DEF Fresh
    <3> QED
      BY <1>2, <2>0, <2>3, <3>3 DEF AheadInv
  <2>10. ReusedInv(p, held)'
    BY <2>3 DEF ReusedInv
  <2> QED
    BY <1>2, <2>2, <2>6, <2>7, <2>8, <2>9, <2>10 DEF Told
<1> QED
  BY <1>4, <1>5

LEMMA ToldStep ==
    ASSUME KeepInv, proc = "running", proc' = "running", Single, Single',
           NEW age, NEW rank, NEW held, Ranked(age, rank, held),
           NEW p, Settled(p), Told(p, held), [Next]_vars
    PROVE  \E ag, rk, h, q : Ranked(ag, rk, h)' /\ Settled(q)' /\ Told(q, h)'
<1>1. CASE UNCHANGED vars
  <2>1. Ranked(age, rank, held)'
    BY <1>1 DEF vars, Ranked, HeapInv, AddInv, RemoveInv, HeadInv, WalkInv, CutInv, Freed,
                Unled
  <2>2. Settled(p)'
    BY <1>1 DEF vars, Settled, ListInv, WriteInv, FindInv, FreeInv, Freed, AloneInv
  <2>3. Told(p, held)'
    BY <1>1 DEF vars, Told, NumberInv, MarkInv, SeekInv, AheadInv, ReusedInv, Fresh, Seeking,
                Freed
  <2> QED
    BY <2>1, <2>2, <2>3
<1>2. overlap' = overlap
  BY DEF Next, Running, vars
<1>3. ASSUME NEW a \in Adders, Add(a)
      PROVE  \E ag, rk, h, q : Ranked(ag, rk, h)' /\ Settled(q)' /\ Told(q, h)'
  <2>1. CASE Allocate(a)
    <3>1. PICK ag, rk, h : Ranked(ag, rk, h)' /\ h = held \cup {node'[a]}
      BY <2>1, RankedAllocate
    <3>2. Settled(p)' /\ Told(p, h)'
      BY <1>2, <2>1, <3>1, SettledAllocate, ToldAllocate
    <3> QED
      BY <3>1, <3>2
  <2>2. CASE TestEmpty(a) \/ LoadHead(a) \/ TestNext(a) \/ Step(a)
    <3>1. Settled(p)' /\ Told(p, held)' /\ Ranked(age, rank, held)'
      BY <1>2, <2>2, SettledLook, ToldLook, RankedLook
    <3> QED
      BY <3>1
  <2>3. CASE LinkFirst(a)
    <3>1. PICK c \in Cells : /\ c = node[a] /\ On(Append(p, c)) = {c}
                             /\ p = <<>> /\ Settled(Append(p, c))'
      BY <1>2, <2>3, SettledLinkFirst
    <3>2. On(p) = {}
      BY <3>1, EmptySeq DEF On
    <3>3. PICK q : q = Append(p, c)
      OBVIOUS
    <3>4. Told(q, held)'
      BY <2>3, <3>1, <3>2, <3>3, ToldLinkFirst
    <3>5. Settled(q)'
      BY <3>1, <3>3
    <3>6. \E ag, rk : Ranked(ag, rk, held)'
      BY <2>3, RankedLinkFirst
    <3> QED
      BY <3>4, <3>5, <3>6
  <2>4. CASE LinkLast(a)
    <3>1. PICK q : /\ Settled(q)'
                   /\ IF acurr[a] \in On(p)
                         THEN q = Append(p, node[a]) /\ On(q) = On(p) \cup {node[a]}
                         ELSE q = p
      BY <1>2, <2>4, SettledLinkLast
    <3>2. Told(q, held)'
      BY <2>4, <3>1, ToldLinkLast
    <3>3. \E ag, rk : Ranked(ag, rk, held)'
      BY <2>4, RankedLinkLast
    <3> QED
      BY <3>1, <3>2, <3>3
  <2> QED
    BY <1>3, <2>1, <2>2, <2>3, <2>4 DEF Add
<1>4. CASE Unlink
  <2>1. PICK q : /\ Settled(q)'
                 /\ victim \in On(p) /\ On(q) \subseteq On(p) \ {victim}
                 /\ loaded = next[victim] => On(q) = On(p) \ {victim}
    BY <1>2, <1>4, SettledUnlink
  <2>2. PICK ag, rk, h :
            /\ Ranked(ag, rk, h)'
            /\ h = held \ (IF dpc = "storehead" THEN {victim, dcurr} ELSE {victim})
    BY <1>4, RankedUnlink
  <2>3. Told(q, h)'
    BY <1>4, <2>1, <2>2, ToldUnlink
  <2> QED
    BY <2>1, <2>2, <2>3
<1>5. CASE Deamon /\ ~Unlink
  <2>1. Settled(p)' /\ Ranked(age, rank, held)'
    BY <1>2, <1>5, SettledDeamon, RankedDeamon
  <2>2. Told(p, held)'
    BY <1>5, ToldSearch, ToldDeamon, ToldScanNode DEF Deamon, Search
  <2> QED
    BY <2>1, <2>2
<1> QED
  BY <1>1, <1>3, <1>4, <1>5 DEF Next, Running

(* While one thread adds and the process runs.                             *)
ToldInv ==
    /\ RankedInv
    /\ Sole /\ proc = "running" =>
          Single /\ \E ag, rk, h, p : Ranked(ag, rk, h) /\ Settled(p) /\ Told(p, h)

LEMMA ToldInit == Init => ToldInv
<1> SUFFICES ASSUME Init PROVE ToldInv
  OBVIOUS
<1>1. RankedInv /\ Settled(<<>>) /\ On(<<>>) = {}
  BY SettledInit DEF On
<1>2. PICK ag, rk, h : Ranked(ag, rk, h)
  BY <1>1 DEF RankedInv
<1>3. /\ live = {} /\ reported = {} /\ dpc = "idle" /\ ~scanning
      /\ \A a \in Adders : apc[a] = "idle"
  BY DEF Init
<1>4. h = {}
  BY <1>2, <1>3 DEF Ranked, HeapInv
<1>5. Told(<<>>, h)
  BY <1>1, <1>3, <1>4 DEF Told, NumberInv, MarkInv, SeekInv, AheadInv, ReusedInv, Seeking
<1>6. Single
  BY <1>3 DEF Single
<1> QED
  BY <1>1, <1>2, <1>5, <1>6 DEF ToldInv

LEMMA ToldNext ==
    ASSUME ToldInv, [Next]_vars
    PROVE  ToldInv'
<1>1. KeepInv /\ RankedInv /\ RankedInv'
  BY RankedInvStep DEF ToldInv, RankedInv
<1>2. ASSUME Sole', proc' = "running"
      PROVE  Single' /\ \E ag, rk, h, q : Ranked(ag, rk, h)' /\ Settled(q)' /\ Told(q, h)'
  <2>1. Sole /\ proc = "running"
    BY <1>1, <1>2, SoleBefore DEF Next, Running, vars
  <2>2. Single /\ Single'
    BY <1>1, <1>2, <2>1, SingleStep DEF ToldInv, Orderly
  <2>3. PICK ag, rk, h, p : Ranked(ag, rk, h) /\ Settled(p) /\ Told(p, h)
    BY <2>1 DEF ToldInv
  <2> QED
    BY <1>1, <1>2, <2>1, <2>2, <2>3, ToldStep
<1> QED
  BY <1>1, <1>2 DEF ToldInv

LEMMA ToldOnce ==
    ASSUME ToldInv, [Next]_vars
    PROVE  [(/\ Sole /\ proc' # "astray"
             /\ reported' # reported \/ (dpc = "scan" /\ dpc' = "remove")) =>
               target' \notin reported /\ scan \in live]_vars
<1> SUFFICES ASSUME Sole, proc' # "astray",
                    reported' # reported \/ (dpc = "scan" /\ dpc' = "remove"), Next
             PROVE  target' \notin reported /\ scan \in live
  BY DEF vars
<1>1. ScanNode /\ scan # NULL
  <2>1. reported' = reported \/ (ScanNode /\ scan # NULL)
    BY DEF Next, Running, Deamon, RemoveCall, RemoveBegin, RemoveHead, RemoveWalk,
           RemoveCompare, RemoveMovesOn, LoadVictim, LoadSuccessor, Unlink, Free, ScanStart,
           ScanNode, ScanAdvance, Add, Allocate, TestEmpty, LinkFirst, LoadHead, TestNext,
           Step, LinkLast, scanVars
  <2>2. dpc = "scan" /\ dpc' = "remove" => ScanNode /\ scan # NULL
    BY DEF Next, Running, Deamon, RemoveCall, RemoveBegin, RemoveHead, RemoveWalk,
           RemoveCompare, RemoveMovesOn, LoadVictim, LoadSuccessor, Unlink, Free, ScanStart,
           ScanNode, ScanAdvance, Add, Allocate, TestEmpty, LinkFirst, LoadHead, TestNext,
           Step, LinkLast, scanVars
  <2> QED
    BY <2>1, <2>2
<1>2. KeepInv /\ proc = "running"
  BY DEF ToldInv, RankedInv, Next, Running
<1>3. PICK ag, rk, h, p : Ranked(ag, rk, h) /\ Settled(p) /\ Told(p, h)
  BY <1>2 DEF ToldInv
<1>4. dpc = "scan" /\ target' \in IdAt(scan) /\ scan \in Cells
  <2>1. dpc = "scan" /\ target' \in IdAt(scan) /\ Fate(scan) # "astray"
    BY <1>1 DEF ScanNode
  <2> QED
    BY <1>1, <1>2, <2>1, HeapTypes DEF Fate, Places, Pointers
<1>5. Fresh(p, h, scan)
  BY <1>3, <1>4 DEF Told, AheadInv
<1>6. scan \in live
  BY <1>2, <1>3, <1>5, HeldTypes DEF Fresh
<1> QED
  BY <1>4, <1>5, <1>6 DEF Fresh, IdAt

(* One application thread and the deamon thread in any interleaving, freed *)
(* memory handed out again, to nodes and to others, while the scan stands  *)
(* on it: until it has gone astray the scan hands no message to timeout_cb *)
(* twice, and none out of memory that is not a node (client_deamon.c:      *)
(* 210-219).                                                               *)
THEOREM ToldOfOnce == Spec => ReportedOnce
<1>1. Spec => []ToldInv
  BY ToldInit, ToldNext, PTL DEF Spec
<1> QED
  BY <1>1, ToldOnce, PTL DEF Spec, ReportedOnce
====
