---------------------------- MODULE Timmer_proof ----------------------------
(***************************************************************************)
(* The first timer process, for any ids, intervals and number of starts:   *)
(* the list holds the running timers and its times add up to when they are *)
(* due, until a forward pointer out of the list is followed.               *)
(***************************************************************************)
EXTENDS Timmer, ModularLemmas

(* The next pointers never lead in a circle, neither from the head nor     *)
(* from a node that left the list: rank goes down along them.              *)
Ranked(nx, rank, top) ==
  /\ nx \in [Nodes -> Pointers]
  /\ top \in Nat /\ rank \in [Pointers -> 0 .. top]
  /\ \A n \in Nodes : rank[nx[n]] < rank[n]

LEMMA NodesType ==
  /\ MaxStarts \in Nat /\ Nodes = 1 .. MaxStarts /\ Pointers = 0 .. MaxStarts
  /\ Null = 0 /\ Null \in Pointers /\ Null \notin Nodes /\ Nodes \subseteq Pointers
  /\ \A n \in Pointers : n # Null => n \in Nodes
BY TimmerAssumption DEF Nodes, Pointers, Null

(* What holds at Null, and at a node if it holds at the next one, holds at *)
(* every pointer.                                                          *)
LEMMA AlongNext ==
  ASSUME NEW nx, NEW rank, NEW top, Ranked(nx, rank, top), NEW G, Null \in G,
         \A n \in Nodes : nx[n] \in G => n \in G
  PROVE  Pointers \subseteq G
<1> DEFINE H == {k \in 0 .. top : \A n \in Pointers : rank[n] <= k => n \in G}
<1>1. top \in Nat /\ \A n \in Pointers : rank[n] \in 0 .. top
  BY DEF Ranked
<1>2. \A n \in Nodes : nx[n] \in Pointers /\ rank[nx[n]] < rank[n]
  BY DEF Ranked
<1>3. 0 \in H
  <2> SUFFICES ASSUME NEW n \in Pointers, rank[n] <= 0 PROVE n \in G
    BY <1>1
  <2>1. n \notin Nodes
    BY <1>1, <1>2, NodesType
  <2> QED
    BY <2>1, NodesType
<1>4. ASSUME NEW k \in 1 .. top, k - 1 \in H PROVE k \in H
  <2>1. ASSUME NEW n \in Pointers, rank[n] <= k PROVE n \in G
    <3>1. CASE n = Null
      BY <3>1
    <3>2. CASE n \in Nodes
      <4>1. nx[n] \in Pointers /\ rank[nx[n]] <= k - 1
        BY <1>1, <1>2, <2>1, <3>2
      <4> QED
        BY <1>4, <4>1, <3>2
    <3> QED
      BY <3>1, <3>2, NodesType
  <2>2. k \in 0 .. top
    BY <1>1
  <2> QED
    BY <2>1, <2>2
<1> HIDE DEF H
<1>5. 0 .. top \subseteq H
  BY <1>1, <1>3, <1>4, UpTo
<1>6. top \in H
  BY <1>1, <1>5
<1> QED
  BY <1>1, <1>6 DEF H

(* The values of a function that is defined along the next pointers. *)
LEMMA WalkExists ==
  ASSUME NEW nx, NEW rank, NEW top, Ranked(nx, rank, top),
         NEW V, NEW last \in V, NEW step \in [Nodes -> [V -> V]]
  PROVE  \E f \in [Pointers -> V] :
           f[Null] = last /\ \A n \in Nodes : f[n] = step[n][f[nx[n]]]
<1> DEFINE Good(k, f) ==
      /\ f \in [Pointers -> V] /\ f[Null] = last
      /\ \A n \in Nodes : rank[n] <= k => f[n] = step[n][f[nx[n]]]
<1> DEFINE G == {k \in 0 .. top : \E f : Good(k, f)}
<1>1. top \in Nat /\ \A n \in Pointers : rank[n] \in 0 .. top
  BY DEF Ranked
<1>2. \A n \in Nodes : /\ nx[n] \in Pointers /\ rank[nx[n]] < rank[n]
                       /\ rank[nx[n]] \in Nat /\ rank[n] \in Nat
  BY <1>1, NodesType DEF Ranked
<1>3. 0 \in G
  <2> DEFINE f == [n \in Pointers |-> last]
  <2>1. Good(0, f)
    BY <1>2, NodesType
  <2> QED
    BY <1>1, <2>1
<1>4. ASSUME NEW k \in 1 .. top, k - 1 \in G PROVE k \in G
  <2>1. PICK f : Good(k - 1, f)
    BY <1>4
  <2> DEFINE g == [n \in Pointers |->
                     IF n \in Nodes /\ rank[n] = k THEN step[n][f[nx[n]]] ELSE f[n]]
  <2>2. f \in [Pointers -> V] /\ f[Null] = last
        /\ \A n \in Nodes : rank[n] <= k - 1 => f[n] = step[n][f[nx[n]]]
    BY <2>1
  <2>3. g \in [Pointers -> V]
    <3>1. \A n \in Nodes : step[n][f[nx[n]]] \in V
      BY <1>2, <2>2
    <3> QED
      BY <2>2, <3>1
  <2>4. g[Null] = last
    BY <2>2, NodesType
  <2>5. ASSUME NEW n \in Nodes, rank[n] <= k PROVE g[n] = step[n][g[nx[n]]]
    <3>1. g[nx[n]] = f[nx[n]]
      BY <1>1, <1>2, <2>5
    <3>2. g[n] = IF rank[n] = k THEN step[n][f[nx[n]]] ELSE f[n]
      BY NodesType
    <3>3. rank[n] # k => rank[n] <= k - 1
      BY <1>2, <2>5
    <3> QED
      BY <2>2, <3>1, <3>2, <3>3
  <2>6. Good(k, g)
    BY <2>3, <2>4, <2>5
  <2>7. k \in 0 .. top
    BY <1>1
  <2> QED
    BY <2>6, <2>7
<1> HIDE DEF G
<1>5. 0 .. top \subseteq G
  BY <1>1, <1>3, <1>4, UpTo
<1>6. top \in G
  BY <1>1, <1>5
<1>7. PICK f : Good(top, f)
  BY <1>6 DEF G
<1> QED
  BY <1>1, <1>7, NodesType
-----------------------------------------------------------------------------
(* Chain for given next pointers, and the nodes from n on. *)
ChainOf(nx) ==
  CHOOSE f : f = [n \in Pointers |-> IF n = Null THEN <<>> ELSE <<n>> \o f[nx[n]]]

From(nx, n) == ToSet(ChainOf(nx)[n])

LEMMA ChainWalks ==
  ASSUME NEW nx, NEW rank, NEW top, Ranked(nx, rank, top)
  PROVE  /\ ChainOf(nx) \in [Pointers -> Seq(Nodes)]
         /\ ChainOf(nx)[Null] = <<>>
         /\ \A n \in Nodes : ChainOf(nx)[n] = <<n>> \o ChainOf(nx)[nx[n]]
<1> DEFINE step == [n \in Nodes |-> [s \in Seq(Nodes) |-> <<n>> \o s]]
           c == ChainOf(nx)
           G == {n \in Pointers : c[n] \in Seq(Nodes)}
<1>1. step \in [Nodes -> [Seq(Nodes) -> Seq(Nodes)]]
  OBVIOUS
<1>2. <<>> \in Seq(Nodes)
  OBVIOUS
<1>3. \A n \in Nodes, s \in Seq(Nodes) : step[n][s] = <<n>> \o s
  OBVIOUS
<1> HIDE DEF step
<1> DEFINE V == Seq(Nodes)
           last == <<>>
<1>11. last \in V /\ step \in [Nodes -> [V -> V]]
  BY <1>1, <1>2
<1> HIDE DEF V, last
<1>12. \E f \in [Pointers -> V] :
         f[Null] = last /\ \A n \in Nodes : f[n] = step[n][f[nx[n]]]
  BY <1>11, WalkExists
<1>4. PICK f \in [Pointers -> Seq(Nodes)] :
        f[Null] = <<>> /\ \A n \in Nodes : f[n] = step[n][f[nx[n]]]
  BY <1>12 DEF V, last
<1>5. \A n \in Nodes : nx[n] \in Pointers
  BY DEF Ranked
<1>6. f = [n \in Pointers |-> IF n = Null THEN <<>> ELSE <<n>> \o f[nx[n]]]
  <2>1. \A n \in Nodes : f[n] = <<n>> \o f[nx[n]]
    BY <1>3, <1>4, <1>5
  <2>2. \A n \in Pointers : f[n] = IF n = Null THEN <<>> ELSE <<n>> \o f[nx[n]]
    BY <1>4, <2>1, NodesType
  <2> QED
    BY <2>2
<1>7. c = [n \in Pointers |-> IF n = Null THEN <<>> ELSE <<n>> \o c[nx[n]]]
  BY <1>6 DEF ChainOf
<1> HIDE DEF c
<1>8. c[Null] = <<>> /\ \A n \in Nodes : c[n] = <<n>> \o c[nx[n]]
  BY <1>7, NodesType
<1>9. Pointers \subseteq G
  <2>1. Null \in G
    BY <1>2, <1>8, NodesType
  <2>2. ASSUME NEW n \in Nodes, nx[n] \in G PROVE n \in G
    <3>1. c[nx[n]] \in Seq(Nodes) /\ c[n] = <<n>> \o c[nx[n]]
      BY <1>8, <2>2
    <3>2. \A s \in Seq(Nodes) : <<n>> \o s \in Seq(Nodes)
      OBVIOUS
    <3>3. c[n] \in Seq(Nodes)
      BY <3>1, <3>2
    <3> QED
      BY <3>3, NodesType
  <2> HIDE DEF G
  <2> QED
    BY <2>1, <2>2, AlongNext
<1>10. c \in [Pointers -> Seq(Nodes)]
  BY <1>7, <1>9
<1> QED
  BY <1>8, <1>10 DEF c

LEMMA Goes ==
  ASSUME NEW nx, NEW rank, NEW top, Ranked(nx, rank, top)
  PROVE  /\ From(nx, Null) = {}
         /\ \A n \in Nodes : From(nx, n) = {n} \cup From(nx, nx[n])
<1> DEFINE c == ChainOf(nx)
<1>1. c \in [Pointers -> Seq(Nodes)] /\ c[Null] = <<>>
      /\ \A n \in Nodes : c[n] = <<n>> \o c[nx[n]]
  BY ChainWalks
<1> HIDE DEF c
<1>2. ToSet(c[Null]) = {}
  BY <1>1 DEF ToSet
<1>3. ASSUME NEW n \in Nodes PROVE ToSet(c[n]) = {n} \cup ToSet(c[nx[n]])
  <2> DEFINE s == c[nx[n]]
             t == <<n>> \o s
  <2>1. nx[n] \in Pointers
    BY DEF Ranked
  <2>2. s \in Seq(Nodes) /\ c[n] = t
    BY <1>1, <2>1
  <2> HIDE DEF s
  <2>3. Len(s) \in Nat /\ Len(t) = 1 + Len(s) /\ t[1] = n
        /\ \A k \in 1 .. Len(s) : t[k + 1] = s[k]
    BY <2>2
  <2>9. t \in Seq(Nodes)
    BY <2>2
  <2>10. DOMAIN t = 1 .. Len(s) + 1 /\ DOMAIN s = 1 .. Len(s)
    BY <2>2, <2>3, <2>9
  <2>4. ToSet(t) = {t[k] : k \in 1 .. Len(s) + 1}
        /\ ToSet(s) = {s[k] : k \in 1 .. Len(s)}
    BY <2>10 DEF ToSet
  <2> HIDE DEF t
  <2>5. \A k \in 1 .. Len(s) + 1 : k = 1 \/ (k - 1 \in 1 .. Len(s) /\ t[k] = s[k - 1])
    BY <2>3
  <2>6. \A k \in 1 .. Len(s) : k + 1 \in 1 .. Len(s) + 1 /\ s[k] = t[k + 1]
    BY <2>3
  <2>7. 1 \in 1 .. Len(s) + 1
    BY <2>3
  <2>8. ToSet(t) = {n} \cup ToSet(s)
    BY <2>3, <2>4, <2>5, <2>6, <2>7
  <2> QED
    BY <2>2, <2>8 DEF s
<1> QED
  BY <1>2, <1>3 DEF From, c

(* Every node after n is of smaller rank. *)
LEMMA Below ==
  ASSUME NEW nx, NEW rank, NEW top, Ranked(nx, rank, top)
  PROVE  \A n \in Pointers :
           /\ From(nx, n) \subseteq Nodes
           /\ \A m \in From(nx, n) : m = n \/ rank[m] < rank[n]
<1> DEFINE G == {n \in Pointers :
                   /\ From(nx, n) \subseteq Nodes
                   /\ \A m \in From(nx, n) : m = n \/ rank[m] < rank[n]}
<1>1. Null \in G
  BY Goes, NodesType
<1>2. ASSUME NEW n \in Nodes, nx[n] \in G PROVE n \in G
  <2>1. From(nx, n) = {n} \cup From(nx, nx[n])
    BY Goes
  <2>2. /\ \A m \in Pointers : rank[m] \in Nat
        /\ nx[n] \in Pointers /\ rank[nx[n]] < rank[n]
    BY DEF Ranked
  <2>3. From(nx, nx[n]) \subseteq Nodes
        /\ \A m \in From(nx, nx[n]) : m = nx[n] \/ rank[m] < rank[nx[n]]
    BY <1>2
  <2>4. \A m \in From(nx, nx[n]) : rank[m] < rank[n]
    BY <2>2, <2>3, NodesType
  <2> QED
    BY <2>1, <2>3, <2>4, NodesType
<1> HIDE DEF G
<1>3. Pointers \subseteq G
  BY <1>1, <1>2, AlongNext
<1> QED
  BY <1>3 DEF G

LEMMA NotBack ==
  ASSUME NEW nx, NEW rank, NEW top, Ranked(nx, rank, top), NEW n \in Nodes
  PROVE  /\ n \notin From(nx, nx[n])
         /\ \A m \in From(nx, nx[n]) : nx[m] # n /\ nx[m] # nx[n]
<1>1. /\ \A m \in Pointers : rank[m] \in Nat
      /\ \A m \in Nodes : nx[m] \in Pointers /\ rank[nx[m]] < rank[m]
  BY DEF Ranked
<1>2. \A m \in From(nx, nx[n]) : m \in Nodes /\ (m = nx[n] \/ rank[m] < rank[nx[n]])
  BY <1>1, Below
<1>3. \A m \in From(nx, nx[n]) : /\ m \in Nodes
                                 /\ rank[m] < rank[n] /\ rank[nx[m]] < rank[nx[n]]
  <2> SUFFICES ASSUME NEW m \in From(nx, nx[n])
               PROVE  m \in Nodes /\ rank[m] < rank[n] /\ rank[nx[m]] < rank[nx[n]]
    OBVIOUS
  <2>1. m \in Nodes /\ (m = nx[n] \/ rank[m] < rank[nx[n]])
    BY <1>2
  <2>2. /\ rank[nx[n]] < rank[n] /\ rank[nx[m]] < rank[m]
        /\ m \in Pointers /\ nx[m] \in Pointers /\ nx[n] \in Pointers /\ n \in Pointers
    BY <1>1, <2>1, NodesType
  <2>3. /\ rank[m] \in Nat /\ rank[n] \in Nat
        /\ rank[nx[m]] \in Nat /\ rank[nx[n]] \in Nat
    BY <1>1, <2>2
  <2> QED
    BY <2>1, <2>2, <2>3
<1>4. rank[n] \in Nat /\ rank[nx[n]] \in Nat /\ rank[nx[n]] < rank[n]
  BY <1>1, NodesType
<1>5. n \notin From(nx, nx[n])
  BY <1>3, <1>4
<1>6. ASSUME NEW m \in From(nx, nx[n]) PROVE nx[m] # n /\ nx[m] # nx[n]
  <2>1. rank[nx[m]] < rank[nx[n]]
    BY <1>3
  <2> QED
    BY <1>4, <2>1
<1> QED
  BY <1>5, <1>6

(* What is reached from a node reached is reached. *)
LEMMA Onward ==
  ASSUME NEW nx, NEW rank, NEW top, Ranked(nx, rank, top)
  PROVE  \A n \in Pointers : \A m \in From(nx, n) :
           /\ From(nx, m) \subseteq From(nx, n)
           /\ nx[m] # Null => nx[m] \in From(nx, n)
<1> DEFINE G == {n \in Pointers : \A m \in From(nx, n) :
                   /\ From(nx, m) \subseteq From(nx, n)
                   /\ nx[m] # Null => nx[m] \in From(nx, n)}
<1>1. Null \in G
  BY Goes, NodesType
<1>2. ASSUME NEW n \in Nodes, nx[n] \in G PROVE n \in G
  <2>1. From(nx, n) = {n} \cup From(nx, nx[n])
    BY Goes
  <2>2. nx[n] \in Nodes => nx[n] \in From(nx, nx[n])
    BY Goes
  <2>3. nx[n] \in Pointers
    BY DEF Ranked
  <2> QED
    BY <1>2, <2>1, <2>2, <2>3, NodesType
<1> HIDE DEF G
<1>3. Pointers \subseteq G
  BY <1>1, <1>2, AlongNext
<1> QED
  BY <1>3 DEF G

(* Each element of the chain but the first is the next of the one before. *)
LEMMA ChainSteps ==
  ASSUME NEW nx, NEW rank, NEW top, Ranked(nx, rank, top)
  PROVE  \A n \in Pointers : \A k \in 1 .. Len(ChainOf(nx)[n]) :
           /\ ChainOf(nx)[n][k] \in From(nx, n)
           /\ k = 1 => ChainOf(nx)[n][k] = n
           /\ k # 1 => /\ ChainOf(nx)[n][k - 1] \in From(nx, n)
                       /\ nx[ChainOf(nx)[n][k - 1]] = ChainOf(nx)[n][k]
<1> DEFINE c == ChainOf(nx)
           Steps(n) == \A k \in 1 .. Len(c[n]) :
                         /\ k = 1 => c[n][k] = n
                         /\ k # 1 => nx[c[n][k - 1]] = c[n][k]
           G == {n \in Pointers : Steps(n)}
<1>1. c \in [Pointers -> Seq(Nodes)] /\ c[Null] = <<>>
      /\ \A n \in Nodes : c[n] = <<n>> \o c[nx[n]]
  BY ChainWalks
<1> HIDE DEF c
<1>2. Null \in G
  BY <1>1, NodesType
<1>3. ASSUME NEW n \in Nodes, nx[n] \in G PROVE n \in G
  <2> DEFINE s == c[nx[n]]
             t == <<n>> \o s
  <2>1. nx[n] \in Pointers /\ Steps(nx[n])
    BY <1>3
  <2>2. s \in Seq(Nodes) /\ c[n] = t
    BY <1>1, <2>1
  <2>3. \A k \in 1 .. Len(s) : (k = 1 => s[k] = nx[n]) /\ (k # 1 => nx[s[k - 1]] = s[k])
    BY <2>1
  <2> HIDE DEF s
  <2>4. Len(s) \in Nat /\ Len(t) = 1 + Len(s) /\ t[1] = n
        /\ \A k \in 1 .. Len(s) : t[k + 1] = s[k]
    BY <2>2
  <2> HIDE DEF t
  <2>5. ASSUME NEW k \in 1 .. Len(t), k # 1 PROVE nx[t[k - 1]] = t[k]
    <3>1. k - 1 \in 1 .. Len(s) /\ t[k] = s[k - 1]
      BY <2>4, <2>5
    <3>2. CASE k = 2
      BY <2>3, <2>4, <3>1, <3>2
    <3>3. CASE k # 2
      <4>1. k - 2 \in 1 .. Len(s) /\ t[k - 1] = s[k - 2]
        BY <2>4, <2>5, <3>3
      <4>2. nx[s[k - 1 - 1]] = s[k - 1]
        BY <2>3, <3>1, <3>3, <2>4
      <4> QED
        BY <3>1, <4>1, <4>2, <2>4
    <3> QED
      BY <3>2, <3>3
  <2>6. Steps(n)
    BY <2>2, <2>4, <2>5
  <2> QED
    BY <2>6, NodesType
<1> HIDE DEF G
<1>4. Pointers \subseteq G
  BY <1>2, <1>3, AlongNext
<1>5. ASSUME NEW n \in Pointers, NEW k \in 1 .. Len(c[n])
      PROVE  /\ c[n][k] \in ToSet(c[n])
             /\ k # 1 => c[n][k - 1] \in ToSet(c[n])
  <2>1. c[n] \in Seq(Nodes)
    BY <1>1
  <2> QED
    BY <2>1 DEF ToSet
<1> QED
  BY <1>4, <1>5 DEF G, From, c
-----------------------------------------------------------------------------
(* A fresh node is put in before s: what led to s may lead to it. *)
PutIn(nx, nx2, new, s) ==
  /\ new \in Nodes /\ \A n \in Nodes : nx[n] # new
  /\ s \in Pointers /\ s # new
  /\ nx2 \in [Nodes -> Pointers] /\ nx2[new] = s
  /\ \A n \in Nodes \ {new} : nx2[n] = nx[n] \/ (nx[n] = s /\ nx2[n] = new)

LEMMA PutInRanked ==
  ASSUME NEW nx, NEW rank, NEW top, Ranked(nx, rank, top),
         NEW nx2, NEW new, NEW s, PutIn(nx, nx2, new, s)
  PROVE  \E rank2, top2 : Ranked(nx2, rank2, top2)
<1> DEFINE rank2 == [n \in Pointers |-> IF n = new THEN 2 * rank[s] + 1
                                                   ELSE 2 * rank[n]]
<1>1. /\ top \in Nat /\ \A n \in Pointers : rank[n] \in 0 .. top
      /\ \A n \in Nodes : nx[n] \in Pointers /\ rank[nx[n]] < rank[n]
  BY DEF Ranked
<1>2. 2 * top + 1 \in Nat /\ rank2 \in [Pointers -> 0 .. 2 * top + 1]
  BY <1>1 DEF PutIn
<1>3. ASSUME NEW n \in Nodes PROVE rank2[nx2[n]] < rank2[n]
  <2>1. CASE n = new
    <3>1. rank2[nx2[n]] = 2 * rank[s] /\ rank2[n] = 2 * rank[s] + 1
      BY <2>1, NodesType DEF PutIn
    <3> QED
      BY <1>1, <3>1 DEF PutIn
  <2>2. CASE n # new /\ nx2[n] = nx[n]
    <3>1. rank2[nx2[n]] = 2 * rank[nx[n]] /\ rank2[n] = 2 * rank[n]
      BY <1>1, <2>2, NodesType DEF PutIn
    <3> QED
      BY <1>1, <3>1, NodesType
  <2>3. CASE n # new /\ nx[n] = s /\ nx2[n] = new
    <3>1. rank2[nx2[n]] = 2 * rank[nx[n]] + 1 /\ rank2[n] = 2 * rank[n]
      BY <1>1, <2>3, NodesType DEF PutIn
    <3> QED
      BY <1>1, <3>1, NodesType
  <2> QED
    BY <2>1, <2>2, <2>3 DEF PutIn
<1> QED
  BY <1>2, <1>3 DEF Ranked, PutIn

LEMMA PutInFrom ==
  ASSUME NEW nx, NEW rank, NEW top, Ranked(nx, rank, top),
         NEW nx2, NEW new, NEW s, PutIn(nx, nx2, new, s),
         NEW n \in Pointers \ {new}
  PROVE  /\ From(nx, n) \subseteq From(nx2, n)
         /\ From(nx2, n) \subseteq From(nx, n) \cup {new}
         /\ \A q \in From(nx, n) : nx2[q] = new => new \in From(nx2, n)
<1>1. PICK rank2, top2 : Ranked(nx2, rank2, top2)
  BY PutInRanked
<1> DEFINE G == {m \in Pointers : m # new =>
                   /\ From(nx, m) \subseteq From(nx2, m)
                   /\ From(nx2, m) \subseteq From(nx, m) \cup {new}}
<1>2. Null \in G
  BY <1>1, Goes, NodesType
<1>3. ASSUME NEW m \in Nodes, nx[m] \in G PROVE m \in G
  <2> SUFFICES ASSUME m # new
               PROVE  /\ From(nx, m) \subseteq From(nx2, m)
                      /\ From(nx2, m) \subseteq From(nx, m) \cup {new}
    BY NodesType
  <2>1. nx[m] # new
    BY DEF PutIn
  <2>2. /\ From(nx, nx[m]) \subseteq From(nx2, nx[m])
        /\ From(nx2, nx[m]) \subseteq From(nx, nx[m]) \cup {new}
    BY <1>3, <2>1
  <2>3. From(nx, m) = {m} \cup From(nx, nx[m])
    BY Goes
  <2>4. From(nx2, m) = {m} \cup From(nx2, nx2[m])
    BY <1>1, Goes
  <2>5. From(nx2, new) = {new} \cup From(nx2, s)
    BY <1>1, Goes DEF PutIn
  <2>6. nx2[m] = nx[m] \/ (nx[m] = s /\ nx2[m] = new)
    BY DEF PutIn
  <2> QED
    BY <2>2, <2>3, <2>4, <2>5, <2>6
<1> HIDE DEF G
<1>4. Pointers \subseteq G
  BY <1>2, <1>3, AlongNext
<1>5. /\ From(nx, n) \subseteq From(nx2, n)
      /\ From(nx2, n) \subseteq From(nx, n) \cup {new}
  BY <1>4 DEF G
<1>6. ASSUME NEW q \in From(nx, n), nx2[q] = new PROVE new \in From(nx2, n)
  <2>1. q \in From(nx2, n) /\ n \in Pointers /\ new # Null
    BY <1>5, NodesType DEF PutIn
  <2> QED
    BY <1>1, <1>6, <2>1, Onward
<1> QED
  BY <1>5, <1>6

(* A node m is taken out by the node p before it, the only one that leads  *)
(* to m from n on.                                                         *)
Bypass(nx, p, m) == [nx EXCEPT ![p] = nx[m]]

OnlyBefore(nx, n, m, p) == \A q \in From(nx, n) : nx[q] = m => q = p

LEMMA TakenOut ==
  ASSUME NEW nx, NEW rank, NEW top, Ranked(nx, rank, top),
         NEW m, m \in Nodes, NEW p, p \in Nodes, nx[p] = m,
         NEW from, from \in Pointers, from # m, OnlyBefore(nx, from, m, p)
  PROVE  /\ Ranked(Bypass(nx, p, m), rank, top)
         /\ From(Bypass(nx, p, m), from) = From(nx, from) \ {m}
<1> DEFINE nx2 == Bypass(nx, p, m)
<1>1. /\ \A n \in Pointers : rank[n] \in Nat
      /\ \A n \in Nodes : nx[n] \in Pointers /\ rank[nx[n]] < rank[n]
      /\ nx \in [Nodes -> Pointers]
  BY DEF Ranked
<1>2. /\ nx2 \in [Nodes -> Pointers] /\ nx2[p] = nx[m]
      /\ \A n \in Nodes : n # p => nx2[n] = nx[n]
  BY <1>1 DEF Bypass
<1> HIDE DEF nx2
<1>3. rank[nx[m]] < rank[p]
  BY <1>1, NodesType
<1>4. Ranked(nx2, rank, top)
  BY <1>1, <1>2, <1>3 DEF Ranked
<1> DEFINE Only(n) == OnlyBefore(nx, n, m, p)
           G == {n \in Pointers : n # m /\ Only(n) => From(nx2, n) = From(nx, n) \ {m}}
<1>5. Null \in G
  BY <1>4, Goes, NodesType
<1>6. ASSUME NEW n \in Nodes, nx[n] \in G PROVE n \in G
  <2> SUFFICES ASSUME n # m, Only(n) PROVE From(nx2, n) = From(nx, n) \ {m}
    BY NodesType
  <2>1. From(nx, n) = {n} \cup From(nx, nx[n])
    BY Goes
  <2>2. From(nx2, n) = {n} \cup From(nx2, nx2[n])
    BY <1>4, Goes
  <2>3. CASE n = p
    <3>1. From(nx, m) = {m} \cup From(nx, nx[m]) /\ m \notin From(nx, nx[m])
      BY Goes, NotBack
    <3>2. ASSUME NEW k \in From(nx, nx[m]) PROVE k # p /\ k \in Nodes
      <4>1. k \in Nodes /\ (k = nx[m] \/ rank[k] < rank[nx[m]])
        BY <1>1, <3>2, Below
      <4> QED
        BY <1>1, <1>3, <4>1, NodesType
    <3>3. From(nx2, nx[m]) = From(nx, nx[m])
      <4> DEFINE H == {k \in Pointers : p \notin From(nx, k) => From(nx2, k) = From(nx, k)}
      <4>1. Null \in H
        BY <1>4, Goes, NodesType
      <4>2. ASSUME NEW k \in Nodes, nx[k] \in H PROVE k \in H
        <5>1. From(nx, k) = {k} \cup From(nx, nx[k])
          BY Goes
        <5>2. From(nx2, k) = {k} \cup From(nx2, nx2[k])
          BY <1>4, Goes
        <5>3. k # p => nx2[k] = nx[k]
          BY <1>2
        <5> QED
          BY <4>2, <5>1, <5>2, <5>3, NodesType
      <4> HIDE DEF H
      <4>3. Pointers \subseteq H
        BY <4>1, <4>2, AlongNext
      <4> QED
        BY <1>1, <3>2, <4>3 DEF H
    <3> QED
      BY <1>2, <2>1, <2>2, <2>3, <3>1, <3>3
  <2>4. CASE n # p
    <3>1. nx[n] # m /\ Only(nx[n])
      BY <2>1, <2>4 DEF OnlyBefore
    <3>2. From(nx2, nx[n]) = From(nx, nx[n]) \ {m}
      BY <1>6, <3>1
    <3> QED
      BY <1>2, <2>1, <2>2, <2>4, <3>2
  <2> QED
    BY <2>3, <2>4
<1> HIDE DEF G
<1>7. Pointers \subseteq G
  BY <1>5, <1>6, AlongNext
<1> QED
  BY <1>4, <1>7 DEF G, nx2
-----------------------------------------------------------------------------
(* Remaining and Place for given next pointers and times. *)
RemainingOf(nx, dl) ==
  CHOOSE f : f = [n \in Pointers |->
                    [elapsed \in Nat |->
                       IF n = Null \/ elapsed < dl[n] THEN <<n, elapsed>>
                       ELSE f[nx[n]][elapsed - dl[n]]]]

PlaceOf(nx, dl) ==
  CHOOSE f : f = [n \in Nodes |->
                    [t \in Nat |->
                       IF t < dl[n] THEN <<"before", n, t>>
                       ELSE IF nx[n] = Null THEN <<"after", n, t - dl[n]>>
                       ELSE f[nx[n]][t - dl[n]]]]

Times(dl) == dl \in [Nodes -> Nat]

LEMMA RemainingWalks ==
  ASSUME NEW nx, NEW rank, NEW top, Ranked(nx, rank, top), NEW dl, Times(dl)
  PROVE  \A e \in Nat :
           /\ RemainingOf(nx, dl)[Null][e] = <<Null, e>>
           /\ \A n \in Nodes : RemainingOf(nx, dl)[n][e] =
                IF e < dl[n] THEN <<n, e>> ELSE RemainingOf(nx, dl)[nx[n]][e - dl[n]]
<1> DEFINE V == [Nat -> Pointers \X Nat]
           last == [e \in Nat |-> <<Null, e>>]
           Over(n, v) == [e \in Nat |-> IF e < dl[n] THEN <<n, e>> ELSE v[e - dl[n]]]
           step == [n \in Nodes |-> [v \in V |-> Over(n, v)]]
           r == RemainingOf(nx, dl)
<1>1. last \in V
  BY NodesType
<1>2. ASSUME NEW n \in Nodes, NEW v \in V PROVE Over(n, v) \in V
  <2>1. \A e \in Nat : ~(e < dl[n]) => e - dl[n] \in Nat
    BY DEF Times
  <2> QED
    BY <2>1, NodesType
<1>3. step \in [Nodes -> [V -> V]]
  BY <1>2
<1>4. \A n \in Nodes, v \in V : step[n][v] = Over(n, v)
  OBVIOUS
<1> HIDE DEF step
<1>5. \E f \in [Pointers -> V] :
        f[Null] = last /\ \A n \in Nodes : f[n] = step[n][f[nx[n]]]
  <2>1. last \in V /\ step \in [Nodes -> [V -> V]]
    BY <1>1, <1>3
  <2> HIDE DEF V, last, Over
  <2> QED
    BY <2>1, WalkExists
<1>6. PICK f \in [Pointers -> V] :
        f[Null] = last /\ \A n \in Nodes : f[n] = Over(n, f[nx[n]])
  <2>1. \A n \in Nodes : nx[n] \in Pointers
    BY DEF Ranked
  <2> HIDE DEF V, last, Over
  <2> QED
    BY <1>4, <1>5, <2>1
<1>7. f = [n \in Pointers |-> [elapsed \in Nat |->
              IF n = Null \/ elapsed < dl[n] THEN <<n, elapsed>>
              ELSE f[nx[n]][elapsed - dl[n]]]]
  <2>1. f[Null] = [elapsed \in Nat |->
              IF Null = Null \/ elapsed < dl[Null] THEN <<Null, elapsed>>
              ELSE f[nx[Null]][elapsed - dl[Null]]]
    BY <1>6
  <2>2. \A n \in Nodes : f[n] = [elapsed \in Nat |->
              IF n = Null \/ elapsed < dl[n] THEN <<n, elapsed>>
              ELSE f[nx[n]][elapsed - dl[n]]]
    BY <1>6, NodesType
  <2> QED
    BY <2>1, <2>2, NodesType
<1>8. r = [n \in Pointers |-> [elapsed \in Nat |->
              IF n = Null \/ elapsed < dl[n] THEN <<n, elapsed>>
              ELSE r[nx[n]][elapsed - dl[n]]]]
  BY <1>7 DEF RemainingOf
<1> HIDE DEF r
<1>9. ASSUME NEW e \in Nat PROVE
        /\ r[Null][e] = <<Null, e>>
        /\ \A n \in Nodes : r[n][e] = IF e < dl[n] THEN <<n, e>> ELSE r[nx[n]][e - dl[n]]
  <2>1. \A n \in Pointers : r[n] = [elapsed \in Nat |->
              IF n = Null \/ elapsed < dl[n] THEN <<n, elapsed>>
              ELSE r[nx[n]][elapsed - dl[n]]]
    BY <1>8
  <2>2. \A n \in Pointers : r[n][e] =
              IF n = Null \/ e < dl[n] THEN <<n, e>> ELSE r[nx[n]][e - dl[n]]
    <3> TAKE n \in Pointers
    <3>1. r[n] = [elapsed \in Nat |->
              IF n = Null \/ elapsed < dl[n] THEN <<n, elapsed>>
              ELSE r[nx[n]][elapsed - dl[n]]]
      BY <2>1
    <3> QED
      BY <3>1, Zenon
  <2> QED
    BY <2>2, NodesType
<1> QED
  BY <1>9 DEF r

LEMMA PlaceWalks ==
  ASSUME NEW nx, NEW rank, NEW top, Ranked(nx, rank, top), NEW dl, Times(dl)
  PROVE  \A t \in Nat, n \in Nodes : PlaceOf(nx, dl)[n][t] =
           IF t < dl[n] THEN <<"before", n, t>>
           ELSE IF nx[n] = Null THEN <<"after", n, t - dl[n]>>
           ELSE PlaceOf(nx, dl)[nx[n]][t - dl[n]]
<1> DEFINE V == [Nat -> {"before", "after"} \X Nodes \X Nat]
           Over(n, v) == [t \in Nat |->
              IF t < dl[n] THEN <<"before", n, t>>
              ELSE IF nx[n] = Null THEN <<"after", n, t - dl[n]>> ELSE v[t - dl[n]]]
           step == [n \in Nodes |-> [v \in V |-> Over(n, v)]]
           p == PlaceOf(nx, dl)
<1> SUFFICES ASSUME NEW n \in Nodes, NEW t \in Nat
             PROVE  p[n][t] = IF t < dl[n] THEN <<"before", n, t>>
                              ELSE IF nx[n] = Null THEN <<"after", n, t - dl[n]>>
                              ELSE p[nx[n]][t - dl[n]]
  OBVIOUS
<1> DEFINE last == [e \in Nat |-> <<"before", n, e>>]
<1>1. last \in V
  OBVIOUS
<1>2. ASSUME NEW m \in Nodes, NEW v \in V PROVE Over(m, v) \in V
  <2>1. \A e \in Nat : ~(e < dl[m]) => e - dl[m] \in Nat
    BY DEF Times
  <2> QED
    BY <2>1
<1>3. step \in [Nodes -> [V -> V]]
  BY <1>2
<1>4. \A m \in Nodes, v \in V : step[m][v] = Over(m, v)
  OBVIOUS
<1> HIDE DEF step
<1>5. \E f \in [Pointers -> V] :
        f[Null] = last /\ \A m \in Nodes : f[m] = step[m][f[nx[m]]]
  <2>1. last \in V /\ step \in [Nodes -> [V -> V]]
    BY <1>1, <1>3
  <2> HIDE DEF V, last, Over
  <2> QED
    BY <2>1, WalkExists
<1>6. PICK f \in [Pointers -> V] : \A m \in Nodes : f[m] = Over(m, f[nx[m]])
  <2>1. \A m \in Nodes : nx[m] \in Pointers
    BY DEF Ranked
  <2> HIDE DEF V, last, Over
  <2> QED
    BY <1>4, <1>5, <2>1
<1> DEFINE g == [m \in Nodes |-> f[m]]
<1>7. g = [m \in Nodes |-> [e \in Nat |->
              IF e < dl[m] THEN <<"before", m, e>>
              ELSE IF nx[m] = Null THEN <<"after", m, e - dl[m]>>
              ELSE g[nx[m]][e - dl[m]]]]
  <2>1. ASSUME NEW m \in Nodes
        PROVE  f[m] = [e \in Nat |->
              IF e < dl[m] THEN <<"before", m, e>>
              ELSE IF nx[m] = Null THEN <<"after", m, e - dl[m]>>
              ELSE g[nx[m]][e - dl[m]]]
    <3>1. nx[m] # Null => nx[m] \in Nodes
      BY NodesType DEF Ranked
    <3>2. nx[m] # Null => f[nx[m]] = g[nx[m]]
      BY <3>1
    <3> HIDE DEF g
    <3> QED
      BY <1>6, <3>2
  <2> QED
    BY <2>1
<1>8. p = [m \in Nodes |-> [e \in Nat |->
              IF e < dl[m] THEN <<"before", m, e>>
              ELSE IF nx[m] = Null THEN <<"after", m, e - dl[m]>>
              ELSE p[nx[m]][e - dl[m]]]]
  <2> HIDE DEF g
  <2> QED
    BY <1>7 DEF PlaceOf
<1> HIDE DEF p
<1> QED
  BY <1>8
(* A node nothing leads to is reached from itself only. *)
LEMMA Apart ==
  ASSUME NEW nx, NEW rank, NEW top, Ranked(nx, rank, top),
         NEW new, \A n \in Nodes : nx[n] # new, NEW n \in Pointers, n # new
  PROVE  new \notin From(nx, n)
<1> DEFINE G == {m \in Pointers : m # new => new \notin From(nx, m)}
<1>1. Null \in G
  BY Goes, NodesType
<1>2. ASSUME NEW m \in Nodes, nx[m] \in G PROVE m \in G
  <2>1. From(nx, m) = {m} \cup From(nx, nx[m])
    BY Goes
  <2> QED
    BY <1>2, <2>1, NodesType
<1> HIDE DEF G
<1>3. Pointers \subseteq G
  BY <1>1, <1>2, AlongNext
<1> QED
  BY <1>3 DEF G

(* From node n on, each timer is due its delta after the one before it. *)
Follows(nx, dl, du, n) ==
  \A m \in From(nx, n) : /\ du[m] \in Int
                         /\ nx[m] # Null => du[nx[m]] = du[m] + dl[nx[m]]

(* Node n is due now - e after its delta, and what the update finds: the   *)
(* first node that elapsed does not use up, due now - left after its own.  *)
LeftOver(nx, dl, du, now, n, r) ==
  /\ r[1] \in From(nx, n) \cup {Null} /\ r[2] \in Nat
  /\ r[1] # Null => r[2] < dl[r[1]] /\ du[r[1]] = now - r[2] + dl[r[1]]

LEMMA RemainingDue ==
  ASSUME NEW nx, NEW rank, NEW top, Ranked(nx, rank, top), NEW dl, Times(dl),
         NEW du, NEW now, now \in Int, NEW from, from \in Pointers,
         NEW elapsed, elapsed \in Nat, Follows(nx, dl, du, from),
         from # Null => du[from] = now - elapsed + dl[from]
  PROVE  LeftOver(nx, dl, du, now, from, RemainingOf(nx, dl)[from][elapsed])
<1> DEFINE R == RemainingOf(nx, dl)
           Meets(n, e) == Follows(nx, dl, du, n) /\ (n # Null => du[n] = now - e + dl[n])
           Gives(n, r) == LeftOver(nx, dl, du, now, n, r)
           G == {n \in Pointers : \A e \in Nat : Meets(n, e) => Gives(n, R[n][e])}
<1>1. \A e \in Nat :
           /\ R[Null][e] = <<Null, e>>
           /\ \A n \in Nodes : R[n][e] = IF e < dl[n] THEN <<n, e>> ELSE R[nx[n]][e - dl[n]]
  BY RemainingWalks
<1> HIDE DEF R
<1>2. Null \in G
  BY <1>1, NodesType DEF LeftOver
<1>3. ASSUME NEW n \in Nodes, nx[n] \in G PROVE n \in G
  <2> SUFFICES ASSUME NEW e \in Nat, Meets(n, e) PROVE Gives(n, R[n][e])
    BY NodesType
  <2>1. From(nx, n) = {n} \cup From(nx, nx[n])
    BY Goes
  <2>2. dl[n] \in Nat
    BY DEF Times
  <2>3. n # Null
    BY NodesType
  <2>4. du[n] = now - e + dl[n] /\ Follows(nx, dl, du, n)
    BY <2>3
  <2>5. CASE e < dl[n]
    <3>1. R[n][e] = <<n, e>>
      BY <1>1, <2>5
    <3> QED
      BY <2>1, <2>4, <2>5, <3>1 DEF LeftOver
  <2>6. CASE ~(e < dl[n])
    <3>5. e - dl[n] \in Nat
      BY <2>2, <2>6
    <3>6. R[n][e] = R[nx[n]][e - dl[n]]
      BY <1>1, <2>6
    <3>1. e - dl[n] \in Nat /\ R[n][e] = R[nx[n]][e - dl[n]]
      BY <3>5, <3>6
    <3>2. Follows(nx, dl, du, nx[n])
      BY <2>1, <2>4 DEF Follows
    <3>3. nx[n] # Null => du[nx[n]] = now - (e - dl[n]) + dl[nx[n]]
      <4> SUFFICES ASSUME nx[n] # Null PROVE du[nx[n]] = now - (e - dl[n]) + dl[nx[n]]
        OBVIOUS
      <4>1. nx[n] \in Nodes /\ dl[nx[n]] \in Nat
        BY <1>3, NodesType DEF Times
      <4>2. du[nx[n]] = du[n] + dl[nx[n]]
        BY <2>1, <2>4 DEF Follows
      <4> QED
        BY <2>2, <2>4, <4>1, <4>2
    <3>4. Gives(nx[n], R[nx[n]][e - dl[n]])
      BY <1>3, <3>1, <3>2, <3>3
    <3> HIDE DEF Meets
    <3> QED
      BY <2>1, <3>1, <3>4 DEF LeftOver
  <2> QED
    BY <2>5, <2>6
<1> HIDE DEF G
<1>4. Pointers \subseteq G
  BY <1>2, <1>3, AlongNext
<1> QED
  BY <1>4 DEF G, R

(* Where a new timer, due at then, goes. *)
GoesTo(nx, dl, du, then, n, p) ==
  /\ p[2] \in From(nx, n) /\ p[3] \in Nat
  /\ \/ /\ p[1] = "before" /\ p[3] < dl[p[2]]
        /\ du[p[2]] = then - p[3] + dl[p[2]]
     \/ p[1] = "after" /\ nx[p[2]] = Null /\ du[p[2]] = then - p[3]

LEMMA PlaceDue ==
  ASSUME NEW nx, NEW rank, NEW top, Ranked(nx, rank, top), NEW dl, Times(dl),
         NEW du, NEW then, then \in Int, NEW from, from \in Nodes,
         NEW length, length \in Nat, Follows(nx, dl, du, from),
         du[from] = then - length + dl[from]
  PROVE  GoesTo(nx, dl, du, then, from, PlaceOf(nx, dl)[from][length])
<1> DEFINE P == PlaceOf(nx, dl)
           Meets(n, t) == Follows(nx, dl, du, n) /\ du[n] = then - t + dl[n]
           Gives(n, p) == GoesTo(nx, dl, du, then, n, p)
           G == {n \in Pointers :
                   n \in Nodes => \A t \in Nat : Meets(n, t) => Gives(n, P[n][t])}
<1>1. \A t \in Nat, n \in Nodes : P[n][t] =
           IF t < dl[n] THEN <<"before", n, t>>
           ELSE IF nx[n] = Null THEN <<"after", n, t - dl[n]>> ELSE P[nx[n]][t - dl[n]]
  <2>1. ASSUME NEW t \in Nat, NEW n \in Nodes
        PROVE  PlaceOf(nx, dl)[n][t] =
           IF t < dl[n] THEN <<"before", n, t>>
           ELSE IF nx[n] = Null THEN <<"after", n, t - dl[n]>>
           ELSE PlaceOf(nx, dl)[nx[n]][t - dl[n]]
    <3> HIDE DEF G, P
    <3> QED
      BY PlaceWalks
  <2> HIDE DEF G
  <2> QED
    BY <2>1 DEF P
<1> HIDE DEF P
<1>2. Null \in G
  BY NodesType
<1>3. ASSUME NEW n \in Nodes, nx[n] \in G PROVE n \in G
  <2> SUFFICES ASSUME NEW t \in Nat, Meets(n, t) PROVE Gives(n, P[n][t])
    BY NodesType
  <2>1. From(nx, n) = {n} \cup From(nx, nx[n])
    BY Goes
  <2>2. dl[n] \in Nat
    BY DEF Times
  <2>4. du[n] = then - t + dl[n] /\ Follows(nx, dl, du, n)
    OBVIOUS
  <2>5. CASE t < dl[n]
    <3>1. P[n][t] = <<"before", n, t>>
      BY <1>1, <2>5
    <3> QED
      BY <2>1, <2>4, <2>5, <3>1 DEF GoesTo
  <2>6. CASE ~(t < dl[n]) /\ nx[n] = Null
    <3>3. t - dl[n] \in Nat
      BY <2>2, <2>6
    <3>4. P[n][t] = <<"after", n, t - dl[n]>>
      BY <1>1, <2>6
    <3>1. t - dl[n] \in Nat /\ P[n][t] = <<"after", n, t - dl[n]>>
      BY <3>3, <3>4
    <3>2. du[n] = then - (t - dl[n])
      BY <2>2, <2>4
    <3> HIDE DEF Meets
    <3> QED
      BY <2>1, <2>6, <3>1, <3>2 DEF GoesTo
  <2>7. CASE ~(t < dl[n]) /\ nx[n] # Null
    <3>7. t - dl[n] \in Nat
      BY <2>2, <2>7
    <3>8. P[n][t] = P[nx[n]][t - dl[n]]
      BY <1>1, <2>7
    <3>1. t - dl[n] \in Nat /\ P[n][t] = P[nx[n]][t - dl[n]]
      BY <3>7, <3>8
    <3>2. Follows(nx, dl, du, nx[n])
      BY <2>1, <2>4 DEF Follows
    <3>3. nx[n] \in Nodes /\ dl[nx[n]] \in Nat
      BY <1>3, <2>7, NodesType DEF Times
    <3>4. du[nx[n]] = du[n] + dl[nx[n]]
      BY <2>1, <2>4, <2>7 DEF Follows
    <3>5. du[nx[n]] = then - (t - dl[n]) + dl[nx[n]]
      BY <2>2, <2>4, <3>3, <3>4
    <3>6. Gives(nx[n], P[nx[n]][t - dl[n]])
      BY <1>3, <3>1, <3>2, <3>3, <3>5
    <3> HIDE DEF Meets
    <3> QED
      BY <2>1, <3>1, <3>6 DEF GoesTo
  <2> QED
    BY <2>5, <2>6, <2>7
<1> HIDE DEF G
<1>4. Pointers \subseteq G
  BY <1>2, <1>3, AlongNext
<1> QED
  BY <1>4, NodesType DEF G, P
-----------------------------------------------------------------------------
(* Nodes that were not made yet are blank, and no pointer leads to one. *)
Linked(nx, fw, mk) ==
  /\ mk \in 0 .. MaxStarts
  /\ nx \in [Nodes -> Pointers] /\ fw \in [Nodes -> Pointers]
  /\ \A n \in Nodes : /\ nx[n] <= mk /\ fw[n] <= mk
                      /\ n > mk => nx[n] = Null /\ fw[n] = Null

(* The list from h on: its nodes are the running timers, no two have the   *)
(* same next, a forward pointer that leads to a node of the list leads to  *)
(* the one before, and the times since the last update add up.             *)
Lists(h, nx, fw, dl, du, since, mk) ==
  /\ \E rank, top : Ranked(nx, rank, top)
  /\ Linked(nx, fw, mk)
  /\ h \in Pointers /\ h <= mk
  /\ Times(dl) /\ since \in Nat
  /\ DOMAIN du = From(nx, h)
  /\ \A p, q \in From(nx, h) : nx[p] = nx[q] /\ nx[p] # Null => p = q
  /\ \A n \in From(nx, h) : fw[n] \in From(nx, h) => nx[fw[n]] = n
  /\ h # Null => du[h] = since + dl[h]
  /\ Follows(nx, dl, du, h)

LEMMA Itself ==
  ASSUME NEW nx, NEW rank, NEW top, Ranked(nx, rank, top), NEW n \in Nodes
  PROVE  n \in From(nx, n) /\ From(nx, nx[n]) \subseteq From(nx, n)
BY Goes

(* Nothing in the list leads to its head. *)
LEMMA HeadIsFirst ==
  ASSUME NEW nx, NEW rank, NEW top, Ranked(nx, rank, top), NEW h \in Pointers
  PROVE  \A m \in From(nx, h) : nx[m] # h
<1>1. CASE h = Null
  BY <1>1, Goes
<1>2. CASE h \in Nodes
  <2> SUFFICES ASSUME NEW m \in From(nx, h), nx[m] = h PROVE FALSE
    OBVIOUS
  <2>1. /\ \A n \in Pointers : rank[n] \in Nat
        /\ \A n \in Nodes : nx[n] \in Pointers /\ rank[nx[n]] < rank[n]
    BY DEF Ranked
  <2>2. m \in Nodes /\ (m = h \/ rank[m] < rank[h])
    BY Below
  <2> QED
    BY <2>1, <2>2, NodesType
<1> QED
  BY <1>1, <1>2, NodesType

(* Every node of the list but its head has one before it. *)
LEMMA Predecessor ==
  ASSUME NEW nx, NEW rank, NEW top, Ranked(nx, rank, top)
  PROVE  \A h \in Pointers : \A n \in From(nx, h) : n # h => \E p \in From(nx, h) : nx[p] = n
<1> DEFINE G == {h \in Pointers : \A n \in From(nx, h) :
                   n # h => \E p \in From(nx, h) : nx[p] = n}
<1>1. Null \in G
  BY Goes, NodesType
<1>2. ASSUME NEW h \in Nodes, nx[h] \in G PROVE h \in G
  <2>1. From(nx, h) = {h} \cup From(nx, nx[h])
    BY Goes
  <2> QED
    BY <1>2, <2>1, NodesType
<1> HIDE DEF G
<1>3. Pointers \subseteq G
  BY <1>1, <1>2, AlongNext
<1> QED
  BY <1>3 DEF G

(* An update takes the expired timers off the list. *)
Spent(since, now) == IF since = 0 THEN 0 ELSE now - since

Lessened(dl, r) == IF r[1] = Null THEN dl ELSE [dl EXCEPT ![r[1]] = @ - r[2]]

Still(du, nx, h, f) == [n \in DOMAIN du \ (From(nx, h) \ From(nx, f)) |-> du[n]]

LEMMA UpdateLists ==
  ASSUME NEW h, NEW nx, NEW fw, NEW dl, NEW du, NEW since, NEW mk,
         Lists(h, nx, fw, dl, du, since, mk),
         NEW now, now \in Nat, since <= now, since = 0 => h = Null,
         NEW r, r = RemainingOf(nx, dl)[h][Spent(since, now)]
  PROVE  Lists(r[1], nx, fw, Lessened(dl, r), Still(du, nx, h, r[1]), now, mk)
<1> DEFINE e == Spent(since, now)
           u == Lessened(dl, r)
           gone == From(nx, h) \ From(nx, r[1])
           d == Still(du, nx, h, r[1])
<1> DEFINE f == r[1]
<1>1. PICK rank, top : Ranked(nx, rank, top)
  BY DEF Lists
<1>2. /\ Linked(nx, fw, mk) /\ h \in Pointers /\ h <= mk /\ since \in Nat
      /\ DOMAIN du = From(nx, h) /\ Follows(nx, dl, du, h)
      /\ h # Null => du[h] = since + dl[h]
  BY DEF Lists
<1>3. Times(dl) /\ \A n \in Nodes : dl[n] \in Nat
  BY DEF Lists, Times
<1>4. e \in Nat /\ (h # Null => du[h] = now - e + dl[h])
  <2>1. CASE since = 0
    BY <2>1 DEF Spent
  <2>2. CASE since # 0
    <3>1. e = now - since /\ e \in Nat
      BY <1>2, <2>2 DEF Spent
    <3>2. now - e = since
      BY <1>2, <3>1
    <3> QED
      BY <1>2, <3>1, <3>2
  <2> QED
    BY <2>1, <2>2
<1>5. now \in Int
  OBVIOUS
<1>6. /\ f \in From(nx, h) \cup {Null} /\ r[2] \in Nat
      /\ f # Null => r[2] < dl[f] /\ du[f] = now - r[2] + dl[f]
  <2>1. LeftOver(nx, dl, du, now, h, RemainingOf(nx, dl)[h][e])
    BY <1>1, <1>2, <1>3, <1>4, <1>5, RemainingDue
  <2> QED
    BY <2>1 DEF LeftOver
<1>7. /\ From(nx, h) \subseteq Nodes
      /\ \A m \in From(nx, h) : From(nx, m) \subseteq From(nx, h)
  BY <1>1, <1>2, Below, Onward
<1>8. From(nx, f) \subseteq From(nx, h) /\ f \in Pointers
  BY <1>1, <1>6, <1>7, Goes, NodesType
<1>9. DOMAIN d = From(nx, f) /\ \A n \in From(nx, f) : d[n] = du[n]
  BY <1>2, <1>8 DEF Still
<1>10. nx \in [Nodes -> Pointers] /\ \A n \in Nodes : nx[n] <= mk
  BY <1>2 DEF Linked
<1>11. f <= mk
  <2>1. CASE f = Null
    BY <2>1, <1>2, NodesType DEF Linked
  <2>2. CASE f = h
    BY <2>2, <1>2
  <2>3. CASE f \in From(nx, h) /\ f # h
    <3>1. PICK p \in From(nx, h) : nx[p] = f
      BY <1>1, <1>2, <2>3, Predecessor
    <3> QED
      BY <1>7, <1>10, <3>1
  <2> QED
    BY <1>6, <2>1, <2>2, <2>3
<1>12. /\ u \in [Nodes -> Nat]
       /\ f # Null => u[f] = dl[f] - r[2]
       /\ \A n \in Nodes : n # f => u[n] = dl[n]
  <2>1. CASE f = Null
    BY <1>3, <2>1 DEF Times, Lessened
  <2>2. CASE f # Null
    <3>1. f \in Nodes /\ dl[f] - r[2] \in Nat
      BY <1>3, <1>6, <1>7, <2>2
    <3>2. u = [dl EXCEPT ![f] = dl[f] - r[2]]
      BY <2>2 DEF Lessened
    <3> HIDE DEF f
    <3> QED
      BY <1>3, <2>2, <3>1, <3>2 DEF Times
  <2> QED
    BY <2>1, <2>2
<1>13. f # Null => d[f] = now + u[f]
  <2> SUFFICES ASSUME f # Null PROVE d[f] = now + u[f]
    OBVIOUS
  <2>1. f \in Nodes /\ f \in From(nx, f)
    BY <1>1, <1>6, <1>7, Itself
  <2>2. d[f] = now - r[2] + dl[f] /\ dl[f] \in Nat /\ u[f] = dl[f] - r[2]
    BY <1>3, <1>6, <1>9, <1>12, <2>1
  <2> HIDE DEF f
  <2> QED
    BY <1>6, <2>2
<1>14. Follows(nx, u, d, f)
  <2> SUFFICES ASSUME NEW m \in From(nx, f)
               PROVE  d[m] \in Int /\ (nx[m] # Null => d[nx[m]] = d[m] + u[nx[m]])
    BY DEF Follows
  <2>1. d[m] = du[m] /\ du[m] \in Int /\ (nx[m] # Null => du[nx[m]] = du[m] + dl[nx[m]])
    BY <1>2, <1>8, <1>9 DEF Follows
  <2>2. nx[m] # f /\ (nx[m] # Null => nx[m] \in From(nx, f))
    BY <1>1, <1>8, HeadIsFirst, Onward
  <2>3. nx[m] # Null => nx[m] \in Nodes
    BY <1>7, <1>8, <2>2
  <2> HIDE DEF f
  <2> QED
    BY <1>9, <1>12, <2>1, <2>2, <2>3
<1>15. /\ \A p, q \in From(nx, f) : nx[p] = nx[q] /\ nx[p] # Null => p = q
       /\ \A n \in From(nx, f) : fw[n] \in From(nx, f) => nx[fw[n]] = n
  BY <1>8 DEF Lists
<1> HIDE DEF f
<1>16. Lists(f, nx, fw, u, d, now, mk)
  BY <1>1, <1>2, <1>8, <1>9, <1>11, <1>12, <1>13, <1>14, <1>15 DEF Lists, Times
<1> QED
  BY <1>16 DEF f
(* A new timer of length t goes before s and after p, before all others    *)
(* when p is Null.                                                         *)
Added(nx, fw, dl, new, p, s, t, nx2, fw2, dl2) ==
  /\ nx2 \in [Nodes -> Pointers] /\ fw2 \in [Nodes -> Pointers] /\ dl2 \in [Nodes -> Int]
  /\ \A n \in Nodes :
       /\ nx2[n] = IF n = new THEN s ELSE IF n = p THEN new ELSE nx[n]
       /\ fw2[n] = IF n = new THEN p ELSE IF n = s THEN new ELSE fw[n]
       /\ dl2[n] = IF n = new THEN t ELSE IF n = s THEN dl[n] - t ELSE dl[n]

LEMMA AddLists ==
  ASSUME NEW h, NEW nx, NEW fw, NEW dl, NEW du, NEW now, NEW mk,
         Lists(h, nx, fw, dl, du, now, mk),
         NEW new, new = mk + 1, new <= MaxStarts,
         NEW s \in Pointers, NEW p \in Pointers,
         \/ p = Null /\ s = h
         \/ p \in From(nx, h) /\ nx[p] = s,
         NEW t \in Nat, s # Null => t <= dl[s],
         NEW nx2, NEW fw2, NEW dl2, Added(nx, fw, dl, new, p, s, t, nx2, fw2, dl2),
         NEW d, d = [n \in DOMAIN du \cup {new} |->
                       IF n = new THEN t + (IF p = Null THEN now ELSE du[p]) ELSE du[n]],
         NEW g, g = IF p = Null THEN new ELSE h
  PROVE  Lists(g, nx2, fw2, dl2, d, now, new)
<1> DEFINE c == t + (IF p = Null THEN now ELSE du[p])
<1>1. PICK rank, top : Ranked(nx, rank, top)
  BY DEF Lists
<1>2. /\ h \in Pointers /\ h <= mk /\ now \in Nat /\ DOMAIN du = From(nx, h)
      /\ h # Null => du[h] = now + dl[h]
  BY DEF Lists
<1>3. /\ mk \in Nat /\ nx \in [Nodes -> Pointers] /\ fw \in [Nodes -> Pointers]
      /\ \A n \in Nodes : /\ nx[n] <= mk /\ fw[n] <= mk
                          /\ n > mk => nx[n] = Null /\ fw[n] = Null
  BY NodesType DEF Lists, Linked
<1>4. new \in Nodes /\ new \in Pointers /\ new # Null /\ new \in Nat /\ ~(new <= mk)
  BY <1>3, NodesType
<1>5. \A n \in Nodes : dl[n] \in Nat
  BY DEF Lists, Times
<1>6. \A n \in Nodes : nx[n] # new /\ fw[n] # new /\ h # new
  BY <1>2, <1>3, <1>4
<1> DEFINE D == From(nx, h)
<1>7. D \subseteq Nodes /\ new \notin D
  BY <1>1, <1>2, <1>6, Below, Apart
<1>8. s # new /\ p # new /\ s <= mk
  <2>1. CASE p = Null /\ s = h
    BY <1>2, <1>4, <1>6, <2>1
  <2>2. CASE p \in D /\ nx[p] = s
    BY <1>3, <1>6, <1>7, <2>2
  <2> QED
    BY <2>1, <2>2
<1>9. s # Null => s \in D
  BY <1>1, <1>2, Itself, Onward, NodesType
<1>10. p # Null => p \in D /\ p \in Nodes /\ nx[p] = s
  BY <1>7, <1>2, NodesType
<1>11. /\ nx2 \in [Nodes -> Pointers] /\ fw2 \in [Nodes -> Pointers]
       /\ nx2[new] = s /\ (p # Null => nx2[p] = new)
       /\ \A n \in Nodes : n # new /\ n # p => nx2[n] = nx[n]
  BY <1>4, <1>8, <1>10 DEF Added
<1>12. PutIn(nx, nx2, new, s)
  <2>1. \A n \in Nodes \ {new} : nx2[n] = nx[n] \/ (nx[n] = s /\ nx2[n] = new)
    BY <1>10, <1>11, NodesType
  <2> QED
    BY <1>4, <1>6, <1>8, <1>11, <2>1 DEF PutIn
<1>13. PICK rank2, top2 : Ranked(nx2, rank2, top2)
  BY <1>1, <1>12, PutInRanked
<1>14. From(nx2, g) = D \cup {new}
  <2>1. /\ D \subseteq From(nx2, h) /\ From(nx2, h) \subseteq D \cup {new}
        /\ \A q \in D : nx2[q] = new => new \in From(nx2, h)
    <3>1. h \in Pointers \ {new}
      BY <1>2, <1>4, <1>6
    <3> QED
      BY <1>1, <1>12, <3>1, PutInFrom
  <2>2. CASE p = Null
    <3>2. nx2[new] = h
      BY <1>7, <1>11, <2>2, NodesType
    <3>1. From(nx2, new) = {new} \cup From(nx2, h)
      BY <1>4, <1>13, <3>2, Goes
    <3> QED
      BY <2>1, <2>2, <3>1
  <2>3. CASE p # Null
    BY <1>10, <1>11, <2>1, <2>3
  <2> QED
    BY <2>2, <2>3
<1>15. Linked(nx2, fw2, new)
  <2>1. new \in 0 .. MaxStarts
    BY <1>4, NodesType
  <2>2. ASSUME NEW n \in Nodes
        PROVE  /\ nx2[n] <= new /\ fw2[n] <= new
               /\ n > new => nx2[n] = Null /\ fw2[n] = Null
    <3>1. /\ nx2[n] = IF n = new THEN s ELSE IF n = p THEN new ELSE nx[n]
          /\ fw2[n] = IF n = new THEN p ELSE IF n = s THEN new ELSE fw[n]
      BY DEF Added
    <3>2. p <= mk
      <4>1. CASE p = Null
        BY <4>1, <1>3, NodesType
      <4>2. CASE p # Null
        <5>1. p = h \/ \E q \in D : nx[q] = p
          BY <1>1, <1>2, <1>10, <4>2, Predecessor
        <5> QED
          BY <1>2, <1>3, <1>7, <5>1
      <4> QED
        BY <4>1, <4>2
    <3>3. nx[n] \in Nat /\ fw[n] \in Nat /\ s \in Nat /\ p \in Nat /\ n \in Nat
      BY <1>3, NodesType
    <3>4. nx2[n] <= new /\ fw2[n] <= new
      BY <1>3, <1>4, <1>8, <3>1, <3>2, <3>3
    <3>5. n > new => n > mk /\ n # new /\ n # p /\ n # s
      BY <1>3, <1>4, <1>8, <3>2, <3>3
    <3> QED
      BY <1>3, <3>1, <3>4, <3>5
  <2> QED
    BY <1>11, <2>1, <2>2 DEF Linked
<1>16. dl2 \in [Nodes -> Nat]
  <2>1. ASSUME NEW n \in Nodes PROVE dl2[n] \in Nat
    <3>1. dl2[n] = IF n = new THEN t ELSE IF n = s THEN dl[n] - t ELSE dl[n]
      BY DEF Added
    <3>2. n = s => dl[n] - t \in Nat
      BY <1>5, NodesType
    <3> QED
      BY <1>5, <3>1, <3>2
  <2> QED
    BY <2>1 DEF Added
<1>17. DOMAIN d = D \cup {new} /\ d[new] = c /\ \A n \in D : d[n] = du[n]
  BY <1>2, <1>7
<1>18. g \in Pointers /\ g <= new
  BY <1>2, <1>3, <1>4, NodesType
<1>19. /\ \A n \in D : du[n] \in Int /\ (nx[n] # Null => du[nx[n]] = du[n] + dl[nx[n]])
       /\ \A n, q \in D : nx[n] = nx[q] /\ nx[n] # Null => n = q
       /\ \A n \in D : fw[n] \in D => nx[fw[n]] = n
  BY DEF Lists, Follows
<1>20. /\ dl2[new] = t /\ (s # Null => dl2[s] = dl[s] - t)
       /\ \A n \in Nodes : n # new /\ n # s => dl2[n] = dl[n]
  BY <1>4, <1>8, NodesType DEF Added
<1>21. c \in Int /\ (s # Null => d[s] = c + dl2[s])
  <2>1. CASE p = Null
    <3>1. c = t + now /\ s = h
      BY <2>1, <1>10, <1>7, NodesType
    <3>2. s # Null => d[s] = now + dl[s] /\ dl[s] \in Nat /\ dl2[s] = dl[s] - t
      BY <1>2, <1>5, <1>7, <1>9, <1>17, <1>20, <3>1
    <3> HIDE DEF D
    <3> QED
      BY <1>2, <3>1, <3>2
  <2>2. CASE p # Null
    <3>1. c = t + du[p] /\ du[p] \in Int
      BY <1>10, <1>19, <2>2
    <3>2. s # Null => d[s] = du[p] + dl[s] /\ dl[s] \in Nat /\ dl2[s] = dl[s] - t
      BY <1>5, <1>7, <1>9, <1>10, <1>17, <1>19, <1>20, <2>2
    <3> HIDE DEF D
    <3> QED
      BY <3>1, <3>2
  <2> QED
    BY <2>1, <2>2
<1>22. d[g] = now + dl2[g]
  <2>1. CASE p = Null
    BY <1>2, <1>17, <1>20, <2>1
  <2>2. CASE p # Null
    <3>1. g = h /\ h \in D /\ h # new /\ h \in Nodes
      BY <1>1, <1>2, <1>6, <1>7, <1>10, <2>2, Itself, Goes, NodesType
    <3>2. h # s
      BY <1>1, <1>2, <1>10, <2>2, HeadIsFirst
    <3> QED
      BY <1>2, <1>17, <1>20, <3>1, <3>2, NodesType
  <2> QED
    BY <2>1, <2>2
<1>23. Follows(nx2, dl2, d, g)
  <2> SUFFICES ASSUME NEW m \in D \cup {new}
               PROVE  d[m] \in Int /\ (nx2[m] # Null => d[nx2[m]] = d[m] + dl2[nx2[m]])
    BY <1>14 DEF Follows
  <2>1. CASE m = new
    BY <1>11, <1>17, <1>21, <2>1
  <2>2. CASE m = p /\ m # new
    <3>1. p # Null /\ m \in D /\ m \in Nodes
      BY <1>7, <2>2, NodesType
    <3>2. nx2[m] = new /\ d[m] = du[p] /\ c = t + du[p] /\ du[p] \in Int
      BY <1>11, <1>17, <1>19, <2>2, <3>1
    <3> HIDE DEF D
    <3> QED
      BY <1>17, <1>20, <3>2
  <2>3. CASE m # p /\ m # new
    <3>1. m \in D /\ m \in Nodes /\ nx2[m] = nx[m]
      BY <1>7, <1>11, <2>3
    <3>2. nx[m] # Null => nx[m] \in D
      BY <1>1, <1>2, <3>1, Onward
    <3>3. nx[m] # Null => nx[m] # s
      BY <1>1, <1>2, <1>10, <1>19, <2>3, <3>1, HeadIsFirst
    <3>4. nx[m] # Null => dl2[nx[m]] = dl[nx[m]]
      BY <1>6, <1>7, <1>20, <3>1, <3>2, <3>3
    <3> QED
      BY <1>17, <1>19, <3>1, <3>2, <3>4
  <2> QED
    BY <2>1, <2>2, <2>3
<1>24. \A m, q \in D \cup {new} : nx2[m] = nx2[q] /\ nx2[m] # Null => m = q
  <2> SUFFICES ASSUME NEW m \in D \cup {new}, NEW q \in D \cup {new},
                      nx2[m] = nx2[q], nx2[m] # Null
               PROVE  m = q
    OBVIOUS
  <2>1. ASSUME NEW k \in D \cup {new}
        PROVE  /\ k = new => nx2[k] = s
               /\ k = p => nx2[k] = new
               /\ k # new /\ k # p => /\ k \in D /\ k \in Nodes /\ nx2[k] = nx[k]
                                      /\ nx[k] # new
                                      /\ nx[k] = s /\ s # Null => FALSE
    <3>1. k # new => k \in D /\ k \in Nodes
      BY <1>7
    <3>2. k # new /\ k # p /\ s # Null => nx[k] # s
      BY <1>1, <1>2, <1>10, <1>19, <3>1, HeadIsFirst
    <3>3. k = p => p # Null
      BY <1>4, <3>1, NodesType, <1>8
    <3> QED
      BY <1>6, <1>11, <3>1, <3>2, <3>3
  <2> QED
    BY <1>8, <1>19, <2>1
<1>25. \A n \in D \cup {new} : fw2[n] \in D \cup {new} => nx2[fw2[n]] = n
  <2> SUFFICES ASSUME NEW n \in D \cup {new}, fw2[n] \in D \cup {new}
               PROVE  nx2[fw2[n]] = n
    OBVIOUS
  <2>1. n \in Nodes /\ fw2[n] = IF n = new THEN p ELSE IF n = s THEN new ELSE fw[n]
    BY <1>4, <1>7 DEF Added
  <2>2. CASE n = new
    <3>1. fw2[n] = p /\ p # Null
      BY <1>4, <1>7, <2>1, <2>2, NodesType
    <3> QED
      BY <1>11, <2>2, <3>1
  <2>3. CASE n # new /\ n = s
    BY <1>11, <2>1, <2>3
  <2>4. CASE n # new /\ n # s
    <3>1. fw2[n] = fw[n] /\ fw[n] \in D /\ n \in D
      BY <1>6, <2>1, <2>4
    <3>2. nx[fw[n]] = n /\ fw[n] \in Nodes
      BY <1>7, <1>19, <3>1
    <3>3. fw[n] # p /\ fw[n] # new
      BY <1>6, <1>10, <2>1, <2>4, <3>2, NodesType
    <3> QED
      BY <1>11, <3>1, <3>2, <3>3
  <2> QED
    BY <2>2, <2>3, <2>4
<1> HIDE DEF D
<1> QED
  BY <1>2, <1>13, <1>14, <1>15, <1>16, <1>17, <1>18, <1>22, <1>23, <1>24, <1>25
     DEF Lists, Times
(* A timer m of the list is taken out from after p; it is the head when p  *)
(* is Null.  The next one waits its time too.                              *)
Taken(nx, dl, du, p, m, nx2, dl2, du2) ==
  /\ nx2 = IF p = Null THEN nx ELSE [nx EXCEPT ![p] = nx[m]]
  /\ dl2 = IF nx[m] = Null THEN dl ELSE [dl EXCEPT ![nx[m]] = @ + dl[m]]
  /\ du2 = [n \in DOMAIN du \ {m} |-> du[n]]

LEMMA TakeLists ==
  ASSUME NEW h, NEW nx, NEW fw, NEW dl, NEW du, NEW now, NEW mk,
         Lists(h, nx, fw, dl, du, now, mk),
         NEW m, m \in From(nx, h), NEW p, p \in Pointers,
         \/ p = Null /\ m = h
         \/ p \in From(nx, h) /\ nx[p] = m,
         NEW nx2, NEW dl2, NEW d, Taken(nx, dl, du, p, m, nx2, dl2, d),
         NEW g, g = IF p = Null THEN nx[m] ELSE h
  PROVE  Lists(g, nx2, fw, dl2, d, now, mk)
<1> DEFINE D == From(nx, h)
           s == nx[m]
<1>0. /\ nx2 = IF p = Null THEN nx ELSE [nx EXCEPT ![p] = nx[m]]
      /\ dl2 = IF nx[m] = Null THEN dl ELSE [dl EXCEPT ![nx[m]] = @ + dl[m]]
      /\ d = [n \in DOMAIN du \ {m} |-> du[n]]
  BY DEF Taken
<1>1. PICK rank, top : Ranked(nx, rank, top)
  BY DEF Lists
<1>2. /\ h \in Pointers /\ h <= mk /\ now \in Nat /\ DOMAIN du = D
      /\ h # Null => du[h] = now + dl[h]
  BY DEF Lists
<1>3. /\ mk \in Nat /\ nx \in [Nodes -> Pointers]
      /\ \A n \in Nodes : nx[n] <= mk
      /\ Linked(nx, fw, mk)
  BY NodesType DEF Lists, Linked
<1>4. /\ \A n \in D : du[n] \in Int /\ (nx[n] # Null => du[nx[n]] = du[n] + dl[nx[n]])
      /\ \A n, q \in D : nx[n] = nx[q] /\ nx[n] # Null => n = q
      /\ \A n \in D : fw[n] \in D => nx[fw[n]] = n
      /\ \A n \in Nodes : dl[n] \in Nat
  BY DEF Lists, Follows, Times
<1>5. D \subseteq Nodes /\ m \in Nodes /\ s \in Pointers /\ (s # Null => s \in Nodes)
  BY <1>1, <1>2, <1>3, Below, NodesType
<1>6. /\ s # Null => s \in D
      /\ s # m /\ s # h
  BY <1>1, <1>2, <1>5, Onward, HeadIsFirst, NotBack, Itself, NodesType
<1>7. p # Null => p \in D /\ p \in Nodes /\ nx[p] = m /\ m # h /\ p # m
  <2> SUFFICES ASSUME p # Null PROVE p \in D /\ p \in Nodes /\ nx[p] = m /\ m # h /\ p # m
    OBVIOUS
  <2>1. p \in D /\ nx[p] = m
    OBVIOUS
  <2>2. p # m
    BY <1>1, <1>5, <2>1, NotBack, Itself, NodesType
  <2> QED
    BY <1>1, <1>2, <1>5, <2>1, <2>2, HeadIsFirst
<1>8. /\ nx2 \in [Nodes -> Pointers]
      /\ p # Null => nx2[p] = s
      /\ \A n \in Nodes : n # p => nx2[n] = nx[n]
  BY <1>3, <1>5, <1>7, <1>0, NodesType
<1>9. Ranked(nx2, rank, top) /\ From(nx2, g) = D \ {m}
  <2>1. CASE p = Null
    <3>1. m = h /\ nx2 = nx /\ g = s
      BY <1>5, <1>0, <2>1, NodesType
    <3>2. D = {h} \cup From(nx, s) /\ h \notin From(nx, s)
      BY <1>1, <1>5, <3>1, Goes, NotBack
    <3> HIDE DEF D, s
    <3> QED
      BY <1>1, <3>1, <3>2
  <2>2. CASE p # Null
    <3>1. nx2 = [nx EXCEPT ![p] = nx[m]] /\ g = h
      BY <1>0, <2>2
    <3>2. OnlyBefore(nx, h, m, p)
      BY <1>4, <1>5, <1>7, <2>2, NodesType DEF OnlyBefore
    <3>3. nx2 = Bypass(nx, p, m)
      BY <3>1 DEF Bypass
    <3>4. p \in Nodes /\ nx[p] = m /\ m \in Nodes /\ h \in Pointers /\ h # m
      BY <1>2, <1>5, <1>7, <2>2
    <3>5. /\ Ranked(Bypass(nx, p, m), rank, top)
          /\ From(Bypass(nx, p, m), h) = From(nx, h) \ {m}
      BY <1>1, <3>2, <3>4, TakenOut
    <3> QED
      BY <3>1, <3>3, <3>5
  <2> QED
    BY <2>1, <2>2
<1>10. Linked(nx2, fw, mk)
  <2>1. ASSUME NEW n \in Nodes
        PROVE  nx2[n] <= mk /\ (n > mk => nx2[n] = Null)
    <3>1. n # p => nx2[n] = nx[n]
      BY <1>8
    <3>2. n = p => nx2[n] = s /\ s <= mk
      BY <1>3, <1>5, <1>8, NodesType
    <3>3. n = p => nx[n] = m /\ m # Null
      BY <1>5, <1>7, NodesType
    <3> QED
      BY <1>3, <3>1, <3>2, <3>3 DEF Linked
  <2> QED
    BY <1>3, <1>8, <2>1 DEF Linked
<1>11. /\ dl2 \in [Nodes -> Nat]
       /\ s # Null => dl2[s] = dl[s] + dl[m]
       /\ \A n \in Nodes : n # s => dl2[n] = dl[n]
  <2>1. dl \in [Nodes -> Nat]
    BY DEF Lists, Times
  <2>2. CASE s = Null
    <3>1. dl2 = dl
      BY <1>0, <2>2
    <3> QED
      BY <2>1, <2>2, <3>1
  <2>3. CASE s # Null
    <3>1. dl2 = [dl EXCEPT ![s] = dl[s] + dl[m]] /\ s \in Nodes
      BY <1>5, <1>0, <2>3
    <3>2. dl[s] + dl[m] \in Nat
      BY <1>4, <1>5, <3>1
    <3> HIDE DEF s
    <3> QED
      BY <2>1, <3>1, <3>2
  <2> QED
    BY <2>2, <2>3
<1>12. DOMAIN d = D \ {m} /\ \A n \in D \ {m} : d[n] = du[n]
  BY <1>2, <1>0
<1>13. g \in Pointers /\ g <= mk
  <2>1. s <= mk
    BY <1>3, <1>5
  <2> QED
    BY <1>2, <1>5, <2>1
<1>14. g # Null => d[g] = now + dl2[g]
  <2> SUFFICES ASSUME g # Null PROVE d[g] = now + dl2[g]
    OBVIOUS
  <2>1. CASE p = Null
    <3>1. g = s /\ m = h /\ h # Null
      BY <1>5, <2>1, NodesType
    <3>2. d[s] = du[s] /\ du[s] = du[m] + dl[s] /\ du[m] = now + dl[m]
      BY <1>2, <1>4, <1>6, <1>12, <3>1
    <3>3. dl2[s] = dl[s] + dl[m] /\ dl[s] \in Nat /\ dl[m] \in Nat
      BY <1>4, <1>5, <1>11, <3>1
    <3> HIDE DEF s
    <3> QED
      BY <1>2, <3>1, <3>2, <3>3
  <2>2. CASE p # Null
    <3>1. g = h /\ h \in Nodes /\ h \in D /\ h # m
      BY <1>1, <1>2, <1>7, <2>2, Itself, NodesType
    <3> QED
      BY <1>2, <1>6, <1>11, <1>12, <3>1
  <2> QED
    BY <2>1, <2>2
<1>15. Follows(nx2, dl2, d, g)
  <2> SUFFICES ASSUME NEW n \in D \ {m}
               PROVE  d[n] \in Int /\ (nx2[n] # Null => d[nx2[n]] = d[n] + dl2[nx2[n]])
    BY <1>9 DEF Follows
  <2>1. n \in D /\ n \in Nodes /\ d[n] = du[n] /\ du[n] \in Int
    BY <1>4, <1>5, <1>12
  <2>2. CASE n = p
    <3>1. nx2[n] = s /\ nx[n] = m /\ n # Null
      BY <1>7, <1>8, <2>1, <2>2, NodesType
    <3>2. du[m] = du[n] + dl[m]
      BY <1>4, <1>5, <2>1, <3>1, NodesType
    <3>3. s # Null => d[s] = du[s] /\ du[s] = du[m] + dl[s] /\ dl2[s] = dl[s] + dl[m]
      BY <1>4, <1>6, <1>11, <1>12
    <3>4. s # Null => dl[s] \in Nat /\ dl[m] \in Nat
      BY <1>4, <1>5
    <3>5. s # Null => d[s] = du[n] + (dl[s] + dl[m])
      <4> HIDE DEF s, D
      <4> QED
        BY <2>1, <3>2, <3>3, <3>4
    <3> HIDE DEF s, D
    <3> QED
      BY <2>1, <3>1, <3>3, <3>5
  <2>3. CASE n # p
    <3>1. nx2[n] = nx[n] /\ (nx[n] # Null => nx[n] \in D /\ nx[n] \in Nodes)
      BY <1>1, <1>2, <1>5, <1>8, <2>1, <2>3, Onward
    <3>2. nx[n] # Null => nx[n] # m
      <4> SUFFICES ASSUME nx[n] = m, nx[n] # Null PROVE FALSE
        OBVIOUS
      <4>1. m # h
        BY <1>1, <1>2, <2>1, HeadIsFirst
      <4> QED
        BY <1>4, <1>7, <2>1, <2>3, <4>1
    <3>3. nx[n] # Null => nx[n] # s
      BY <1>4, <2>1
    <3> HIDE DEF D, s
    <3> QED
      BY <1>4, <1>11, <1>12, <2>1, <3>1, <3>2, <3>3
  <2> QED
    BY <2>2, <2>3
<1>16. \A n, q \in D \ {m} : nx2[n] = nx2[q] /\ nx2[n] # Null => n = q
  <2>1. ASSUME NEW k \in D \ {m}
        PROVE  /\ k = p => nx2[k] = s
               /\ k # p => nx2[k] = nx[k] /\ (s # Null => nx[k] # s)
    BY <1>4, <1>5, <1>7, <1>8, NodesType
  <2> HIDE DEF s
  <2> QED
    BY <1>4, <2>1
<1>17. \A n \in D \ {m} : fw[n] \in D \ {m} => nx2[fw[n]] = n
  <2> SUFFICES ASSUME NEW n \in D \ {m}, fw[n] \in D \ {m} PROVE nx2[fw[n]] = n
    OBVIOUS
  <2>1. nx[fw[n]] = n /\ fw[n] \in Nodes
    BY <1>4, <1>5
  <2>2. fw[n] # p
    BY <1>7, <2>1, NodesType
  <2> QED
    BY <1>8, <2>1, <2>2
<1> HIDE DEF D, s
<1> QED
  BY <1>2, <1>9, <1>10, <1>11, <1>12, <1>13, <1>14, <1>15, <1>16, <1>17
     DEF Lists, Times
-----------------------------------------------------------------------------
(* The inductive invariant: types always, and the list until the process   *)
(* is misled.                                                              *)
Typed ==
  /\ process \in {"new", "running", "stopped", "crashed"}
  /\ clock \in Nat \ {0} /\ lastUpdate \in 0 .. clock
  /\ head \in Pointers /\ made \in 0 .. MaxStarts /\ misled \in BOOLEAN
  /\ next \in [Nodes -> Pointers] /\ forward \in [Nodes -> Pointers]
  /\ delta \in [Nodes -> Nat]

TimmerInv ==
  /\ Typed
  /\ ~misled => /\ Lists(head, next, forward, delta, due, lastUpdate, made)
                /\ lastUpdate = 0 => head = Null

LEMMA ChainIs == Chain = ChainOf(next)
BY DEF Chain, ChainOf

(* Every wakeup begins with an update, which leaves such a list. *)
LEMMA Updates ==
  ASSUME TimmerInv, Followed
  PROVE  /\ Lists(First, next, forward, Updated, Without(Expired), clock, made)
         /\ ToSet(Chain[First]) = From(next, First)
         /\ Without(Expired) = [n \in DOMAIN due \ Expired |-> due[n]]
<1> DEFINE r == RemainingOf(next, delta)[head][Spent(lastUpdate, clock)]
<1>1. Lists(head, next, forward, delta, due, lastUpdate, made)
      /\ (lastUpdate = 0 => head = Null)
  BY DEF TimmerInv, Followed
<1>2. clock \in Nat /\ lastUpdate \in Nat /\ lastUpdate <= clock
  BY DEF TimmerInv, Typed
<1>3. Elapsed = Spent(lastUpdate, clock)
  BY DEF Elapsed, Spent
<1>4. Remaining = RemainingOf(next, delta)
  BY DEF Remaining, RemainingOf
<1>5. First = r[1]
  BY <1>3, <1>4 DEF First
<1>6. Updated = Lessened(delta, r)
  BY <1>3, <1>4, <1>5 DEF Updated, Lessened
<1>7. Expired = From(next, head) \ From(next, First)
      /\ ToSet(Chain[First]) = From(next, First)
  BY ChainIs DEF Expired, From
<1>8. /\ Without(Expired) = Still(due, next, head, First)
      /\ Without(Expired) = [n \in DOMAIN due \ Expired |-> due[n]]
  BY <1>7 DEF Without, Restrict, Still
<1> HIDE DEF r
<1>9. Lists(r[1], next, forward, Lessened(delta, r), Still(due, next, head, r[1]), clock, made)
  BY <1>1, <1>2, UpdateLists DEF r
<1> QED
  BY <1>5, <1>6, <1>7, <1>8, <1>9

LEMMA ListTypes ==
  ASSUME NEW h, NEW nx, NEW fw, NEW dl, NEW du, NEW since, NEW mk,
         Lists(h, nx, fw, dl, du, since, mk)
  PROVE  /\ h \in Pointers /\ nx \in [Nodes -> Pointers] /\ fw \in [Nodes -> Pointers]
         /\ dl \in [Nodes -> Nat] /\ From(nx, h) \subseteq 1 .. mk
         /\ From(nx, h) \subseteq Nodes /\ DOMAIN du = From(nx, h)
         /\ h # Null => h \in From(nx, h) /\ h \in Nodes
         /\ Follows(nx, dl, du, h)
<1>1. PICK rank, top : Ranked(nx, rank, top)
  BY DEF Lists
<1>2. /\ h \in Pointers /\ h <= mk /\ nx \in [Nodes -> Pointers]
      /\ fw \in [Nodes -> Pointers] /\ dl \in [Nodes -> Nat] /\ mk \in Nat
      /\ \A n \in Nodes : nx[n] <= mk
      /\ DOMAIN du = From(nx, h) /\ Follows(nx, dl, du, h)
  BY NodesType DEF Lists, Linked, Times
<1>3. From(nx, h) \subseteq Nodes
  BY <1>1, <1>2, Below
<1>4. ASSUME NEW n \in From(nx, h) PROVE n \in 1 .. mk
  <2>1. n = h \/ \E p \in From(nx, h) : nx[p] = n
    BY <1>1, <1>2, Predecessor
  <2> QED
    BY <1>2, <1>3, <2>1, NodesType
<1>5. h # Null => h \in From(nx, h) /\ h \in Nodes
  BY <1>1, <1>2, Itself, NodesType
<1> QED
  BY <1>2, <1>3, <1>4, <1>5
(* A start of a timer of length t, wherever it goes. *)
LEMMA InsertStep ==
  ASSUME TimmerInv, Followed, NEW t, t \in Nat, made < MaxStarts, InsertTimer(made + 1, t),
         due' = [n \in (DOMAIN due \ Expired) \cup {made + 1} |->
                   IF n = made + 1 THEN clock + t ELSE due[n]]
  PROVE  /\ head' \in Pointers /\ misled' \in BOOLEAN
         /\ next' \in [Nodes -> Pointers] /\ forward' \in [Nodes -> Pointers]
         /\ delta' \in [Nodes -> Nat]
         /\ ~misled' => Lists(head', next', forward', delta', due', clock, made + 1)
<1> DEFINE new == made + 1
           D == From(next, First)
           dw == Without(Expired)
           Types == /\ head' \in Pointers /\ misled' \in BOOLEAN
                    /\ next' \in [Nodes -> Pointers] /\ forward' \in [Nodes -> Pointers]
                    /\ delta' \in [Nodes -> Nat]
           Now == Lists(First, next, forward, Updated, dw, clock, made)
           Later == Lists(head', next', forward', delta', due', clock, new)
<1>1. /\ Now /\ ToSet(Chain[First]) = D
      /\ dw = [n \in DOMAIN due \ Expired |-> due[n]]
  BY Updates
<1>2. /\ First \in Pointers /\ next \in [Nodes -> Pointers]
      /\ forward \in [Nodes -> Pointers] /\ Updated \in [Nodes -> Nat]
      /\ D \subseteq 1 .. made /\ D \subseteq Nodes /\ DOMAIN dw = D
      /\ First # Null => First \in D /\ First \in Nodes
      /\ Follows(next, Updated, dw, First)
  BY <1>1, ListTypes
<1>3. /\ made \in Nat /\ new \in Nodes /\ new \in Pointers /\ new # Null /\ new <= MaxStarts
      /\ clock \in Nat /\ misled = FALSE
      /\ new \notin D
  <2>1. made \in 0 .. MaxStarts /\ clock \in Nat \ {0} /\ misled \in BOOLEAN
    BY DEF TimmerInv, Typed
  <2>2. misled = FALSE
    BY <2>1 DEF Followed
  <2>3. made \in Nat /\ new \in 1 .. MaxStarts /\ new # 0 /\ new \notin 1 .. made
    BY <2>1, NodesType
  <2> QED
    BY <1>2, <2>1, <2>2, <2>3, NodesType
<1>4. next[new] = Null /\ forward[new] = Null
  BY <1>1, <1>3 DEF Lists, Linked
<1>5. DOMAIN dw = DOMAIN due \ Expired
  BY <1>1
<1>6. ASSUME NEW p, p \in Pointers, NEW s, s \in Pointers, NEW t3, t3 \in Nat,
             (p = Null /\ s = First) \/ (p \in D /\ next[p] = s),
             s # Null => t3 <= Updated[s],
             Added(next, forward, Updated, new, p, s, t3, next', forward', delta'),
             t3 + (IF p = Null THEN clock ELSE dw[p]) = clock + t,
             head' = IF p = Null THEN new ELSE First
      PROVE  Later
  <2>1. due' = [n \in DOMAIN dw \cup {new} |->
                  IF n = new THEN t3 + (IF p = Null THEN clock ELSE dw[p]) ELSE dw[n]]
    <3>1. due' = [n \in DOMAIN dw \cup {new} |-> IF n = new THEN clock + t ELSE due[n]]
      BY <1>5
    <3>2. \A n \in DOMAIN dw : dw[n] = due[n]
      BY <1>1
    <3> HIDE DEF dw, new
    <3> QED
      BY <1>6, <3>1, <3>2
  <2>2. new = made + 1
    OBVIOUS
  <2> HIDE DEF new, dw
  <2> QED
    BY <1>1, <1>3, <1>6, <2>1, <2>2, AddLists
<1>7. CASE First = Null /\ InsertAlone(new, t)
  <2>1. /\ head' = new /\ next' = next /\ forward' = forward /\ misled' = misled
        /\ delta' = [Updated EXCEPT ![new] = t]
    BY <1>7 DEF InsertAlone
  <2>2. Types
    BY <1>2, <1>3, <2>1
  <2>3. Added(next, forward, Updated, new, Null, Null, t, next', forward', delta')
    <3>1. delta' \in [Nodes -> Int]
      BY <2>2
    <3>2. \A n \in Nodes : delta'[n] = IF n = new THEN t ELSE Updated[n]
      BY <1>2, <2>1
    <3> HIDE DEF new
    <3> QED
      BY <1>2, <1>4, <2>1, <3>1, <3>2, NodesType DEF Added
  <2>4. Later
    <3>1. t + clock = clock + t
      BY <1>3
    <3>2. t + (IF Null = Null THEN clock ELSE dw[Null]) = clock + t
      BY <3>1
    <3>3. head' = (IF Null = Null THEN new ELSE First) /\ (Null # Null => t <= Updated[Null])
      BY <2>1
    <3>4. (Null = Null /\ Null = First) \/ (Null \in D /\ next[Null] = Null)
      BY <1>7
    <3> HIDE DEF Later, new, dw, D
    <3> QED
      BY <1>6, <2>3, <3>2, <3>3, <3>4, NodesType
  <2> QED
    BY <2>2, <2>4
<1>8. CASE First # Null /\ t < Updated[First] /\ InsertFirst(new, t)
  <2>1. /\ head' = new /\ misled' = misled
        /\ next' = [next EXCEPT ![new] = First]
        /\ forward' = [forward EXCEPT ![First] = new]
        /\ delta' = [Updated EXCEPT ![new] = t, ![First] = @ - t]
    BY <1>8 DEF InsertFirst
  <2>2. First \in Nodes /\ First # new /\ Updated[First] \in Nat /\ Updated[First] - t \in Nat
    BY <1>2, <1>3, <1>8
  <2>3. /\ delta' \in [Nodes -> Nat]
        /\ \A n \in Nodes : delta'[n] = IF n = new THEN t
                                         ELSE IF n = First THEN Updated[n] - t ELSE Updated[n]
    <3> HIDE DEF new
    <3> QED
      BY <1>2, <2>1, <2>2
  <2>4. Types
    BY <1>2, <1>3, <2>1, <2>3
  <2>5. Added(next, forward, Updated, new, Null, First, t, next', forward', delta')
    <3>1. delta' \in [Nodes -> Int]
      BY <2>3
    <3> HIDE DEF new
    <3> QED
      BY <1>2, <1>3, <1>4, <2>1, <2>2, <2>3, <2>4, <3>1, NodesType DEF Added
  <2>6. Later
    <3>1. t + clock = clock + t
      BY <1>3
    <3>2. t + (IF Null = Null THEN clock ELSE dw[Null]) = clock + t
      BY <3>1
    <3>3. head' = (IF Null = Null THEN new ELSE First) /\ (First # Null => t <= Updated[First])
      BY <1>8, <2>1, <2>2
    <3>4. (Null = Null /\ First = First) \/ (Null \in D /\ next[Null] = First)
      OBVIOUS
    <3> HIDE DEF Later, new, dw, D
    <3> QED
      BY <1>2, <1>6, <2>5, <3>2, <3>3, <3>4, NodesType
  <2> QED
    BY <2>4, <2>6
<1>9. CASE First # Null /\ ~(t < Updated[First])
  <2> DEFINE place == Place[First][t]
             m == place[2]
             t3 == place[3]
  <2>1. Place = PlaceOf(next, Updated)
    BY DEF Place, PlaceOf
  <2>2. GoesTo(next, Updated, dw, clock + t, First, place)
    <3>1. PICK rank, top : Ranked(next, rank, top)
      BY <1>1 DEF Lists
    <3>2. Times(Updated) /\ First \in Nodes
      BY <1>2, <1>9 DEF Times
    <3>3. dw[First] = clock + Updated[First] /\ Updated[First] \in Nat
      BY <1>1, <1>2, <1>9 DEF Lists
    <3>4. clock + t \in Int /\ dw[First] = (clock + t) - t + Updated[First]
      BY <1>3, <3>3
    <3> DEFINE then == clock + t
    <3>5. GoesTo(next, Updated, dw, then, First, PlaceOf(next, Updated)[First][t])
      <4>1. then \in Int /\ dw[First] = then - t + Updated[First]
        BY <3>4
      <4> HIDE DEF then, dw, D
      <4> QED
        BY <1>2, <3>1, <3>2, <4>1, PlaceDue
    <3> QED
      BY <2>1, <3>5
  <2>3. /\ m \in D /\ t3 \in Nat
        /\ \/ /\ place[1] = "before" /\ t3 < Updated[m]
              /\ dw[m] = (clock + t) - t3 + Updated[m]
           \/ place[1] = "after" /\ next[m] = Null /\ dw[m] = (clock + t) - t3
    BY <2>2 DEF GoesTo
  <2>4. m \in Nodes /\ m # new /\ Updated[m] \in Nat
    BY <1>2, <1>3, <2>3
  <2>5. IF place[1] = "before" THEN InsertBefore(new, m, t3) ELSE InsertLast(new, m, t3)
    BY <1>9 DEF InsertTimer
  <2> HIDE DEF place, m, t3
  <2>6. CASE place[1] = "before"
    <3>1. /\ head' = First /\ misled' = (misled \/ Misleads(m))
          /\ next' = [next EXCEPT ![forward[m]] = new, ![new] = m]
          /\ forward' = [forward EXCEPT ![new] = forward[m], ![m] = new]
          /\ delta' = [Updated EXCEPT ![new] = t3, ![m] = @ - t3]
      BY <2>5, <2>6 DEF InsertBefore
    <3>2. t3 < Updated[m] /\ dw[m] = (clock + t) - t3 + Updated[m] /\ Updated[m] - t3 \in Nat
      BY <2>3, <2>4, <2>6
    <3>3. /\ delta' \in [Nodes -> Nat]
          /\ \A n \in Nodes : delta'[n] = IF n = new THEN t3
                                           ELSE IF n = m THEN Updated[n] - t3 ELSE Updated[n]
      <4> HIDE DEF new
      <4> QED
        BY <1>2, <2>3, <2>4, <3>1, <3>2
    <3>4. forward[m] \in Pointers
      BY <1>2, <2>4
    <3>5. Types
      <4>1. misled' \in BOOLEAN
        BY <3>1 DEF Misleads
      <4>2. new \in Pointers /\ m \in Pointers
        BY <1>3, <2>4, NodesType
      <4> HIDE DEF new
      <4>3. next' \in [Nodes -> Pointers]
        BY <1>2, <3>1, <4>2
      <4>4. forward' \in [Nodes -> Pointers]
        BY <1>2, <3>1, <3>4, <4>2
      <4> QED
        BY <1>2, <3>1, <3>3, <4>1, <4>3, <4>4
    <3>6. ASSUME ~misled' PROVE Later
      <4> DEFINE p == forward[m]
      <4>1. p \in D
        BY <1>1, <3>1, <3>6 DEF Misleads
      <4>2. next[p] = m /\ p \in Nodes /\ p # Null /\ p # new
        <5>1. p \in Nodes /\ forward[m] = p
          BY <1>2, <4>1, NodesType
        <5>2. \A n \in D : forward[n] \in D => next[forward[n]] = n
          BY <1>1 DEF Lists
        <5>3. m \in D
          BY <2>3
        <5>4. next[p] = m
          BY <4>1, <5>2, <5>3
        <5> QED
          BY <1>3, <2>3, <4>1, <5>1, <5>4, NodesType
      <4>3. dw[m] = dw[p] + Updated[m] /\ dw[p] \in Int
        BY <1>2, <2>4, <4>1, <4>2, NodesType DEF Follows
      <4>4. t3 + dw[p] = clock + t
        <5> HIDE DEF dw, p, D
        <5> QED
          BY <1>3, <2>3, <2>4, <3>2, <4>3
      <4>5. Added(next, forward, Updated, new, p, m, t3, next', forward', delta')
        <5>1. delta' \in [Nodes -> Int] /\ p \in Nodes
          BY <3>3, <4>2
        <5>2. next' = [next EXCEPT ![p] = new, ![new] = m]
              /\ forward' = [forward EXCEPT ![new] = p, ![m] = new]
          BY <3>1
        <5> HIDE DEF new, p
        <5> QED
          BY <1>2, <1>3, <2>4, <3>3, <3>5, <4>2, <5>1, <5>2 DEF Added
      <4>6. p \in Pointers /\ m \in Pointers /\ head' = First
        BY <2>4, <3>1, <3>4, NodesType
      <4>7. t3 <= Updated[m] /\ t3 \in Nat
        BY <2>3, <2>4, <3>2
      <4> HIDE DEF Later, new, dw, D, p
      <4> QED
        BY <1>6, <4>1, <4>2, <4>4, <4>5, <4>6, <4>7
    <3> QED
      BY <3>5, <3>6
  <2>7. CASE place[1] # "before"
    <3>1. /\ head' = First /\ misled' = misled
          /\ next' = [next EXCEPT ![m] = new]
          /\ forward' = [forward EXCEPT ![new] = m]
          /\ delta' = [Updated EXCEPT ![new] = t3]
      BY <2>5, <2>7 DEF InsertLast
    <3>2. next[m] = Null /\ dw[m] = (clock + t) - t3
      BY <2>3, <2>7
    <3>3. Types
      <4> HIDE DEF new
      <4> QED
        BY <1>2, <1>3, <2>3, <2>4, <3>1, NodesType
    <3>4. t3 + dw[m] = clock + t
      <4> HIDE DEF dw, D
      <4> QED
        BY <1>3, <2>3, <3>2
    <3>5. Added(next, forward, Updated, new, m, Null, t3, next', forward', delta')
      <4>1. delta' \in [Nodes -> Int]
        BY <3>3
      <4> HIDE DEF new
      <4> QED
        BY <1>2, <1>3, <1>4, <2>4, <3>1, <3>3, <4>1, NodesType DEF Added
    <3>6. m \in Pointers /\ m # Null /\ Null \in Pointers
      BY <2>4, NodesType
    <3>7. Later
      <4> HIDE DEF Later, new, dw, D
      <4> QED
        BY <1>6, <2>3, <3>1, <3>2, <3>4, <3>5, <3>6
    <3> QED
      BY <3>3, <3>7
  <2> QED
    BY <2>6, <2>7
<1> QED
  BY <1>7, <1>8, <1>9 DEF InsertTimer
(* A cancel of the timer of a node n of the list, at its head or later. *)
LEMMA RemoveStep ==
  ASSUME TimmerInv, Followed, NEW n, n \in ToSet(Chain[First]),
         IF n = First THEN RemoveHead ELSE RemoveLater(n),
         due' = Without(Expired \cup {n}), forward' = forward
  PROVE  /\ head' \in Pointers /\ misled' \in BOOLEAN
         /\ next' \in [Nodes -> Pointers] /\ delta' \in [Nodes -> Nat]
         /\ ~misled' => Lists(head', next', forward', delta', due', clock, made)
<1> DEFINE D == From(next, First)
           dw == Without(Expired)
           Later == Lists(head', next', forward', delta', due', clock, made)
<1>1. /\ Lists(First, next, forward, Updated, dw, clock, made)
      /\ ToSet(Chain[First]) = D
      /\ dw = [k \in DOMAIN due \ Expired |-> due[k]]
  BY Updates
<1>2. /\ First \in Pointers /\ next \in [Nodes -> Pointers]
      /\ forward \in [Nodes -> Pointers] /\ Updated \in [Nodes -> Nat]
      /\ D \subseteq Nodes /\ DOMAIN dw = D
  BY <1>1, ListTypes
<1>3. n \in D /\ n \in Nodes /\ misled \in BOOLEAN /\ ~misled
  BY <1>1, <1>2 DEF TimmerInv, Typed, Followed
<1>4. due' = [k \in DOMAIN dw \ {n} |-> dw[k]]
  <2>1. due' = [k \in DOMAIN due \ (Expired \cup {n}) |-> due[k]]
    BY DEF Without, Restrict
  <2>2. DOMAIN dw = DOMAIN due \ Expired /\ \A k \in DOMAIN dw : dw[k] = due[k]
    BY <1>1
  <2> HIDE DEF dw
  <2>3. DOMAIN due \ (Expired \cup {n}) = DOMAIN dw \ {n}
    BY <2>2
  <2> QED
    BY <2>1, <2>2, <2>3
<1>5. Merged(n) = IF next[n] = Null THEN Updated
                  ELSE [Updated EXCEPT ![next[n]] = @ + Updated[n]]
  BY DEF Merged
<1>6. next[n] \in Pointers /\ (next[n] # Null => next[n] \in Nodes)
  BY <1>2, <1>3, NodesType
<1>7. Merged(n) \in [Nodes -> Nat]
  <2>1. CASE next[n] = Null
    BY <1>2, <1>5, <2>1
  <2>2. CASE next[n] # Null
    <3>1. Merged(n) = [Updated EXCEPT ![next[n]] = Updated[next[n]] + Updated[n]]
      BY <1>5, <2>2
    <3>2. Updated[next[n]] + Updated[n] \in Nat
      BY <1>2, <1>3, <1>6, <2>2
    <3> QED
      BY <1>2, <1>6, <2>2, <3>1, <3>2
  <2> QED
    BY <2>1, <2>2
<1>8. ASSUME NEW p, p \in Pointers, (p = Null /\ n = First) \/ (p \in D /\ next[p] = n),
             next' = IF p = Null THEN next ELSE [next EXCEPT ![p] = next[n]],
             delta' = Merged(n), head' = IF p = Null THEN next[n] ELSE First
      PROVE  Later
  <2>1. Taken(next, Updated, dw, p, n, next', delta', due')
    BY <1>4, <1>5, <1>8 DEF Taken
  <2>3. n \in From(next, First)
        /\ ((p = Null /\ n = First) \/ (p \in From(next, First) /\ next[p] = n))
    BY <1>3, <1>8
  <2>4. Lists(First, next, forward, Updated, dw, clock, made)
    BY <1>1
  <2> HIDE DEF D, dw
  <2>2. Lists(head', next', forward, delta', due', clock, made)
    BY <1>8, <2>1, <2>3, <2>4, TakeLists
  <2> QED
    BY <2>2
<1>9. CASE n = First
  <2>1. head' = next[n] /\ delta' = Merged(n) /\ next' = next /\ misled' = misled
    BY <1>9 DEF RemoveHead
  <2>2. Later
    <3> HIDE DEF Later, D
    <3> QED
      BY <1>8, <1>9, <2>1, NodesType
  <2> QED
    BY <1>2, <1>3, <1>6, <1>7, <2>1, <2>2
<1>10. CASE n # First
  <2>1. /\ head' = First /\ delta' = Merged(n)
        /\ next' = [next EXCEPT ![forward[n]] = next[n]]
        /\ misled' = (misled \/ Misleads(n))
    BY <1>10 DEF RemoveLater
  <2>2. next' \in [Nodes -> Pointers]
    BY <1>2, <1>6, <2>1
  <2>3. misled' \in BOOLEAN
    BY <2>1 DEF Misleads
  <2>4. ASSUME ~misled' PROVE Later
    <3> DEFINE p == forward[n]
    <3>1. p \in D
      BY <1>1, <2>1, <2>4 DEF Misleads
    <3>2. next[p] = n /\ p \in Pointers /\ p # Null
      BY <1>1, <1>2, <1>3, <3>1, NodesType DEF Lists
    <3>3. next' = [next EXCEPT ![p] = next[n]]
      BY <2>1
    <3> HIDE DEF Later, D, p
    <3> QED
      BY <1>8, <2>1, <3>1, <3>2, <3>3
  <2> QED
    BY <1>2, <1>7, <2>1, <2>2, <2>3, <2>4
<1> QED
  BY <1>9, <1>10

(* Nothing is listed while no node was made. *)
LEMMA EmptyLists ==
  ASSUME NEW du, DOMAIN du = {}, NEW since, since \in Nat
  PROVE  Lists(Null, Unset, Unset, Unset, du, since, 0)
<1>1. /\ Unset \in [Nodes -> Pointers] /\ Unset \in [Nodes -> Nat]
      /\ \A n \in Nodes : Unset[n] = Null
  BY NodesType DEF Unset
<1> HIDE DEF Unset
<1> DEFINE rank == [n \in Pointers |-> IF n = Null THEN 0 ELSE 1]
<1>2. Ranked(Unset, rank, 1)
  <2>1. rank \in [Pointers -> 0 .. 1]
    OBVIOUS
  <2>2. \A n \in Nodes : rank[Unset[n]] = 0 /\ rank[n] = 1
    BY <1>1, NodesType
  <2> HIDE DEF rank
  <2> QED
    BY <1>1, <2>1, <2>2 DEF Ranked
<1> HIDE DEF rank
<1>3. From(Unset, Null) = {}
  BY <1>2, Goes
<1>4. Linked(Unset, Unset, 0)
  BY <1>1, NodesType DEF Linked
<1> QED
  BY <1>1, <1>2, <1>3, <1>4, NodesType DEF Lists, Follows, Times

LEMMA EndStep == ASSUME TimmerInv, NEW how, how \in {"stopped", "crashed"}, Ends(how)
                 PROVE  TimmerInv'
<1>1. /\ process' = how /\ head' = Null /\ lastUpdate' = 0 /\ made' = 0
      /\ next' = Unset /\ forward' = Unset /\ delta' = Unset
      /\ due' = <<>> /\ clock' = clock /\ misled' = misled
  BY DEF Ends
<1>2. DOMAIN <<>> = {}
  OBVIOUS
<1>3. Lists(Null, Unset, Unset, Unset, <<>>, 0, 0)
  BY <1>2, EmptyLists
<1>4. Unset \in [Nodes -> Pointers] /\ Unset \in [Nodes -> Nat]
  BY NodesType DEF Unset
<1>5. Typed'
  BY <1>1, <1>4, NodesType DEF TimmerInv, Typed
<1> QED
  BY <1>1, <1>3, <1>5 DEF TimmerInv

LEMMA TimmerStep == ASSUME TimmerInv, [TimmerNext]_timmerVars PROVE TimmerInv'
<1>1. Typed
  BY DEF TimmerInv
<1>2. ASSUME Followed
      PROVE  /\ First \in Pointers /\ Updated \in [Nodes -> Nat] /\ clock \in Nat \ {0}
             /\ Lists(First, next, forward, Updated, Without(Expired), clock, made)
  BY <1>1, <1>2, Updates, ListTypes DEF Typed
<1>3. CASE CrashAtOnce
  BY <1>3, EndStep DEF CrashAtOnce
<1>4. CASE Stop
  BY <1>4, EndStep DEF Stop
<1>5. CASE CancelOfNone
  BY <1>5, EndStep DEF CancelOfNone
<1>6. CASE WaitATick
  <2>1. /\ clock' = clock + 1 /\ UNCHANGED <<process, head, delta, lastUpdate, due>>
        /\ UNCHANGED <<next, forward, id, made, misled>>
    BY <1>6 DEF WaitATick, links
  <2>2. clock' \in Nat \ {0} /\ lastUpdate' \in 0 .. clock'
    BY <1>1, <2>1 DEF Typed
  <2>3. Typed'
    BY <1>1, <2>1, <2>2 DEF Typed
  <2> QED
    BY <2>1, <2>3 DEF TimmerInv
<1>7. ASSUME Followed, Refuse, process' = "running", lastUpdate' = clock, clock' = clock
      PROVE  TimmerInv'
  <2>1. /\ head' = First /\ delta' = Updated /\ due' = Without(Expired)
        /\ UNCHANGED <<next, forward, id, made, misled>>
    BY <1>7 DEF Refuse, links
  <2>2. clock \in Nat \ {0} /\ clock \in 0 .. clock
    BY <1>1 DEF Typed
  <2>3. Typed'
    BY <1>1, <1>2, <1>7, <2>1, <2>2 DEF Typed
  <2>4. Lists(head', next', forward', delta', due', lastUpdate', made')
    BY <1>2, <1>7, <2>1
  <2> QED
    BY <1>7, <2>2, <2>3, <2>4 DEF TimmerInv
<1>8. ASSUME NEW i \in TimerIds, NEW t \in Lengths, StartTimer(i, t)
      PROVE  TimmerInv'
  <2>1. Followed /\ process' = "running" /\ lastUpdate' = clock /\ clock' = clock
    BY <1>8 DEF StartTimer
  <2>2. CASE Refuse
    BY <1>7, <2>1, <2>2
  <2>3. CASE ~Refuse
    <3>1. /\ made < MaxStarts /\ InsertTimer(made + 1, t) /\ made' = made + 1
          /\ due' = [n \in (DOMAIN due \ Expired) \cup {made + 1} |->
                       IF n = made + 1 THEN clock + t ELSE due[n]]
      BY <1>8, <2>3 DEF StartTimer
    <3>2. t \in Nat
      BY TimmerAssumption
    <3>3. /\ head' \in Pointers /\ misled' \in BOOLEAN
          /\ next' \in [Nodes -> Pointers] /\ forward' \in [Nodes -> Pointers]
          /\ delta' \in [Nodes -> Nat]
          /\ ~misled' => Lists(head', next', forward', delta', due', clock, made + 1)
      BY <2>1, <3>1, <3>2, InsertStep
    <3>4. made' \in 0 .. MaxStarts /\ clock \in Nat \ {0} /\ lastUpdate' \in 0 .. clock'
      BY <1>1, <2>1, <3>1, NodesType DEF Typed
    <3>5. Typed'
      BY <2>1, <3>3, <3>4 DEF Typed
    <3> QED
      BY <2>1, <3>1, <3>3, <3>4, <3>5 DEF TimmerInv
  <2> QED
    BY <2>2, <2>3
<1>9. ASSUME NEW i \in TimerIds, CancelTimer(i)
      PROVE  TimmerInv'
  <2>1. Followed /\ process' = "running" /\ lastUpdate' = clock /\ clock' = clock
    BY <1>9 DEF CancelTimer
  <2>2. CASE Refuse
    BY <1>7, <2>1, <2>2
  <2>3. CASE ~Refuse
    <3>1. PICK n \in Listed(i) :
            /\ IF n = First THEN RemoveHead ELSE RemoveLater(n)
            /\ due' = Without(Expired \cup {n})
            /\ UNCHANGED <<forward, id, made>>
      BY <1>9, <2>3 DEF CancelTimer
    <3>2. n \in ToSet(Chain[First])
      BY DEF Listed
    <3>3. /\ head' \in Pointers /\ misled' \in BOOLEAN
          /\ next' \in [Nodes -> Pointers] /\ delta' \in [Nodes -> Nat]
          /\ ~misled' => Lists(head', next', forward', delta', due', clock, made)
      BY <2>1, <3>1, <3>2, RemoveStep
    <3>4. clock \in Nat \ {0} /\ lastUpdate' \in 0 .. clock'
      BY <1>1, <2>1 DEF Typed
    <3>5. Typed'
      BY <1>1, <2>1, <3>1, <3>3, <3>4 DEF Typed
    <3> QED
      BY <2>1, <3>1, <3>3, <3>4, <3>5 DEF TimmerInv
  <2> QED
    BY <2>2, <2>3
<1>10. CASE UNCHANGED timmerVars
  BY <1>10 DEF timmerVars, TimmerInv, Typed
<1> QED
  BY <1>3, <1>4, <1>5, <1>6, <1>8, <1>9, <1>10 DEF TimmerNext

LEMMA TimmerStart == TimmerInit => TimmerInv
<1> SUFFICES ASSUME TimmerInit PROVE TimmerInv
  OBVIOUS
<1>1. /\ process = "new" /\ clock = 1 /\ head = Null /\ lastUpdate = 0 /\ made = 0
      /\ next = Unset /\ forward = Unset /\ delta = Unset
      /\ due = <<>> /\ misled = FALSE
  BY DEF TimmerInit
<1>2. DOMAIN <<>> = {}
  OBVIOUS
<1>3. Lists(Null, Unset, Unset, Unset, <<>>, 0, 0)
  BY <1>2, EmptyLists
<1>4. Unset \in [Nodes -> Pointers] /\ Unset \in [Nodes -> Nat]
  BY NodesType DEF Unset
<1>5. Typed
  <2>1. /\ 1 \in Nat \ {0} /\ 0 \in 0 .. 1 /\ 0 \in 0 .. MaxStarts
        /\ Null \in Pointers
    BY NodesType
  <2>2. FALSE \in BOOLEAN
    OBVIOUS
  <2> QED
    BY <1>1, <1>4, <2>1, <2>2 DEF Typed
<1> QED
  BY <1>1, <1>3, <1>5 DEF TimmerInv

(* The types and, until the process is misled, the list: what each start,  *)
(* cancel and update keeps.                                                *)
THEOREM TimmerInvariance == TimmerSpec => []TimmerInv
BY TimmerStart, TimmerStep, PTL DEF TimmerSpec

(* The list's pointers stay among the nodes and no time after another is   *)
(* ever negative, whatever is started, cancelled and used up.              *)
THEOREM TimmerTypeCorrect == TimmerSpec => []TimmerTypeOK
<1>1. TimmerInv => TimmerTypeOK
  BY NodesType DEF TimmerInv, Typed, TimmerTypeOK
<1> QED
  BY <1>1, TimmerInvariance, PTL

(* The times from the head on add up to when each timer is due, for any    *)
(* number of timers: what add_timenode takes from the next one, what       *)
(* delete_timenode gives it and what update_time_list takes off fit.       *)
THEOREM TimmerTimesAddUp == TimmerSpec => []TimesAddUp
<1>1. TimmerInv => TimesAddUp
  <2> SUFFICES ASSUME TimmerInv, ~misled, NEW k \in 1 .. Len(Chain[head])
               PROVE  LET list == Chain[head]
                      IN  /\ list[k] \in DOMAIN due
                          /\ due[list[k]] = delta[list[k]] +
                               (IF k = 1 THEN lastUpdate ELSE due[list[k - 1]])
    BY DEF TimesAddUp
  <2> DEFINE list == Chain[head]
  <2>1. Lists(head, next, forward, delta, due, lastUpdate, made)
    BY DEF TimmerInv
  <2>2. PICK rank, top : Ranked(next, rank, top)
    BY <2>1 DEF Lists
  <2>3. head \in Pointers /\ DOMAIN due = From(next, head) /\ lastUpdate \in Nat
        /\ (head # Null => due[head] = lastUpdate + delta[head])
        /\ \A m \in From(next, head) :
             /\ due[m] \in Int
             /\ next[m] # Null => due[next[m]] = due[m] + delta[next[m]]
    BY <2>1 DEF Lists, Follows
  <2>4. From(next, head) \subseteq Nodes /\ \A n \in Nodes : delta[n] \in Nat
    BY <2>1, ListTypes
  <2>5. /\ list[k] \in From(next, head)
        /\ k = 1 => list[k] = head
        /\ k # 1 => list[k - 1] \in From(next, head) /\ next[list[k - 1]] = list[k]
    BY <2>2, <2>3, ChainIs, ChainSteps
  <2> HIDE DEF list
  <2>6. list[k] # Null /\ list[k] \in Nodes /\ delta[list[k]] \in Nat
    BY <2>4, <2>5, NodesType
  <2>7. CASE k = 1
    BY <2>3, <2>5, <2>6, <2>7 DEF list
  <2>8. CASE k # 1
    <3>2. list[k - 1] \in From(next, head) /\ next[list[k - 1]] = list[k]
      BY <2>5, <2>8
    <3>3. /\ due[list[k - 1]] \in Int
          /\ next[list[k - 1]] # Null =>
               due[next[list[k - 1]]] = due[list[k - 1]] + delta[next[list[k - 1]]]
      BY <2>3, <3>2
    <3>1. due[list[k]] = due[list[k - 1]] + delta[list[k]] /\ due[list[k - 1]] \in Int
      BY <2>6, <3>2, <3>3
    <3> QED
      BY <2>3, <2>5, <2>6, <2>8, <3>1 DEF list
  <2> QED
    BY <2>7, <2>8
<1> QED
  BY <1>1, TimmerInvariance, PTL

(* The list holds exactly the running timers: none started is lost, no     *)
(* cancelled one comes back, none expired stays, until a forward pointer   *)
(* out of the list is followed.                                            *)
THEOREM TimmerListsTheRunning == TimmerSpec => []ListsTheRunning
<1>1. TimmerInv => ListsTheRunning
  BY ChainIs DEF TimmerInv, Lists, ListsTheRunning, From
<1> QED
  BY <1>1, TimmerInvariance, PTL
=============================================================================
