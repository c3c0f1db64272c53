---------------------------- MODULE VividSmProofs ----------------------------
(***************************************************************************)
(* What the walks of vivid_sm.c do with every tree of states in which the  *)
(* transitions are supported ones: the invariants of VividSmInvariants,    *)
(* and the properties of VividSm that follow from them.                    *)
(***************************************************************************)
EXTENDS VividSmInvariants, FiniteSetTheorems, SequenceTheorems, TLAPS

--------------------------------------------------------------------------------
(* Sub-nodes *)

\* The root is a node, and NULL is none.
LEMMA RootIsNode == Root \in Node /\ NoNode \notin Node
  BY TreeAssumption

\* Each state but the root is declared in one place, which parent leads to.
LEMMA Declared ==
    ASSUME NEW n \in Node \ {Root}
    PROVE  /\ parent[n] \in Node
           /\ \E i \in DOMAIN SubNodes[parent[n]] : SubNodes[parent[n]][i] = n
           /\ \A q \in Node : \A j \in DOMAIN SubNodes[q] :
                 SubNodes[q][j] = n => q = parent[n] /\ j = Index(n)
<1>1. PICK p \in Node : \E i \in DOMAIN SubNodes[p] :
             /\ n = SubNodes[p][i]
             /\ \A q \in Node : \A j \in DOMAIN SubNodes[q] :
                   SubNodes[q][j] = n => q = p /\ j = i
  BY TreeAssumption
<1>2. PICK i \in DOMAIN SubNodes[p] :
             /\ n = SubNodes[p][i]
             /\ \A q \in Node : \A j \in DOMAIN SubNodes[q] :
                   SubNodes[q][j] = n => q = p /\ j = i
  BY <1>1
<1>3. parent[n] = CHOOSE q \in Node : \E j \in DOMAIN SubNodes[q] : SubNodes[q][j] = n
  BY DEF parent
<1>4. parent[n] \in Node /\ \E j \in DOMAIN SubNodes[parent[n]] : SubNodes[parent[n]][j] = n
  BY <1>2, <1>3
<1>5. parent[n] = p
  BY <1>2, <1>4
<1>6. Index(n) \in DOMAIN SubNodes[p] /\ SubNodes[p][Index(n)] = n
  BY <1>2, <1>5 DEF Index
<1>7. Index(n) = i
  BY <1>2, <1>6
<1> QED
  BY <1>2, <1>4, <1>5, <1>7

\* The index of a node leads to it.
LEMMA IndexOf ==
    ASSUME NEW n \in Node \ {Root}
    PROVE  /\ Index(n) \in DOMAIN SubNodes[parent[n]]
           /\ SubNodes[parent[n]][Index(n)] = n
  BY Declared DEF Index

\* The sub-nodes of a node are nodes, and the root is not among them.
LEMMA SubNodesType ==
    ASSUME NEW n \in Node
    PROVE  /\ Len(SubNodes[n]) \in Nat
           /\ DOMAIN SubNodes[n] = 1 .. Len(SubNodes[n])
           /\ \A i \in DOMAIN SubNodes[n] : SubNodes[n][i] \in Node \ {Root}
  BY TreeAssumption

\* The sub-nodes of n are the nodes that have n for a parent.
LEMMA KidsDeclared ==
    ASSUME NEW n \in Node
    PROVE  Kids(n) = {SubNodes[n][i] : i \in DOMAIN SubNodes[n]}
<1>1. ASSUME NEW m \in Kids(n) PROVE m \in {SubNodes[n][i] : i \in DOMAIN SubNodes[n]}
  BY <1>1, Declared DEF Kids
<1>2. ASSUME NEW i \in DOMAIN SubNodes[n] PROVE SubNodes[n][i] \in Kids(n)
  <2>1. SubNodes[n][i] \in Node \ {Root}
    BY SubNodesType
  <2>2. parent[SubNodes[n][i]] = n
    BY <2>1, Declared
  <2> QED
    BY <2>1, <2>2 DEF Kids
<1> QED
  BY <1>1, <1>2

\* A divided state has regions.
LEMMA ParallelHasKids ==
    ASSUME NEW n \in Node, Parallel(n)
    PROVE  Kids(n) # {}
  BY KidsDeclared DEF Parallel

\* The default of a state without regions is one of its sub-nodes.
LEMMA DefaultIsKid ==
    ASSUME NEW n \in Node
    PROVE  /\ Parallel(n) => DefaultChild[n] = NoNode
           /\ DefaultChild[n] # NoNode => DefaultChild[n] \in Kids(n)
           /\ DefaultChild[n] = NoNode /\ ~Parallel(n) => Kids(n) = {}
<1>1. IF SubNodes[n] = <<>> \/ Parallel(n)
        THEN DefaultChild[n] = NoNode
        ELSE \E i \in DOMAIN SubNodes[n] : DefaultChild[n] = SubNodes[n][i]
  BY TreeAssumption
<1>2. SubNodes[n] = <<>> => Kids(n) = {}
  BY KidsDeclared
<1>3. NoNode \notin Node
  BY TreeAssumption
<1>4. Kids(n) \subseteq Node
  BY DEF Kids
<1>5. ~(SubNodes[n] = <<>> \/ Parallel(n)) => DefaultChild[n] \in Kids(n)
  BY <1>1, KidsDeclared
<1> QED
  BY <1>1, <1>2, <1>3, <1>4, <1>5

\* children is the last sub-node, and every sub-node is at or before it.
LEMMA ChildrenIsLast ==
    ASSUME NEW n \in Node, Kids(n) # {}
    PROVE  /\ children[n] \in Kids(n)
           /\ \A m \in Kids(n) : Index(m) <= Index(children[n])
<1>1. SubNodes[n] # <<>> /\ Len(SubNodes[n]) \in DOMAIN SubNodes[n]
  BY KidsDeclared, SubNodesType, TreeAssumption
<1>2. children[n] = SubNodes[n][Len(SubNodes[n])]
  BY <1>1 DEF children
<1>3. children[n] \in Kids(n)
  BY <1>1, <1>2, KidsDeclared
<1>4. children[n] \in Node \ {Root} /\ parent[children[n]] = n
  BY <1>3 DEF Kids
<1>5. Index(children[n]) = Len(SubNodes[n])
  BY <1>1, <1>2, <1>4, Declared
<1>6. ASSUME NEW m \in Kids(n) PROVE Index(m) <= Len(SubNodes[n])
  BY IndexOf, SubNodesType DEF Kids
<1> QED
  BY <1>3, <1>5, <1>6

\* Two sub-nodes of one parent are not in the same place.
LEMMA IndexDiffers ==
    ASSUME NEW m \in Node \ {Root}, NEW n \in Node \ {Root},
           parent[m] = parent[n], Index(m) = Index(n)
    PROVE  m = n
  BY IndexOf

\* The index counts from one up.
LEMMA IndexIsNat ==
    ASSUME NEW n \in Node \ {Root}
    PROVE  Index(n) \in Nat /\ Index(n) >= 1 /\ Index(n) <= Len(SubNodes[parent[n]])
  BY IndexOf, Declared, SubNodesType

\* siblings leads to the sub-node declared just before.
LEMMA SiblingIsBefore ==
    ASSUME NEW n \in Node \ {Root}
    PROVE  IF Index(n) = 1 THEN siblings[n] = NoNode
           ELSE /\ siblings[n] \in Kids(parent[n])
                /\ Index(siblings[n]) = Index(n) - 1
<1> DEFINE p == parent[n]
<1>1. p \in Node /\ Index(n) \in DOMAIN SubNodes[p] /\ SubNodes[p][Index(n)] = n
  BY Declared, IndexOf
<1>2. DOMAIN SubNodes[p] = 1 .. Len(SubNodes[p]) /\ Len(SubNodes[p]) \in Nat
  BY <1>1, SubNodesType
<1>3. \A i \in DOMAIN SubNodes[p] : SubNodes[p][i] = n => i = Index(n)
  BY <1>1, Declared
<1>4. CASE Index(n) = 1
  BY <1>1, <1>4 DEF siblings
<1>5. CASE Index(n) # 1
  <2>1. SubNodes[p][1] # n
    BY <1>1, <1>2, <1>3, <1>5
  <2>2. siblings[n] = CHOOSE s \in Node : \E i \in 2 .. Len(SubNodes[p]) :
                          SubNodes[p][i] = n /\ SubNodes[p][i - 1] = s
    BY <2>1 DEF siblings
  <2>3. Index(n) \in 2 .. Len(SubNodes[p]) /\ Index(n) - 1 \in DOMAIN SubNodes[p]
    BY <1>1, <1>2, <1>5
  <2>4. SubNodes[p][Index(n) - 1] \in Node
    BY <1>1, <2>3, SubNodesType
  <2>5. \E i \in 2 .. Len(SubNodes[p]) :
           SubNodes[p][i] = n /\ SubNodes[p][i - 1] = siblings[n]
    <3> HIDE DEF p
    <3> QED
      BY <1>1, <2>2, <2>3, <2>4
  <2>6. siblings[n] = SubNodes[p][Index(n) - 1]
    BY <2>5, <1>2, <1>3
  <2>7. siblings[n] \in Kids(p)
    BY <1>1, <2>3, <2>6, KidsDeclared
  <2>8. Index(siblings[n]) = Index(n) - 1
    <3>1. siblings[n] \in Node \ {Root} /\ parent[siblings[n]] = p
      BY <2>7 DEF Kids
    <3> QED
      BY <1>1, <2>3, <2>6, <3>1, Declared
  <2> QED
    BY <1>5, <2>7, <2>8
<1> QED
  BY <1>4, <1>5

\* The region a walk goes on to is another one of the same parent.
LEMMA NextRegionIs ==
    ASSUME NEW n \in Node, NextRegion(n) # NoNode
    PROVE  /\ Region(n) /\ n \in Kids(parent[n]) /\ parent[n] \in Node
           /\ NextRegion(n) \in Kids(parent[n])
           /\ Index(NextRegion(n)) = Index(n) - 1
           /\ NextRegion(n) # n
<1>1. n \in Node \ {Root} /\ Region(n)
  BY DEF NextRegion, Region
<1>2. NextRegion(n) = siblings[n]
  BY <1>1 DEF NextRegion, Region
<1>3. parent[n] \in Node /\ n \in Kids(parent[n])
  BY <1>1, Declared DEF Kids
<1>4. Index(n) # 1
  BY <1>1, <1>2, SiblingIsBefore
<1>5. NextRegion(n) \in Kids(parent[n]) /\ Index(NextRegion(n)) = Index(n) - 1
  BY <1>1, <1>2, <1>4, SiblingIsBefore
<1>6. Index(n) \in Nat
  BY <1>1, IndexIsNat
<1> QED
  BY <1>1, <1>3, <1>5, <1>6

\* A walk along the regions meets nodes, and after the first only regions of
\* its parent.
LEMMA ChainType ==
    ASSUME NEW n \in Node, NEW m \in Chain(n)
    PROVE  /\ m \in Node
           /\ m # n => /\ Region(n) /\ Region(m)
                       /\ m \in Node \ {Root} /\ n \in Node \ {Root}
                       /\ parent[m] = parent[n]
  BY DEF Chain, Kids, Region

\* What has no region beside it is a chain by itself.
LEMMA ChainAlone ==
    ASSUME NEW n \in Node, ~Region(n)
    PROVE  Chain(n) = {n}
  BY DEF Chain

\* A walk along the regions comes to the whole chain, to each member once.
LEMMA ChainGoesOn ==
    ASSUME NEW n \in Node
    PROVE  /\ NextRegion(n) = NoNode => Chain(n) = {n}
           /\ NextRegion(n) # NoNode =>
                 /\ Chain(n) = {n} \cup Chain(NextRegion(n))
                 /\ n \notin Chain(NextRegion(n))
<1>1. ASSUME NextRegion(n) = NoNode PROVE Chain(n) = {n}
  <2>1. CASE ~Region(n)
    BY <2>1, ChainAlone
  <2>2. CASE Region(n)
    <3>1. n \in Node \ {Root}
      BY <2>2 DEF Region
    <3>2. siblings[n] = NoNode
      BY <1>1, <2>2 DEF Region, NextRegion
    <3>3. Index(n) = 1
      <4>1. NoNode \notin Kids(parent[n])
        BY TreeAssumption DEF Kids
      <4> QED
        BY <3>1, <3>2, <4>1, SiblingIsBefore
    <3>4. ASSUME NEW m \in Kids(parent[n]) PROVE ~(Index(m) < Index(n))
      BY <3>3, IndexIsNat DEF Kids
    <3> QED
      BY <3>4 DEF Chain
  <2> QED
    BY <2>1, <2>2
<1>2. ASSUME NextRegion(n) # NoNode
      PROVE  /\ Chain(n) = {n} \cup Chain(NextRegion(n))
             /\ n \notin Chain(NextRegion(n))
  <2> DEFINE r == NextRegion(n)
             p == parent[n]
  <2>1. /\ Region(n) /\ n \in Kids(p) /\ p \in Node
        /\ r \in Kids(p)
        /\ Index(r) = Index(n) - 1
        /\ r # n
    BY <1>2, NextRegionIs
  <2>2. parent[r] = p /\ r \in Node \ {Root} /\ n \in Node \ {Root} /\ Region(r)
    BY <2>1 DEF Kids, Region
  <2>3. \A m \in Kids(p) : Index(m) \in Nat /\ m \in Node \ {Root} /\ parent[m] = p
    BY IndexIsNat DEF Kids
  <2>4. Index(n) \in Nat /\ Index(r) \in Nat
    BY <2>1, <2>3
  <2>5. \A m \in Kids(p) : Index(m) < Index(n) <=> m = r \/ Index(m) < Index(r)
    <3> TAKE m \in Kids(p)
    <3>1. Index(m) = Index(r) => m = r
      BY <2>2, <2>3, IndexDiffers
    <3> HIDE DEF r, p
    <3> QED
      BY <2>1, <2>3, <2>4, <3>1
  <2>6. Chain(n) = {n} \cup {m \in Kids(p) : Index(m) < Index(n)}
    BY <2>1 DEF Chain
  <2>7. Chain(r) = {r} \cup {m \in Kids(p) : Index(m) < Index(r)}
    BY <2>2 DEF Chain
  <2> HIDE DEF r, p
  <2>8. ~(Index(n) < Index(r))
    BY <2>1, <2>4
  <2> QED
    BY <2>1, <2>5, <2>6, <2>7, <2>8 DEF r
<1> QED
  BY <1>1, <1>2

\* From children, a walk comes to every region of a parallel state.
LEMMA ChainOfAll ==
    ASSUME NEW n \in Node, Parallel(n)
    PROVE  children[n] \in Kids(n) /\ Chain(children[n]) = Kids(n)
<1> DEFINE c == children[n]
<1>1. c \in Kids(n) /\ \A m \in Kids(n) : Index(m) <= Index(c)
  BY ParallelHasKids, ChildrenIsLast
<1>2. c \in Node \ {Root} /\ parent[c] = n /\ Region(c)
  BY <1>1 DEF Kids, Region
<1>3. \A m \in Kids(n) : m = c \/ Index(m) < Index(c)
  <2> TAKE m \in Kids(n)
  <2>1. m \in Node \ {Root} /\ parent[m] = n
    BY DEF Kids
  <2>2. Index(m) \in Nat /\ Index(c) \in Nat /\ Index(m) <= Index(c)
    BY <1>1, <1>2, <2>1, IndexIsNat
  <2>3. Index(m) = Index(c) => m = c
    BY <1>2, <2>1, IndexDiffers
  <2> HIDE DEF c
  <2> QED
    BY <2>2, <2>3
<1> QED
  BY <1>1, <1>2, <1>3 DEF Chain
--------------------------------------------------------------------------------
(* What is above a node *)

\* A set that holds the parent of every node in it.
Closed(s) == \A x \in s : x # Root => parent[x] \in s

\* The least such set around n: what Upward comes to.
Over(n) == {m \in Node : \A s \in SUBSET Node : n \in s /\ Closed(s) => m \in s}

\* Over, the least set closed under parent, as an equation.
LEMMA OverGoesOn ==
    ASSUME NEW n \in Node
    PROVE  Over(n) = {n} \cup IF n = Root THEN {} ELSE Over(parent[n])
<1>1. n \in Over(n)
  BY DEF Over
<1>2. CASE n = Root
  <2>1. {n} \in SUBSET Node /\ Closed({n})
    BY <1>2 DEF Closed
  <2>2. Over(n) \subseteq {n}
    BY <2>1 DEF Over
  <2> QED
    BY <1>1, <1>2, <2>2
<1>3. CASE n # Root
  <2>1. parent[n] \in Node
    BY <1>3, Declared
  <2>2. Over(parent[n]) \subseteq Over(n)
    BY <1>3, <2>1 DEF Over, Closed
  <2>3. ASSUME NEW m \in Over(n), m # n PROVE m \in Over(parent[n])
    <3>1. SUFFICES ASSUME NEW s \in SUBSET Node, parent[n] \in s, Closed(s) PROVE m \in s
      BY DEF Over
    <3>2. s \cup {n} \in SUBSET Node /\ Closed(s \cup {n})
      BY <3>1 DEF Closed
    <3>3. m \in s \cup {n}
      BY <3>2 DEF Over
    <3> QED
      BY <2>3, <3>3
  <2> QED
    BY <1>1, <1>3, <2>2, <2>3
<1> QED
  BY <1>2, <1>3

\* The recursive definition of Upward has a meaning.
LEMMA UpwardGoesOn ==
    /\ DOMAIN Upward = Node
    /\ \A n \in Node : Upward[n] = {n} \cup IF n = Root THEN {} ELSE Upward[parent[n]]
<1> DEFINE F(g) == [n \in Node |-> {n} \cup IF n = Root THEN {} ELSE g[parent[n]]]
           h == [n \in Node |-> Over(n)]
<1>1. h = F(h)
  <2>1. ASSUME NEW n \in Node PROVE h[n] = F(h)[n]
    BY OverGoesOn, Declared
  <2> QED
    BY <2>1
<1>2. Upward = CHOOSE g : g = F(g)
  BY DEF Upward
<1> HIDE DEF F, h
<1>3. Upward = F(Upward)
  BY <1>1, <1>2, Zenon
<1> QED
  BY <1>3 DEF F

\* Upward as an equation: the node, and what is above its parent.
LEMMA UpwardStep ==
    /\ Upward[Root] = {Root}
    /\ \A n \in Node : n \in Upward[n]
    /\ \A n \in Node \ {Root} : Upward[n] = {n} \cup Upward[parent[n]]
<1>1. Root \in Node
  BY RootIsNode
<1>2. \A n \in Node : Upward[n] = {n} \cup IF n = Root THEN {} ELSE Upward[parent[n]]
  BY UpwardGoesOn
<1> QED
  BY <1>1, <1>2

\* A set of naturals with a member has a least one.
LEMMA Least ==
    ASSUME NEW T \in SUBSET Nat, T # {}
    PROVE  \E x \in T : \A y \in T : x <= y
<1> SUFFICES ASSUME \A x \in T : \E y \in T : y < x PROVE FALSE
  OBVIOUS
<1>1. PICK t \in T : TRUE
  OBVIOUS
<1> DEFINE B == {x \in 0 .. t : \A y \in T : x <= y}
<1>2. IsFiniteSet(B) /\ 0 \in B
  <2>1. t \in Nat /\ 0 \in Int /\ B \subseteq 0 .. t
    BY <1>1
  <2>2. IsFiniteSet(0 .. t)
    BY <2>1, FS_Interval
  <2>3. 0 \in B
    BY <2>1
  <2> QED
    BY <2>1, <2>2, <2>3, FS_Subset
<1>3. \A x \in B : x + 1 \in B \ {0}
  <2> TAKE x \in B
  <2>1. x \notin T
    OBVIOUS
  <2>2. \A y \in T : x \in Nat /\ y \in Nat /\ x <= y /\ x # y
    BY <2>1
  <2>3. \A y \in T : x + 1 <= y
    BY <2>2
  <2>4. t \in Nat /\ x \in Nat /\ x + 1 <= t
    BY <1>1, <2>2, <2>3
  <2>5. x + 1 \in 0 .. t /\ x + 1 # 0
    BY <2>4
  <2> QED
    BY <2>3, <2>5
<1> DEFINE f == [x \in B |-> x + 1]
<1>4. f \in [B -> B \ {0}] /\ \A x, y \in B : f[x] = f[y] => x = y
  BY <1>3
<1> HIDE DEF f, B
<1>5. IsFiniteSet(B \ {0}) /\ Cardinality(B \ {0}) = Cardinality(B) - 1
  BY <1>2, FS_RemoveElement
<1>6. Cardinality(B) \in Nat
  BY <1>2, FS_CardinalityType
<1>7. Cardinality(B \ {0}) < Cardinality(B)
  BY <1>5, <1>6
<1>8. \E x, y \in B : x # y /\ f[x] = f[y]
  BY <1>2, <1>4, <1>5, <1>7, FS_PigeonHole
<1> QED
  BY <1>4, <1>8

\* Some node of a set lies no deeper than the others.
LEMMA Shallowest ==
    ASSUME NEW S \in SUBSET Node, S # {}
    PROVE  \E x \in S : \A y \in S : depth[x] <= depth[y]
<1>1. {depth[x] : x \in S} \in SUBSET Nat /\ {depth[x] : x \in S} # {}
  BY DepthAssumption
<1>2. \E d \in {depth[x] : x \in S} : \A e \in {depth[x] : x \in S} : d <= e
  BY <1>1, Least
<1> QED
  BY <1>2

\* A node is one level below its parent.
LEMMA DepthOfParent ==
    ASSUME NEW n \in Node
    PROVE  /\ depth[n] \in Nat
           /\ n = Root => depth[n] = 0
           /\ n # Root => /\ parent[n] \in Node
                          /\ depth[parent[n]] \in Nat
                          /\ depth[n] = depth[parent[n]] + 1
  BY DepthAssumption, Declared

\* The recursive function and the least closed set are the same.
LEMMA UpwardIsOver ==
    ASSUME NEW n \in Node
    PROVE  Upward[n] = Over(n)
<1> DEFINE Bad == {x \in Node : Upward[x] # Over(x)}
<1>1. SUFFICES ASSUME Bad # {} PROVE FALSE
  OBVIOUS
<1>2. PICK x \in Bad : \A y \in Bad : depth[x] <= depth[y]
  BY <1>1, Shallowest
<1>3. x \in Node /\ Upward[x] # Over(x)
  BY <1>2
<1>4. Upward[x] = {x} \cup IF x = Root THEN {} ELSE Upward[parent[x]]
  BY <1>3, UpwardGoesOn
<1>5. Over(x) = {x} \cup IF x = Root THEN {} ELSE Over(parent[x])
  BY <1>3, OverGoesOn
<1>6. x # Root /\ Upward[parent[x]] # Over(parent[x])
  BY <1>3, <1>4, <1>5
<1>7. parent[x] \in Bad
  BY <1>3, <1>6, DepthOfParent
<1> QED
  BY <1>2, <1>3, <1>6, <1>7, DepthOfParent

\* What holds of n, and of the parent of whatever it holds of, holds of
\* everything above n.
LEMMA UpwardLeast ==
    ASSUME NEW n \in Node, NEW s \in SUBSET Node, n \in s, Closed(s)
    PROVE  Upward[n] \subseteq s
  BY UpwardIsOver DEF Over

\* What is above a node are nodes.
LEMMA UpwardType ==
    ASSUME NEW n \in Node
    PROVE  Upward[n] \in SUBSET Node
  BY UpwardIsOver DEF Over

\* With a node, its parent is above n.
LEMMA UpwardClosed ==
    ASSUME NEW n \in Node
    PROVE  Closed(Upward[n])
<1> SUFFICES ASSUME NEW x \in Over(n), x # Root PROVE parent[x] \in Over(n)
  BY UpwardIsOver DEF Closed
<1>1. parent[x] \in Node
  BY Declared DEF Over
<1> QED
  BY <1>1 DEF Over, Closed

\* What is above what is above n is above n.
LEMMA UpwardTransitive ==
    ASSUME NEW n \in Node, NEW m \in Upward[n]
    PROVE  m \in Node /\ Upward[m] \subseteq Upward[n]
  BY UpwardType, UpwardClosed, UpwardLeast

\* What is above is less deep.
LEMMA UpwardIsShallower ==
    ASSUME NEW n \in Node, NEW m \in Upward[n]
    PROVE  m = n \/ depth[m] < depth[n]
<1> DEFINE s == {x \in Node : x = n \/ depth[x] < depth[n]}
<1>1. s \in SUBSET Node /\ n \in s
  OBVIOUS
<1>2. ASSUME NEW x \in s, x # Root PROVE parent[x] \in s
  <2>1. x \in Node /\ (x = n \/ depth[x] < depth[n])
    OBVIOUS
  <2>2. /\ depth[x] \in Nat /\ parent[x] \in Node
        /\ depth[parent[x]] \in Nat /\ depth[x] = depth[parent[x]] + 1
    BY <2>1, <1>2, DepthOfParent
  <2>3. depth[n] \in Nat
    BY DepthOfParent
  <2>4. depth[parent[x]] < depth[n]
    BY <2>1, <2>2, <2>3
  <2> QED
    BY <2>2, <2>4
<1>3. Closed(s)
  BY <1>2 DEF Closed
<1>4. Upward[n] \subseteq s
  BY <1>1, <1>3, UpwardLeast
<1> QED
  BY <1>4

\* No two nodes are above each other.
LEMMA UpwardAntisymmetric ==
    ASSUME NEW m \in Node, NEW n \in Node, m \in Upward[n], n \in Upward[m]
    PROVE  m = n
  BY UpwardIsShallower, DepthOfParent

\* The parent is above the node, and not the node above it.
LEMMA ParentIsAbove ==
    ASSUME NEW n \in Node \ {Root}
    PROVE  /\ parent[n] \in Node /\ parent[n] # n
           /\ parent[n] \in Upward[n]
           /\ n \notin Upward[parent[n]]
<1>1. parent[n] \in Node
  BY Declared
<1>2. parent[n] \in Upward[n]
  BY <1>1, UpwardStep
<1>3. n \notin Upward[parent[n]]
  BY <1>1, DepthOfParent, UpwardIsShallower
<1> QED
  BY <1>1, <1>2, <1>3, UpwardStep

\* Of two nodes above a third, one is above the other.
LEMMA UpwardIsLine ==
    ASSUME NEW n \in Node, NEW a \in Upward[n], NEW b \in Upward[n]
    PROVE  a \in Upward[b] \/ b \in Upward[a]
<1> DEFINE s == {x \in Upward[n] : x \in Upward[b] \/ b \in Upward[x]}
<1>1. s \in SUBSET Node /\ n \in s /\ b \in Node
  BY UpwardType, UpwardStep
<1>2. ASSUME NEW x \in s, x # Root PROVE parent[x] \in s
  <2>1. x \in Upward[n] /\ x \in Node \ {Root} /\ parent[x] \in Upward[n]
    BY <1>1, <1>2, UpwardClosed DEF Closed
  <2>2. Upward[x] = {x} \cup Upward[parent[x]] /\ parent[x] \in Upward[x]
    BY <2>1, UpwardStep, ParentIsAbove
  <2>3. CASE x \in Upward[b]
    BY <1>1, <1>2, <2>1, <2>3, UpwardClosed DEF Closed
  <2>4. CASE b \in Upward[x]
    BY <2>1, <2>2, <2>4
  <2> QED
    BY <2>3, <2>4
<1>3. Closed(s)
  BY <1>2 DEF Closed
<1>4. Upward[n] \subseteq s
  BY <1>1, <1>3, UpwardLeast
<1> QED
  BY <1>4

\* Below a node, the way leads through one of its sub-nodes.
LEMMA KidOnTheWay ==
    ASSUME NEW m \in Node, NEW n \in Upward[m], n # m
    PROVE  \E k \in Kids(n) : k \in Upward[m]
<1> DEFINE s == {x \in Upward[m] : x = m \/ \E k \in Kids(x) : k \in Upward[m]}
<1>1. s \in SUBSET Node /\ m \in s
  BY UpwardType, UpwardStep
<1>2. ASSUME NEW x \in s, x # Root PROVE parent[x] \in s
  <2>1. x \in Upward[m] /\ x \in Node \ {Root} /\ parent[x] \in Upward[m]
    BY <1>1, <1>2, UpwardClosed DEF Closed
  <2>2. x \in Kids(parent[x])
    BY <2>1 DEF Kids
  <2> QED
    BY <2>1, <2>2
<1>3. Closed(s)
  BY <1>2 DEF Closed
<1>4. Upward[m] \subseteq s
  BY <1>1, <1>3, UpwardLeast
<1> QED
  BY <1>4

\* No node is below two siblings.
LEMMA SiblingsApart ==
    ASSUME NEW a \in Node \ {Root}, NEW b \in Node \ {Root}, parent[a] = parent[b],
           NEW x \in Node, a \in Upward[x], b \in Upward[x]
    PROVE  a = b
<1>1. a \in Upward[b] \/ b \in Upward[a]
  BY UpwardIsLine
<1>2. /\ Upward[a] = {a} \cup Upward[parent[a]] /\ a \notin Upward[parent[a]]
      /\ Upward[b] = {b} \cup Upward[parent[b]] /\ b \notin Upward[parent[b]]
  BY UpwardStep, ParentIsAbove
<1> QED
  BY <1>1, <1>2
\* What is below a sub-node of n is below n, and not n.
LEMMA KidAbove ==
    ASSUME NEW n \in Node, NEW k \in Kids(n), NEW x \in Node, k \in Upward[x]
    PROVE  n \in Upward[x] /\ x # n /\ x \notin Upward[n] /\ k # n
<1>1. k \in Node \ {Root} /\ parent[k] = n
  BY DEF Kids
<1>2. n \in Upward[k] /\ k \notin Upward[n]
  BY <1>1, ParentIsAbove
<1>3. n \in Upward[x]
  BY <1>2, UpwardTransitive
<1>4. x \notin Upward[n]
  BY <1>2, UpwardTransitive
<1>5. n \in Upward[n]
  BY UpwardStep
<1> QED
  BY <1>2, <1>3, <1>4, <1>5

\* What is below n is n, or below one of its sub-nodes.
LEMMA BelowByKid ==
    ASSUME NEW n \in Node, NEW x \in Node
    PROVE  n \in Upward[x] <=> x = n \/ \E k \in Kids(n) : k \in Upward[x]
  BY KidOnTheWay, KidAbove, UpwardStep

\* What is below one sibling is not above what is below another.
LEMMA BelowApart ==
    ASSUME NEW a \in Node \ {Root}, NEW b \in Node \ {Root}, parent[a] = parent[b], a # b,
           NEW x \in Node, a \in Upward[x], NEW y \in Node, b \in Upward[y]
    PROVE  x \notin Upward[y] /\ x # y /\ (y \in Node \ {Root} => x # parent[y] \/ y = b)
<1>1. x \notin Upward[y]
  BY SiblingsApart, UpwardTransitive
<1>2. y \in Upward[y] /\ (y # Root => parent[y] \in Upward[y])
  BY UpwardStep, ParentIsAbove
<1> QED
  BY <1>1, <1>2

--------------------------------------------------------------------------------
(* The climb of vivid_transit *)

\* On the way up there is a node of every depth.
LEMMA EveryDepth ==
    ASSUME NEW n \in Node, NEW d \in Nat, d <= depth[n]
    PROVE  \E m \in Upward[n] : depth[m] = d
<1> DEFINE S == {x \in Upward[n] : depth[x] >= d}
<1>1. S \in SUBSET Node /\ n \in S
  BY UpwardType, UpwardStep, DepthOfParent
<1>2. PICK x \in S : \A y \in S : depth[x] <= depth[y]
  BY <1>1, Shallowest
<1>3. x \in Node /\ x \in Upward[n] /\ depth[x] >= d /\ depth[x] \in Nat
  BY <1>1, <1>2, DepthOfParent
<1>4. ASSUME depth[x] # d PROVE FALSE
  <2>1. x # Root /\ depth[x] > d
    BY <1>3, <1>4, DepthOfParent
  <2>2. parent[x] \in Upward[n]
    BY <1>3, <2>1, UpwardClosed DEF Closed
  <2>3. depth[parent[x]] \in Nat /\ depth[x] = depth[parent[x]] + 1
    BY <1>3, <2>1, DepthOfParent
  <2>4. parent[x] \in S
    BY <2>1, <2>2, <2>3
  <2> QED
    BY <1>2, <2>3, <2>4
<1> QED
  BY <1>3, <1>4

\* One node above n at each depth.
LEMMA SameDepthSame ==
    ASSUME NEW n \in Node, NEW a \in Upward[n], NEW b \in Upward[n], depth[a] = depth[b]
    PROVE  a = b
<1>1. a \in Node /\ b \in Node /\ depth[a] \in Nat
  BY UpwardType, DepthOfParent
<1>2. a \in Upward[b] \/ b \in Upward[a]
  BY UpwardIsLine
<1> QED
  BY <1>1, <1>2, UpwardIsShallower

\* The node at or above n that is no deeper than d, and the deepest such.
Lifted(n, d) ==
    IF depth[n] > d THEN CHOOSE m \in Upward[n] : depth[m] = d ELSE n

\* Lifted, what is above n at depth d, as an equation.
LEMMA LiftedGoesOn ==
    ASSUME NEW n \in Node, NEW d \in Nat
    PROVE  Lifted(n, d) = IF depth[n] > d THEN Lifted(parent[n], d) ELSE n
<1>1. SUFFICES ASSUME depth[n] > d PROVE Lifted(n, d) = Lifted(parent[n], d)
  BY DEF Lifted
<1> DEFINE p == parent[n]
<1>2. n # Root /\ p \in Node /\ depth[p] \in Nat /\ depth[n] = depth[p] + 1
  BY <1>1, DepthOfParent
<1>3. p \in Upward[n] /\ Upward[p] \subseteq Upward[n]
  BY <1>2, ParentIsAbove, UpwardTransitive
<1>4. \E m \in Upward[p] : depth[m] = d
  BY <1>1, <1>2, EveryDepth
<1>5. PICK m \in Upward[p] : depth[m] = d
  BY <1>4
<1>6. \A x \in Upward[n] : depth[x] = d => x = m
  BY <1>3, <1>5, SameDepthSame
<1>7. Lifted(n, d) = m
  BY <1>1, <1>3, <1>5, <1>6 DEF Lifted
<1>8. CASE depth[p] > d
  <2>1. \A x \in Upward[p] : depth[x] = d => x = m
    BY <1>3, <1>6
  <2> QED
    BY <1>5, <1>7, <1>8, <2>1 DEF Lifted
<1>9. CASE depth[p] = d
  <2>1. p = m
    BY <1>3, <1>6, <1>9
  <2>2. ~(depth[p] > d)
    BY <1>2, <1>9
  <2> QED
    BY <1>7, <2>1, <2>2 DEF Lifted
<1> QED
  BY <1>1, <1>2, <1>8, <1>9

\* The first loops of vivid_transit go up one level at a time.
LEMMA ClimbGoesOn ==
    ASSUME NEW d \in Nat
    PROVE  \A n \in Node : Climb(n, d) = IF depth[n] > d THEN Climb(parent[n], d) ELSE n
<1> DEFINE F(g) == [n \in Node |-> IF depth[n] > d THEN g[parent[n]] ELSE n]
           h == [n \in Node |-> Lifted(n, d)]
           c == CHOOSE g : g = F(g)
<1>1. h = F(h)
  <2>1. ASSUME NEW n \in Node
        PROVE  Lifted(n, d) = IF depth[n] > d THEN h[parent[n]] ELSE n
    <3>1. depth[n] > d => parent[n] \in Node
      BY DepthOfParent
    <3> QED
      BY <3>1, LiftedGoesOn
  <2> HIDE DEF Lifted
  <2> QED
    BY <2>1
<1>2. \A n : Climb(n, d) = c[n]
  BY DEF Climb
<1> HIDE DEF F, h
<1>3. c = F(c)
  BY <1>1, Zenon
<1> HIDE DEF c
<1>4. \A n \in Node : c[n] = IF depth[n] > d THEN c[parent[n]] ELSE n
  BY <1>3 DEF F
<1> SUFFICES ASSUME NEW n \in Node
             PROVE  Climb(n, d) = IF depth[n] > d THEN Climb(parent[n], d) ELSE n
  OBVIOUS
<1>5. Climb(n, d) = c[n] /\ Climb(parent[n], d) = c[parent[n]]
  BY <1>2
<1> QED
  BY <1>4, <1>5

\* The climb ends on the way up, as deep as it may be.
LEMMA ClimbEnds ==
    ASSUME NEW d \in Nat, NEW n \in Node
    PROVE  /\ Climb(n, d) \in Upward[n]
           /\ depth[Climb(n, d)] = IF depth[n] > d THEN d ELSE depth[n]
<1> DEFINE Good(x) == /\ Climb(x, d) \in Upward[x]
                      /\ depth[Climb(x, d)] = IF depth[x] > d THEN d ELSE depth[x]
           Bad == {x \in Node : ~Good(x)}
<1>1. SUFFICES ASSUME Bad # {} PROVE FALSE
  OBVIOUS
<1>2. PICK x \in Bad : \A y \in Bad : depth[x] <= depth[y]
  BY <1>1, Shallowest
<1>3. x \in Node /\ depth[x] \in Nat /\ ~Good(x)
  BY <1>2, DepthOfParent
<1>4. Climb(x, d) = IF depth[x] > d THEN Climb(parent[x], d) ELSE x
  BY <1>3, ClimbGoesOn
<1>5. CASE ~(depth[x] > d)
  BY <1>3, <1>4, <1>5, UpwardStep
<1>6. CASE depth[x] > d
  <2>1. /\ x # Root /\ parent[x] \in Node
        /\ depth[parent[x]] \in Nat /\ depth[x] = depth[parent[x]] + 1
    BY <1>3, <1>6, DepthOfParent
  <2>2. parent[x] \notin Bad
    BY <1>2, <1>3, <2>1
  <2>3. Good(parent[x])
    BY <2>1, <2>2
  <2>4. Climb(x, d) = Climb(parent[x], d) /\ Upward[parent[x]] \subseteq Upward[x]
    BY <1>3, <1>4, <1>6, <2>1, UpwardStep
  <2>5. depth[Climb(x, d)] = d
    BY <1>6, <2>1, <2>3, <2>4
  <2> QED
    BY <1>3, <1>6, <2>3, <2>4, <2>5
<1> QED
  BY <1>5, <1>6

\* The deepest node above both.
Lowest(m, n) == CHOOSE a \in Common(m, n) : Common(m, n) \subseteq Upward[a]

\* Two nodes of one depth have above both what their parents have.
LEMMA CommonGoesOn ==
    ASSUME NEW m \in Node, NEW n \in Node, depth[m] = depth[n], m # n
    PROVE  /\ m # Root /\ n # Root
           /\ parent[m] \in Node /\ parent[n] \in Node /\ depth[parent[m]] = depth[parent[n]]
           /\ Common(m, n) = Common(parent[m], parent[n])
<1>1. m # Root /\ n # Root
  BY DepthOfParent
<1>2. /\ parent[m] \in Node /\ depth[parent[m]] \in Nat /\ depth[m] = depth[parent[m]] + 1
      /\ parent[n] \in Node /\ depth[parent[n]] \in Nat /\ depth[n] = depth[parent[n]] + 1
  BY <1>1, DepthOfParent
<1>3. m \notin Upward[n] /\ n \notin Upward[m]
  <2>1. m \in Upward[n] => depth[m] < depth[n]
    BY UpwardIsShallower
  <2>2. n \in Upward[m] => depth[n] < depth[m]
    BY UpwardIsShallower
  <2> QED
    BY <1>2, <2>1, <2>2
<1>4. Upward[m] = {m} \cup Upward[parent[m]] /\ Upward[n] = {n} \cup Upward[parent[n]]
  BY <1>1, UpwardStep
<1>5. Common(m, n) = Common(parent[m], parent[n])
  BY <1>3, <1>4 DEF Common
<1>6. depth[parent[m]] = depth[parent[n]]
  <2>1. \A i, j \in Nat : i + 1 = j + 1 => i = j
    OBVIOUS
  <2>2. depth[parent[m]] + 1 = depth[parent[n]] + 1
    BY <1>2
  <2> QED
    BY <1>2, <2>1, <2>2
<1> QED
  BY <1>1, <1>2, <1>5, <1>6

\* The last loop of vivid_transit goes up one level at a time.
LEMMA MeetGoesOn ==
    \A m, n \in Node : depth[m] = depth[n] =>
       meet[<<m, n>>] = IF m = n THEN m ELSE meet[<<parent[m], parent[n]>>]
<1> DEFINE F(g) == [pair \in Level |->
                       IF pair[1] = pair[2] THEN pair[1]
                       ELSE g[<<parent[pair[1]], parent[pair[2]]>>]]
           h == [pair \in Level |-> Lowest(pair[1], pair[2])]
<1>1. h = F(h)
  <2>1. ASSUME NEW pair \in Level
        PROVE  h[pair] = IF pair[1] = pair[2] THEN pair[1]
                         ELSE h[<<parent[pair[1]], parent[pair[2]]>>]
    <3> DEFINE m == pair[1]
               n == pair[2]
    <3>1. m \in Node /\ n \in Node /\ depth[m] = depth[n]
      BY DEF Level
    <3>2. CASE m = n
      <4>1. Common(m, n) = Upward[m] /\ m \in Upward[m]
        BY <3>1, <3>2, UpwardStep DEF Common
      <4>2. \A a \in Upward[m] : Upward[m] \subseteq Upward[a] => a = m
        BY <3>1, <4>1, UpwardAntisymmetric, UpwardType
      <4>3. Lowest(m, n) = m
        BY <4>1, <4>2 DEF Lowest
      <4> QED
        BY <3>2, <4>3
    <3>3. CASE m # n
      <4>1. /\ parent[m] \in Node /\ parent[n] \in Node
            /\ depth[parent[m]] = depth[parent[n]]
            /\ Common(m, n) = Common(parent[m], parent[n])
        BY <3>1, <3>3, CommonGoesOn
      <4>2. Lowest(m, n) = Lowest(parent[m], parent[n])
        BY <4>1 DEF Lowest
      <4>3. <<parent[m], parent[n]>> \in Level
        BY <4>1 DEF Level
      <4> HIDE DEF Lowest
      <4> QED
        BY <3>3, <4>2, <4>3
    <3> QED
      BY <3>2, <3>3
  <2> QED
    BY <2>1
<1>2. meet = CHOOSE g : g = F(g)
  BY DEF meet
<1> HIDE DEF F, h
<1>3. meet = F(meet)
  BY <1>1, <1>2, Zenon
<1>4. ASSUME NEW m \in Node, NEW n \in Node, depth[m] = depth[n]
      PROVE  meet[<<m, n>>] = IF m = n THEN m ELSE meet[<<parent[m], parent[n]>>]
  <2>1. <<m, n>> \in Level
    BY <1>4 DEF Level
  <2> QED
    BY <1>3, <2>1 DEF F
<1> QED
  BY <1>4

\* From two nodes at one level, the climb ends at the deepest one above both.
LEMMA MeetEnds ==
    ASSUME NEW m \in Node, NEW n \in Node, depth[m] = depth[n]
    PROVE  /\ meet[<<m, n>>] \in Common(m, n)
           /\ Common(m, n) \subseteq Upward[meet[<<m, n>>]]
<1> DEFINE Good(x, y) == /\ meet[<<x, y>>] \in Common(x, y)
                         /\ Common(x, y) \subseteq Upward[meet[<<x, y>>]]
           Bad == {x \in Node : \E y \in Node : depth[x] = depth[y] /\ ~Good(x, y)}
<1>1. SUFFICES ASSUME Bad # {} PROVE FALSE
  OBVIOUS
<1>2. PICK x \in Bad : \A z \in Bad : depth[x] <= depth[z]
  BY <1>1, Shallowest
<1>3. PICK y \in Node : depth[x] = depth[y] /\ ~Good(x, y)
  BY <1>2
<1>4. x \in Node /\ depth[x] \in Nat
  BY <1>2, DepthOfParent
<1>5. meet[<<x, y>>] = IF x = y THEN x ELSE meet[<<parent[x], parent[y]>>]
  BY <1>3, <1>4, MeetGoesOn
<1>6. CASE x = y
  <2>1. meet[<<x, y>>] = x /\ x \in Upward[x] /\ Common(x, y) = Upward[x]
    BY <1>4, <1>5, <1>6, UpwardStep DEF Common
  <2> QED
    BY <1>3, <2>1
<1>7. CASE x # y
  <2>1. /\ parent[x] \in Node /\ parent[y] \in Node /\ x # Root
        /\ depth[parent[x]] = depth[parent[y]]
        /\ Common(x, y) = Common(parent[x], parent[y])
    BY <1>3, <1>4, <1>7, CommonGoesOn
  <2>2. depth[parent[x]] \in Nat /\ depth[x] = depth[parent[x]] + 1
    BY <1>4, <2>1, DepthOfParent
  <2>3. parent[x] \notin Bad
    <3>1. ~(depth[x] <= depth[parent[x]])
      BY <1>4, <2>2
    <3> HIDE DEF Bad
    <3> QED
      BY <1>2, <3>1
  <2>4. Good(parent[x], parent[y])
    BY <2>1, <2>3
  <2>5. meet[<<x, y>>] = meet[<<parent[x], parent[y]>>]
    BY <1>5, <1>7
  <2> QED
    BY <1>3, <2>1, <2>4, <2>5
<1> QED
  BY <1>6, <1>7

(***************************************************************************)
(* What vivid_transit climbs to from the two ends of a transition is above *)
(* both of them (each counts as above itself), and everything above both   *)
(* is above it: the loops end, and not a level too high or too low.        *)
(***************************************************************************)
THEOREM AncestorIsLowest ==
    \A source, target \in Node :
       /\ Ancestor(source, target) \in Upward[source] \cap Upward[target]
       /\ Upward[source] \cap Upward[target] \subseteq Upward[Ancestor(source, target)]
<1> SUFFICES ASSUME NEW s \in Node, NEW t \in Node
             PROVE  /\ Ancestor(s, t) \in Common(s, t)
                    /\ Common(s, t) \subseteq Upward[Ancestor(s, t)]
  BY DEF Common
<1> DEFINE a == Climb(s, depth[t])
           b == Climb(t, depth[s])
<1>1. depth[s] \in Nat /\ depth[t] \in Nat
  BY DepthOfParent
<1>2. a \in Upward[s] /\ depth[a] = IF depth[s] > depth[t] THEN depth[t] ELSE depth[s]
  BY <1>1, ClimbEnds
<1>3. b \in Upward[t] /\ depth[b] = IF depth[t] > depth[s] THEN depth[s] ELSE depth[t]
  BY <1>1, ClimbEnds
<1> HIDE DEF a, b
<1>4. /\ a \in Node /\ b \in Node /\ depth[a] = depth[b]
      /\ Upward[a] \subseteq Upward[s] /\ Upward[b] \subseteq Upward[t]
  BY <1>1, <1>2, <1>3, UpwardTransitive
<1>5. ASSUME NEW n \in Node, NEW top \in Upward[n], NEW x \in Upward[n], depth[x] <= depth[top]
      PROVE  x \in Upward[top]
  <2>1. x \in Upward[top] \/ top \in Upward[x]
    BY UpwardIsLine
  <2>2. x \in Node /\ top \in Node /\ depth[x] \in Nat /\ depth[top] \in Nat
    BY UpwardType, DepthOfParent
  <2> QED
    BY <1>5, <2>1, <2>2, UpwardIsShallower
<1>6. ASSUME NEW x \in Common(s, t) PROVE x \in Common(a, b)
  <2>1. x \in Upward[s] /\ x \in Upward[t] /\ x \in Node
    BY UpwardType DEF Common
  <2>2. depth[x] \in Nat /\ depth[x] <= depth[s] /\ depth[x] <= depth[t]
    BY <1>1, <2>1, DepthOfParent, UpwardIsShallower
  <2>3. depth[x] <= depth[a] /\ depth[x] <= depth[b]
    BY <1>1, <1>2, <1>3, <2>2
  <2> QED
    BY <1>2, <1>3, <1>5, <2>1, <2>3 DEF Common
<1>7. Common(a, b) = Common(s, t)
  BY <1>4, <1>6 DEF Common
<1>8. Ancestor(s, t) = meet[<<a, b>>]
  BY DEF Ancestor, a, b
<1> QED
  BY <1>4, <1>7, <1>8, MeetEnds

--------------------------------------------------------------------------------
(* Lists of calls *)

\* s makes the calls D, in an order in which all of them may be made.
Makes(s, D) == IsList(s) /\ Items(s) = D /\ Ordered(s)

\* The list of no calls.
LEMMA MakesNone == Makes(<<>>, {})
  BY DEF Makes, IsList, Items, Ordered

\* The list of one call.
LEMMA MakesOne ==
    ASSUME NEW a
    PROVE  Makes(<<a>>, {a})
<1>1. DOMAIN <<a>> = {1} /\ <<a>>[1] = a
  OBVIOUS
<1>2. Items(<<a>>) = {a}
  BY <1>1 DEF Items
<1>3. <<a>> \in Seq({a})
  OBVIOUS
<1>4. Ordered(<<a>>)
  BY <1>1 DEF Ordered
<1> QED
  BY <1>2, <1>3, <1>4 DEF Makes, IsList

\* What is in one list after the other.
LEMMA ItemsJoin ==
    ASSUME NEW s, IsList(s), NEW t, IsList(t)
    PROVE  Items(s \o t) = Items(s) \cup Items(t) /\ IsList(s \o t)
<1>1. s \in Seq(Items(s) \cup Items(t)) /\ t \in Seq(Items(s) \cup Items(t))
  BY DEF IsList
<1>2. /\ Len(s) \in Nat /\ Len(t) \in Nat
      /\ DOMAIN s = 1 .. Len(s) /\ DOMAIN t = 1 .. Len(t)
      /\ s \o t \in Seq(Items(s) \cup Items(t)) /\ DOMAIN (s \o t) = 1 .. Len(s) + Len(t)
      /\ \A i \in 1 .. Len(s) + Len(t) :
            (s \o t)[i] = IF i <= Len(s) THEN s[i] ELSE t[i - Len(s)]
  BY <1>1
<1>3. ASSUME NEW a \in Items(s) PROVE a \in Items(s \o t)
  <2>1. PICK i \in DOMAIN s : a = s[i]
    BY DEF Items
  <2>2. i \in DOMAIN (s \o t) /\ (s \o t)[i] = a
    BY <1>2, <2>1
  <2> QED
    BY <2>2 DEF Items
<1>4. ASSUME NEW a \in Items(t) PROVE a \in Items(s \o t)
  <2>1. PICK i \in DOMAIN t : a = t[i]
    BY DEF Items
  <2>2. i + Len(s) \in DOMAIN (s \o t) /\ (s \o t)[i + Len(s)] = a
    BY <1>2, <2>1
  <2> QED
    BY <2>2 DEF Items
<1>5. Items(s \o t) \subseteq Items(s) \cup Items(t)
  BY <1>2 DEF Items
<1>6. Items(s \o t) = Items(s) \cup Items(t)
  BY <1>3, <1>4, <1>5
<1> QED
  BY <1>2, <1>6 DEF IsList

\* Two lists, where every call of the one may be made before those of the
\* other.
LEMMA MakesJoin ==
    ASSUME NEW s, NEW D, Makes(s, D), NEW t, NEW E, Makes(t, E),
           \A a \in D, b \in E : Before(a, b)
    PROVE  Makes(s \o t, D \cup E)
<1>1. s \in Seq(D) /\ t \in Seq(E)
  BY DEF Makes, IsList
<1>2. s \in Seq(D \cup E) /\ t \in Seq(D \cup E)
  BY <1>1
<1>3. /\ Len(s) \in Nat /\ Len(t) \in Nat
      /\ DOMAIN s = 1 .. Len(s) /\ DOMAIN t = 1 .. Len(t)
      /\ s \o t \in Seq(D \cup E) /\ DOMAIN (s \o t) = 1 .. Len(s) + Len(t)
      /\ \A i \in 1 .. Len(s) + Len(t) :
            (s \o t)[i] = IF i <= Len(s) THEN s[i] ELSE t[i - Len(s)]
  BY <1>2
<1>4. \A i \in DOMAIN s : s[i] \in D
  BY <1>1
<1>5. \A i \in DOMAIN t : t[i] \in E
  BY <1>1
<1>6. Items(s \o t) = D \cup E /\ IsList(s \o t)
  BY ItemsJoin DEF Makes
<1>8. Ordered(s \o t)
  <2> SUFFICES ASSUME NEW i \in 1 .. Len(s) + Len(t), NEW j \in 1 .. Len(s) + Len(t), i < j
               PROVE  Before((s \o t)[i], (s \o t)[j])
    BY <1>3 DEF Ordered
  <2>1. CASE j <= Len(s)
    <3>1. i \in DOMAIN s /\ j \in DOMAIN s /\ (s \o t)[i] = s[i] /\ (s \o t)[j] = s[j]
      BY <1>3, <2>1
    <3> QED
      BY <3>1 DEF Makes, Ordered
  <2>2. CASE i > Len(s)
    <3>1. /\ i - Len(s) \in DOMAIN t /\ j - Len(s) \in DOMAIN t /\ i - Len(s) < j - Len(s)
          /\ (s \o t)[i] = t[i - Len(s)] /\ (s \o t)[j] = t[j - Len(s)]
      BY <1>3, <2>2
    <3> QED
      BY <3>1 DEF Makes, Ordered
  <2>3. CASE i <= Len(s) /\ j > Len(s)
    <3>1. /\ i \in DOMAIN s /\ j - Len(s) \in DOMAIN t
          /\ (s \o t)[i] = s[i] /\ (s \o t)[j] = t[j - Len(s)]
      BY <1>3, <2>3
    <3> QED
      BY <1>4, <1>5, <3>1
  <2> QED
    BY <1>3, <2>1, <2>2, <2>3
<1> QED
  BY <1>6, <1>8 DEF Makes

\* A list under a condition.
LEMMA MakesWhen ==
    ASSUME NEW p \in BOOLEAN, NEW s, NEW D, p => Makes(s, D)
    PROVE  Makes(When(p, s), IF p THEN D ELSE {})
  BY MakesNone DEF When

\* The list of two calls.
LEMMA MakesTwo ==
    ASSUME NEW a, NEW b, Before(a, b)
    PROVE  Makes(<<a, b>>, {a, b})
<1>1. Makes(<<a>> \o <<b>>, {a} \cup {b})
  BY MakesOne, MakesJoin
<1>2. <<a>> \o <<b>> = <<a, b>>
  <2>1. /\ <<a>> \in Seq({a, b}) /\ <<b>> \in Seq({a, b}) /\ <<a, b>> \in Seq({a, b})
        /\ Len(<<a>>) = 1 /\ Len(<<b>>) = 1 /\ Len(<<a, b>>) = 2
        /\ <<a>>[1] = a /\ <<b>>[1] = b /\ <<a, b>>[1] = a /\ <<a, b>>[2] = b
    OBVIOUS
  <2>2. /\ <<a>> \o <<b>> \in Seq({a, b}) /\ Len(<<a>> \o <<b>>) = 2
        /\ (<<a>> \o <<b>>)[1] = a /\ (<<a>> \o <<b>>)[2] = b
    BY <2>1
  <2>3. \A i \in 1 .. 2 : (<<a>> \o <<b>>)[i] = <<a, b>>[i]
    BY <2>1, <2>2
  <2> QED
    BY <2>1, <2>2, <2>3, SeqEqual
<1> QED
  BY <1>1, <1>2

\* The first call, and the others.
LEMMA MakesFirst ==
    ASSUME NEW s, IsList(s), Ordered(s), s # <<>>
    PROVE  /\ Items(s) = {Head(s)} \cup Items(Tail(s))
           /\ Makes(Tail(s), Items(Tail(s)))
           /\ \A b \in Items(Tail(s)) : Before(Head(s), b)
<1>1. /\ s \in Seq(Items(s)) /\ Len(s) \in Nat \ {0} /\ DOMAIN s = 1 .. Len(s)
      /\ Head(s) = s[1]
      /\ Tail(s) \in Seq(Items(s)) /\ Len(Tail(s)) = Len(s) - 1
      /\ DOMAIN Tail(s) = 1 .. Len(s) - 1
      /\ \A i \in 1 .. Len(s) - 1 : Tail(s)[i] = s[i + 1]
  BY DEF IsList
<1>2. Items(s) = {Head(s)} \cup Items(Tail(s))
  <2>1. ASSUME NEW a \in Items(s) PROVE a \in {Head(s)} \cup Items(Tail(s))
    <3>1. PICK i \in 1 .. Len(s) : a = s[i]
      BY <1>1 DEF Items
    <3>2. CASE i = 1
      BY <1>1, <3>1, <3>2
    <3>3. CASE i # 1
      <4>1. i - 1 \in DOMAIN Tail(s) /\ Tail(s)[i - 1] = a
        BY <1>1, <3>1, <3>3
      <4> QED
        BY <4>1 DEF Items
    <3> QED
      BY <3>2, <3>3
  <2>2. ASSUME NEW a \in Items(Tail(s)) PROVE a \in Items(s)
    <3>1. PICK i \in 1 .. Len(s) - 1 : a = Tail(s)[i]
      BY <1>1 DEF Items
    <3>2. i + 1 \in DOMAIN s /\ s[i + 1] = a
      BY <1>1, <3>1
    <3> QED
      BY <3>2 DEF Items
  <2>3. Head(s) \in Items(s)
    BY <1>1 DEF Items
  <2> QED
    BY <2>1, <2>2, <2>3
<1>3. IsList(Tail(s))
  <2>1. Tail(s) = SubSeq(s, 2, Len(s))
    BY <1>1, TailIsSubSeq
  <2>2. \A i \in 2 .. Len(s) : s[i] \in Items(Tail(s))
    <3> TAKE i \in 2 .. Len(s)
    <3>1. i - 1 \in DOMAIN Tail(s) /\ Tail(s)[i - 1] = s[i]
      BY <1>1
    <3> QED
      BY <3>1 DEF Items
  <2>3. SubSeq(s, 2, Len(s)) \in Seq(Items(Tail(s)))
    <3> DEFINE T == Items(Tail(s))
    <3>1. 2 \in Int /\ Len(s) \in Int
      BY <1>1
    <3> HIDE DEF T
    <3> QED
      BY <2>2, <3>1, SubSeqProperties DEF T
  <2> QED
    BY <2>1, <2>3 DEF IsList
<1>4. ASSUME NEW i \in DOMAIN Tail(s), NEW j \in DOMAIN Tail(s), i < j
      PROVE  Before(Tail(s)[i], Tail(s)[j])
  <2>1. /\ i + 1 \in DOMAIN s /\ j + 1 \in DOMAIN s /\ i + 1 < j + 1
        /\ Tail(s)[i] = s[i + 1] /\ Tail(s)[j] = s[j + 1]
    BY <1>1, <1>4
  <2> QED
    BY <2>1 DEF Ordered
<1>5. ASSUME NEW b \in Items(Tail(s)) PROVE Before(Head(s), b)
  <2>1. PICK i \in 1 .. Len(s) - 1 : b = Tail(s)[i]
    BY <1>1 DEF Items
  <2>2. 1 \in DOMAIN s /\ i + 1 \in DOMAIN s /\ 1 < i + 1 /\ s[i + 1] = b /\ s[1] = Head(s)
    BY <1>1, <2>1
  <2> QED
    BY <2>2 DEF Ordered
<1> QED
  BY <1>2, <1>3, <1>4, <1>5 DEF Makes, Ordered

--------------------------------------------------------------------------------
(* What each call does *)

\* The rank is one of eight.
LEMMA RankType ==
    ASSUME NEW c
    PROVE  Rank(c) \in 1 .. 8
  BY DEF Rank

\* What the rank says of a call: the first leave, the next enter, the last do
\* neither.
LEMMA RankTells ==
    ASSUME NEW c
    PROVE  /\ Rank(c) >= 3 => Exits(c) = {} /\ Clears(c) = {}
           /\ Rank(c) <= 3 \/ Rank(c) >= 6 => Enters(c) = {} /\ Sets(c) = {} /\ Tops(c) = {}
           /\ Rank(c) = 7 <=> c.op \in {"event", "descend"}
           /\ Rank(c) = 6 <=> c.op = "arrive"
           /\ Rank(c) = 4 <=> c.op = "entry_up"
           /\ Rank(c) = 2 <=> c.op = "exit_up"
           /\ c.op \in {"entry", "entry_down"} => Rank(c) = 5
<1>1. Rank(c) >= 3 => Exits(c) = {}
  BY DEF Rank, Exits
<1>2. Rank(c) >= 3 => Clears(c) = {}
  BY DEF Rank, Clears
<1>3. Rank(c) <= 3 \/ Rank(c) >= 6 => Enters(c) = {}
  BY DEF Rank, Enters
<1>4. Rank(c) <= 3 \/ Rank(c) >= 6 => Sets(c) = {}
  BY RootIsNode DEF Rank, Sets
<1>5. Rank(c) <= 3 \/ Rank(c) >= 6 => Tops(c) = {}
  BY DEF Rank, Tops
<1>6. /\ Rank(c) = 7 <=> c.op \in {"event", "descend"}
      /\ Rank(c) = 6 <=> c.op = "arrive"
      /\ Rank(c) = 4 <=> c.op = "entry_up"
      /\ Rank(c) = 2 <=> c.op = "exit_up"
      /\ c.op \in {"entry", "entry_down"} => Rank(c) = 5
  BY DEF Rank
<1> QED
  BY <1>1, <1>2, <1>3, <1>4, <1>5, <1>6

\* A call that leaves: nothing of it concerns an entry or an event.
Outward(c) == Enters(c) = {} /\ Sets(c) = {} /\ Tops(c) = {}
\* A call that enters.
Inward(c) == Exits(c) = {} /\ Clears(c) = {}

\* What a call with exit does.
LEMMA OfExit ==
    ASSUME NEW n \in Node
    PROVE  LET c == CallExit(n)
           IN  Rank(c) = 1 /\ Outward(c) /\ Exits(c) = {n} /\ Clears(c) = {}
<1> DEFINE c == CallExit(n)
<1>1. c.op = "exit" /\ c.node = n
  BY DEF CallExit
<1> HIDE DEF c
<1> QED
  BY <1>1 DEF Rank, Outward, Enters, Sets, Tops, Exits, Clears, c

\* What walk_exit_down does.
LEMMA OfExitDown ==
    ASSUME NEW n \in Node, NEW x
    PROVE  LET c == ExitDown(n, x)
           IN  /\ Rank(c) = 1 /\ Outward(c) /\ Clears(c) = {}
               /\ Exits(c) = {m \in Node : \E r \in Chain(n) : r # x /\ r \in Upward[m]}
<1> DEFINE c == ExitDown(n, x)
<1>1. c.op = "exit_down" /\ c.node = n /\ c.except = x
  BY DEF ExitDown
<1> HIDE DEF c
<1> QED
  BY <1>1 DEF Rank, Outward, Enters, Sets, Tops, Exits, Clears, c

\* What walk_exit_up does.
LEMMA OfExitUp ==
    ASSUME NEW n \in Node, NEW a, NEW b, NEW f
    PROVE  LET c == ExitUp(n, a, b, f)
           IN  /\ Rank(c) = 2 /\ Outward(c)
               /\ Clears(c) = IF b = NoNode THEN {} ELSE {n}
               /\ Exits(c) = {m \in Node : b \notin Upward[m] /\
                                \E w \in Between(n, a, f) : w \in Upward[m]}
<1> DEFINE c == ExitUp(n, a, b, f)
<1>1. c.op = "exit_up" /\ c.node = n /\ c.ancestor = a /\ c.branch = b /\ c.flag = f
  BY DEF ExitUp
<1> HIDE DEF c
<1>2. Rank(c) = 2 /\ Outward(c)
  BY <1>1 DEF Rank, Outward, Enters, Sets, Tops
<1>3. Clears(c) = IF b = NoNode THEN {} ELSE {n}
  BY <1>1 DEF Clears
<1>4. Exits(c) = {m \in Node : b \notin Upward[m] /\ \E w \in Between(n, a, f) : w \in Upward[m]}
  BY <1>1 DEF Exits, Way
<1> QED
  BY <1>2, <1>3, <1>4 DEF c

\* What set_state with NULL does.
LEMMA OfClear ==
    ASSUME NEW n \in Node
    PROVE  LET c == SetState(n, NoNode)
           IN  Rank(c) = 1 /\ Outward(c) /\ Exits(c) = {} /\ Clears(c) = {n}
<1> DEFINE c == SetState(n, NoNode)
<1>1. c.op = "set_state" /\ c.node = n /\ c.value = NoNode
  BY DEF SetState
<1>2. NoNode \notin Node
  BY RootIsNode
<1> HIDE DEF c
<1> QED
  BY <1>1, <1>2 DEF Rank, Outward, Enters, Sets, Tops, Exits, Clears, c

\* What set_state with a sub-state does.
LEMMA OfSet ==
    ASSUME NEW n \in Node, NEW v \in Node
    PROVE  LET c == SetState(n, v)
           IN  Rank(c) = 5 /\ Inward(c) /\ Enters(c) = {} /\ Tops(c) = {} /\ Sets(c) = {v}
<1> DEFINE c == SetState(n, v)
<1>1. c.op = "set_state" /\ c.node = n /\ c.value = v /\ v # NoNode
  BY RootIsNode DEF SetState
<1> HIDE DEF c
<1> QED
  BY <1>1 DEF Rank, Inward, Enters, Sets, Tops, Exits, Clears, c

\* What a call with entry does.
LEMMA OfEntry ==
    ASSUME NEW n \in Node
    PROVE  LET c == CallEntry(n)
           IN  Rank(c) = 5 /\ Inward(c) /\ Enters(c) = {n} /\ Tops(c) = {} /\ Sets(c) = {}
<1> DEFINE c == CallEntry(n)
<1>1. c.op = "entry" /\ c.node = n
  BY DEF CallEntry
<1> HIDE DEF c
<1> QED
  BY <1>1 DEF Rank, Inward, Enters, Sets, Tops, Exits, Clears, c

\* What walk_entry_down does.
LEMMA OfEntryDown ==
    ASSUME NEW n \in Node, NEW x
    PROVE  LET c == EntryDown(n, x)
           IN  /\ Rank(c) = 5 /\ Inward(c) /\ Sets(c) = {}
               /\ Enters(c) = Chain(n) /\ Tops(c) = Chain(n)
<1> DEFINE c == EntryDown(n, x)
<1>1. c.op = "entry_down" /\ c.node = n
  BY DEF EntryDown
<1>2. Chain(n) \subseteq Node
  BY ChainType
<1> HIDE DEF c
<1> QED
  BY <1>1, <1>2 DEF Rank, Inward, Enters, Sets, Tops, Exits, Clears, c

\* What walk_entry_up does.
LEMMA OfEntryUp ==
    ASSUME NEW n \in Node, NEW a, NEW b \in Node \cup {NoNode}, NEW f
    PROVE  LET c == EntryUp(n, a, b, f)
           IN  /\ Rank(c) = 4 /\ Inward(c)
               /\ Sets(c) = {b} \ {NoNode}
               /\ Tops(c) = IF b = NoNode THEN {n} ELSE {}
               /\ Enters(c) = Between(n, a, f)
<1> DEFINE c == EntryUp(n, a, b, f)
<1>1. c.op = "entry_up" /\ c.node = n /\ c.ancestor = a /\ c.branch = b /\ c.flag = f
  BY DEF EntryUp
<1>2. Upward[n] \subseteq Node /\ NoNode \notin Node
  BY UpwardType, RootIsNode
<1> HIDE DEF c
<1>3. Rank(c) = 4 /\ Inward(c)
  BY <1>1 DEF Rank, Inward, Exits, Clears
<1>4. Sets(c) = {b} \ {NoNode} /\ Tops(c) = IF b = NoNode THEN {n} ELSE {}
  BY <1>1, <1>2 DEF Sets, Tops
<1>5. Between(n, a, f) \subseteq Node
  BY <1>2 DEF Between
<1>6. Enters(c) = Between(n, a, f)
  BY <1>1, <1>5 DEF Enters, Way
<1> QED
  BY <1>3, <1>4, <1>6 DEF c

--------------------------------------------------------------------------------
(* The order of the calls that a walk makes *)

\* A call made while leaving comes before what the leaving came before.
LEMMA OutwardBefore ==
    ASSUME NEW c, NEW d, NEW b, Before(c, b), Rank(c) \in {1, 2}, Rank(d) \in 1 .. Rank(c),
           Outward(d), Exits(d) \subseteq Exits(c), Rank(c) = 1 => Clears(d) \subseteq Exits(c)
    PROVE  Before(d, b)
<1>1. Rank(b) \in 1 .. 8 /\ Rank(c) <= Rank(b) /\ (Rank(c) = 2 => Rank(b) >= 3)
      /\ Rank(b) # 5 /\ (b.op = "entry_up" => b.branch = NoNode)
  BY RankType DEF Before, RankOrder
<1>2. RankOrder(d, b)
  BY <1>1 DEF RankOrder
<1>3. Rank(c) = 2 => Exits(b) = {} /\ Clears(b) = {}
  BY <1>1, RankTells
<1>4. ExitOrder(d, b)
  <2>1. /\ \A x \in Exits(c), y \in Exits(b) : x \notin Upward[y]
        /\ Exits(c) \cap Clears(b) = {}
    BY DEF Before, ExitOrder
  <2>2. Exits(d) \cap Clears(b) = {} /\ \A x \in Exits(d), y \in Exits(b) : x \notin Upward[y]
    BY <2>1
  <2>3. Clears(d) \cap Clears(b) = {}
    BY <1>3, <2>1
  <2>4. ASSUME NEW x \in Clears(d), NEW y \in Exits(b) PROVE parent[y] # x
    <3>1. x \in Exits(c) /\ x \in Node /\ y \in Node
      BY <1>3 DEF Clears, Exits
    <3>2. x \notin Upward[y]
      BY <2>1, <3>1
    <3>3. y # Root => parent[y] \in Upward[y]
      BY <3>1, ParentIsAbove
    <3>4. y = Root => parent[y] = NoNode
      BY <3>1 DEF parent
    <3> QED
      BY <3>1, <3>2, <3>3, <3>4, RootIsNode
  <2> QED
    BY <2>2, <2>3, <2>4 DEF ExitOrder
<1>5. EntryOrder(d, b)
  BY DEF EntryOrder, Outward
<1>6. WalkOrder(d, b)
  <2>1. d.op \notin {"event", "descend"}
    BY RankTells
  <2> QED
    BY <2>1 DEF WalkOrder
<1>7. MoveOrder(d, b)
  BY DEF Before, MoveOrder, Outward
<1> QED
  BY <1>2, <1>4, <1>5, <1>6, <1>7 DEF Before

\* Two calls that leave.
LEMMA OutwardPair ==
    ASSUME NEW a, NEW b, Rank(a) = 1, Rank(b) \in {1, 2}, Outward(a), ExitOrder(a, b)
    PROVE  Before(a, b)
<1>1. b.op # "event" /\ b.op # "arrive" /\ b.op # "entry_up"
  BY RankTells
<1>2. EntryOrder(a, b) /\ WalkOrder(a, b) /\ MoveOrder(a, b)
  <2>1. EntryOrder(a, b)
    BY RankTells DEF EntryOrder, Outward
  <2>2. WalkOrder(a, b) /\ MoveOrder(a, b)
    BY <1>1 DEF WalkOrder, MoveOrder
  <2> QED
    BY <2>1, <2>2
<1>3. RankOrder(a, b)
  BY <1>1 DEF RankOrder
<1> QED
  BY <1>2, <1>3 DEF Before

\* A call made while entering.
LEMMA InwardBefore ==
    ASSUME NEW c, NEW d, NEW b, Before(c, b), Rank(c) \in {4, 5}, Rank(d) \in Rank(c) .. 5,
           \A x \in Enters(d) : \/ x \in Enters(c)
                                \/ /\ x # Root /\ parent[x] \in Enters(c)
                                   /\ x \notin Enters(b) /\ x \notin Sets(b)
    PROVE  Before(d, b)
<1>1. Rank(b) \in 1 .. 8 /\ Rank(b) >= 5
  BY RankType DEF Before, RankOrder
<1>2. RankOrder(d, b)
  BY <1>1 DEF RankOrder
<1>3. Exits(d) = {} /\ Clears(d) = {} /\ Exits(b) = {} /\ Clears(b) = {}
  BY <1>1, RankTells
<1>4. ExitOrder(d, b)
  BY <1>3 DEF ExitOrder
<1>5. EntryOrder(d, b)
  BY DEF Before, EntryOrder
<1>6. WalkOrder(d, b)
  <2>1. d.op \notin {"event", "descend"}
    BY RankTells
  <2> QED
    BY <2>1 DEF WalkOrder
<1>7. ASSUME b.op = "arrive", NEW x \in Enters(d)
      PROVE  /\ Common(b.source, b.node) \subseteq Upward[x]
             /\ x \in Common(b.source, b.node) => x \in {b.source, b.node}
  <2>1. \A y \in Enters(c) : /\ Common(b.source, b.node) \subseteq Upward[y]
                             /\ y \in Common(b.source, b.node) => y \in {b.source, b.node}
    BY <1>7 DEF Before, MoveOrder
  <2>2. CASE x \in Enters(c)
    BY <2>1, <2>2
  <2>3. CASE x # Root /\ parent[x] \in Enters(c)
    <3>1. x \in Node \ {Root}
      BY <2>3 DEF Enters
    <3>2. Upward[x] = {x} \cup Upward[parent[x]] /\ x \notin Upward[parent[x]]
      BY <3>1, UpwardStep, ParentIsAbove
    <3> QED
      BY <2>1, <2>3, <3>2
  <2> QED
    BY <2>2, <2>3
<1>8. MoveOrder(d, b)
  BY <1>3, <1>7 DEF MoveOrder
<1> QED
  BY <1>2, <1>4, <1>5, <1>6, <1>8 DEF Before

\* The calls of walk_exit_down, n being left.
ExitDownCalls(n, s, x) ==
    When(n # x,
           When(s # NoNode, <<ExitDown(s, NoNode), SetState(n, NoNode)>>)
        \o When(Parallel(n), <<ExitDown(children[n], NoNode)>>)
        \o <<CallExit(n)>>)
 \o When(NextRegion(n) # NoNode, <<ExitDown(NextRegion(n), x)>>)

ExitDownSet(n, s, x) ==
    (IF n # x
      THEN (IF s # NoNode THEN {ExitDown(s, NoNode), SetState(n, NoNode)} ELSE {})
           \cup (IF Parallel(n) THEN {ExitDown(children[n], NoNode)} ELSE {})
           \cup {CallExit(n)}
      ELSE {})
    \cup (IF NextRegion(n) # NoNode THEN {ExitDown(NextRegion(n), x)} ELSE {})

\* A call that leaves something below n.
Inside(c, n) ==
    /\ Rank(c) = 1 /\ Outward(c) /\ Clears(c) \subseteq {n}
    /\ \A x \in Exits(c) : x \in Node /\ n \in Upward[x] /\ x # n /\ x \notin Upward[n]

\* A walk out of a sub-node of n leaves what is below n.
LEMMA InsideKid ==
    ASSUME NEW n \in Node, NEW k \in Kids(n), Chain(k) \subseteq Kids(n), NEW x
    PROVE  Inside(ExitDown(k, x), n)
<1> DEFINE c == ExitDown(k, x)
<1>1. k \in Node
  BY DEF Kids
<1>2. /\ Rank(c) = 1 /\ Outward(c) /\ Clears(c) = {}
      /\ Exits(c) = {m \in Node : \E r \in Chain(k) : r # x /\ r \in Upward[m]}
  BY <1>1, OfExitDown
<1> HIDE DEF c
<1>3. ASSUME NEW m \in Exits(c)
      PROVE  m \in Node /\ n \in Upward[m] /\ m # n /\ m \notin Upward[n]
  <2>1. m \in Node /\ \E r \in Kids(n) : r \in Upward[m]
    BY <1>2
  <2> QED
    BY <2>1, KidAbove
<1>4. Inside(c, n)
  BY <1>2, <1>3 DEF Inside
<1> QED
  BY <1>4 DEF c

\* The pointer of n is cleared while n is left.
LEMMA InsideClear ==
    ASSUME NEW n \in Node
    PROVE  Inside(SetState(n, NoNode), n)
  BY OfClear DEF Inside

\* Inside of n, a pointer is cleared after what it led to.
LEMMA InsidePair ==
    ASSUME NEW n \in Node, NEW a, NEW b, Inside(a, n), Clears(a) = {},
           Rank(b) \in {1, 2}, Exits(b) = {}, Clears(b) \subseteq {n}
    PROVE  Before(a, b)
<1>1. ExitOrder(a, b)
  BY DEF ExitOrder, Inside
<1> QED
  BY <1>1, OutwardPair DEF Inside

\* n is left after what is inside of it.
LEMMA InsideFirst ==
    ASSUME NEW n \in Node, NEW a, Inside(a, n)
    PROVE  Before(a, CallExit(n))
<1> DEFINE b == CallExit(n)
<1>1. Rank(b) = 1 /\ Exits(b) = {n} /\ Clears(b) = {}
  BY OfExit
<1> HIDE DEF b
<1>2. parent[n] # n
  <2>1. n # Root => parent[n] # n
    BY ParentIsAbove
  <2>2. n = Root => parent[n] = NoNode
    BY DEF parent
  <2> QED
    BY <2>1, <2>2, RootIsNode
<1>3. ExitOrder(a, b)
  BY <1>1, <1>2 DEF ExitOrder, Inside
<1>4. Before(a, b)
  BY <1>1, <1>3, OutwardPair DEF Inside
<1> QED
  BY <1>4 DEF b

\* The regions have their turn one after the other.
LEMMA RegionFirst ==
    ASSUME NEW n \in Node, NextRegion(n) # NoNode, NEW x, NEW a,
           Rank(a) = 1, Outward(a), Clears(a) \subseteq {n},
           \A m \in Exits(a) : m \in Node /\ n \in Upward[m]
    PROVE  Before(a, ExitDown(NextRegion(n), x))
<1> DEFINE r == NextRegion(n)
           b == ExitDown(r, x)
<1>1. n \in Node \ {Root} /\ r \in Node \ {Root} /\ parent[r] = parent[n]
  BY NextRegionIs DEF Kids
<1>2. n \notin Chain(r)
  BY ChainGoesOn
<1>3. /\ Rank(b) = 1 /\ Clears(b) = {}
      /\ Exits(b) = {m \in Node : \E q \in Chain(r) : q # x /\ q \in Upward[m]}
  BY <1>1, OfExitDown
<1> HIDE DEF r, b
<1>4. \A q \in Chain(r) : q \in Node \ {Root} /\ parent[q] = parent[n] /\ q # n
  BY <1>1, <1>2, ChainType
<1>5. ASSUME NEW m \in Exits(a), NEW y \in Exits(b) PROVE m \notin Upward[y]
  <2>1. PICK q \in Chain(r) : q \in Upward[y]
    BY <1>3
  <2>2. y \in Node /\ m \in Node /\ n \in Upward[m]
    BY <1>3
  <2> QED
    BY <1>1, <1>4, <2>1, <2>2, BelowApart
<1>6. ASSUME NEW m \in Clears(a), NEW y \in Exits(b) PROVE parent[y] # m
  <2>1. PICK q \in Chain(r) : q \in Upward[y]
    BY <1>3
  <2>2. y \in Node /\ m = n /\ n \in Upward[n]
    BY <1>3, UpwardStep
  <2>3. y = Root => parent[y] = NoNode
    BY <2>2 DEF parent
  <2>4. y # Root => n # parent[y] \/ y = q
    BY <1>1, <1>4, <2>1, <2>2, BelowApart
  <2>5. parent[q] # n
    BY <1>1, <1>4, ParentIsAbove
  <2> QED
    BY <2>2, <2>3, <2>4, <2>5, RootIsNode
<1>7. ExitOrder(a, b)
  BY <1>3, <1>5, <1>6 DEF ExitOrder
<1>8. Before(a, b)
  BY <1>3, <1>7, OutwardPair
<1> QED
  BY <1>8 DEF b, r

\* The calls that walk_exit_down makes, in their order.
LEMMA ExitDownMakes ==
    ASSUME NEW n \in Node, NEW s, s = NoNode \/ (s \in Kids(n) /\ ~Parallel(n)), NEW x
    PROVE  Makes(ExitDownCalls(n, s, x), ExitDownSet(n, s, x))
<1> DEFINE one == When(s # NoNode, <<ExitDown(s, NoNode), SetState(n, NoNode)>>)
           two == When(Parallel(n), <<ExitDown(children[n], NoNode)>>)
           body == one \o two \o <<CallExit(n)>>
           next == When(NextRegion(n) # NoNode, <<ExitDown(NextRegion(n), x)>>)
           D1 == IF s # NoNode THEN {ExitDown(s, NoNode), SetState(n, NoNode)} ELSE {}
           D2 == IF Parallel(n) THEN {ExitDown(children[n], NoNode)} ELSE {}
           D3 == D1 \cup D2 \cup {CallExit(n)}
           D4 == IF NextRegion(n) # NoNode THEN {ExitDown(NextRegion(n), x)} ELSE {}
<1>1. s # NoNode => /\ Inside(ExitDown(s, NoNode), n)
                    /\ Before(ExitDown(s, NoNode), SetState(n, NoNode))
  <2> SUFFICES ASSUME s # NoNode
               PROVE  /\ Inside(ExitDown(s, NoNode), n)
                      /\ Before(ExitDown(s, NoNode), SetState(n, NoNode))
    OBVIOUS
  <2>1. s \in Node \ {Root} /\ ~Region(s) /\ Chain(s) = {s} /\ s \in Kids(n)
    BY ChainAlone DEF Kids, Region
  <2>2. Inside(ExitDown(s, NoNode), n)
    BY <2>1, InsideKid
  <2>3. Clears(ExitDown(s, NoNode)) = {}
    BY <2>1, OfExitDown
  <2> QED
    BY <2>2, <2>3, OfClear, InsidePair
<1>2. Parallel(n) => Inside(ExitDown(children[n], NoNode), n)
  BY ChainOfAll, InsideKid
<1>3. \A a \in D1 \cup D2 : Inside(a, n)
  BY <1>1, <1>2, InsideClear
<1>4. Makes(one, D1)
  <2>1. s # NoNode => Makes(<<ExitDown(s, NoNode), SetState(n, NoNode)>>,
                            {ExitDown(s, NoNode), SetState(n, NoNode)})
    BY <1>1, MakesTwo
  <2> QED
    BY <2>1, MakesWhen
<1>5. Makes(two, D2)
  <2>1. Parallel(n) \in BOOLEAN
    BY DEF Parallel
  <2> QED
    BY <2>1, MakesOne, MakesWhen
<1>6. Makes(next, D4)
  BY MakesOne, MakesWhen
<1>7. D1 = {} \/ D2 = {}
  OBVIOUS
<1>8. NextRegion(n) # NoNode => \A a \in D3 : Before(a, ExitDown(NextRegion(n), x))
  <2> SUFFICES ASSUME NextRegion(n) # NoNode, NEW a \in D3
               PROVE  Before(a, ExitDown(NextRegion(n), x))
    OBVIOUS
  <2>1. /\ Rank(a) = 1 /\ Outward(a) /\ Clears(a) \subseteq {n}
        /\ \A m \in Exits(a) : m \in Node /\ n \in Upward[m]
    <3>1. CASE a \in D1 \cup D2
      BY <1>3, <3>1 DEF Inside
    <3>2. CASE a = CallExit(n)
      BY <3>2, OfExit, UpwardStep
    <3> HIDE DEF D1, D2
    <3> QED
      BY <3>1, <3>2
  <2> QED
    BY <2>1, RegionFirst
<1> HIDE DEF one, two, next, D1, D2
<1>9. Makes(one \o two, D1 \cup D2)
  BY <1>4, <1>5, <1>7, MakesJoin
<1>10. Makes(one \o two \o <<CallExit(n)>>, D1 \cup D2 \cup {CallExit(n)})
  BY <1>3, <1>9, InsideFirst, MakesOne, MakesJoin
<1>11. Makes(When(n # x, body), IF n # x THEN D3 ELSE {})
  BY <1>10, MakesWhen
<1> HIDE DEF body, D3
<1>12. Makes(When(n # x, body) \o next, (IF n # x THEN D3 ELSE {}) \cup D4)
  <2>1. \A a \in IF n # x THEN D3 ELSE {}, b \in D4 : Before(a, b)
    BY <1>8 DEF D4
  <2> HIDE DEF D4
  <2> QED
    BY <1>6, <1>11, <2>1, MakesJoin
<1> QED
  BY <1>12 DEF ExitDownCalls, ExitDownSet, one, two, next, body, D1, D2, D3

\* The calls of walk_exit_up.
ExitUpCalls(n, a, b, f, s) ==
    When(b = NoNode /\ s # NoNode, <<ExitDown(s, NoNode)>>)
 \o When(Parallel(n), <<ExitDown(children[n], b)>>)
 \o <<SetState(n, NoNode)>>
 \o When(n # a \/ f, <<CallExit(n)>>)
 \o When(n # Root /\ n # a, <<ExitUp(parent[n], a, n, f)>>)

ExitUpSet(n, a, b, f, s) ==
    (IF b = NoNode /\ s # NoNode THEN {ExitDown(s, NoNode)} ELSE {})
    \cup (IF Parallel(n) THEN {ExitDown(children[n], b)} ELSE {})
    \cup {SetState(n, NoNode)}
    \cup (IF n # a \/ f THEN {CallExit(n)} ELSE {})
    \cup (IF n # Root /\ n # a THEN {ExitUp(parent[n], a, n, f)} ELSE {})

\* What is above n is left after n.
LEMMA AboveLast ==
    ASSUME NEW n \in Node \ {Root}, NEW a, NEW f, NEW d,
           Rank(d) = 1, Outward(d), Clears(d) \subseteq {n},
           \A m \in Exits(d) : m \in Node /\ n \in Upward[m]
    PROVE  Before(d, ExitUp(parent[n], a, n, f))
<1> DEFINE p == parent[n]
           b == ExitUp(p, a, n, f)
<1>1. p \in Node /\ n \notin Upward[p] /\ p # n
  BY ParentIsAbove
<1>2. /\ Rank(b) = 2 /\ Clears(b) = {p}
      /\ \A y \in Exits(b) : y \in Node /\ n \notin Upward[y]
  <2>1. n # NoNode
    BY RootIsNode
  <2> HIDE DEF p
  <2>2. /\ Rank(b) = 2 /\ Clears(b) = IF n = NoNode THEN {} ELSE {p}
        /\ Exits(b) = {m \in Node : n \notin Upward[m] /\
                         \E w \in Between(p, a, f) : w \in Upward[m]}
    BY <1>1, OfExitUp
  <2> HIDE DEF b
  <2> QED
    BY <2>1, <2>2
<1> HIDE DEF p, b
<1>3. ASSUME NEW m \in Exits(d), NEW y \in Exits(b) PROVE m \notin Upward[y]
  BY <1>2, UpwardTransitive
<1>4. Exits(d) \cap Clears(b) = {} /\ Clears(d) \cap Clears(b) = {}
  BY <1>1, <1>2
<1>5. ASSUME NEW m \in Clears(d), NEW y \in Exits(b) PROVE parent[y] # m
  <2>1. y \in Node /\ m = n /\ n \notin Upward[y]
    BY <1>2
  <2>2. y = Root => parent[y] = NoNode
    BY <2>1 DEF parent
  <2>3. y # Root => parent[y] \in Upward[y]
    BY <2>1, ParentIsAbove
  <2> QED
    BY <2>1, <2>2, <2>3, RootIsNode
<1>6. ExitOrder(d, b)
  BY <1>3, <1>4, <1>5 DEF ExitOrder
<1>7. Before(d, b)
  BY <1>2, <1>6, OutwardPair
<1> QED
  BY <1>7 DEF p, b

\* The calls that walk_exit_up makes, in their order.
LEMMA ExitUpMakes ==
    ASSUME NEW n \in Node, NEW s, s = NoNode \/ (s \in Kids(n) /\ ~Parallel(n)),
           NEW a, NEW b, NEW f \in BOOLEAN
    PROVE  Makes(ExitUpCalls(n, a, b, f, s), ExitUpSet(n, a, b, f, s))
<1> DEFINE one == When(b = NoNode /\ s # NoNode, <<ExitDown(s, NoNode)>>)
           two == When(Parallel(n), <<ExitDown(children[n], b)>>)
           four == When(n # a \/ f, <<CallExit(n)>>)
           five == When(n # Root /\ n # a, <<ExitUp(parent[n], a, n, f)>>)
           D1 == IF b = NoNode /\ s # NoNode THEN {ExitDown(s, NoNode)} ELSE {}
           D2 == IF Parallel(n) THEN {ExitDown(children[n], b)} ELSE {}
           D3 == {SetState(n, NoNode)}
           D4 == IF n # a \/ f THEN {CallExit(n)} ELSE {}
           D5 == IF n # Root /\ n # a THEN {ExitUp(parent[n], a, n, f)} ELSE {}
<1>1. s # NoNode => Inside(ExitDown(s, NoNode), n) /\ Clears(ExitDown(s, NoNode)) = {}
  <2> SUFFICES ASSUME s # NoNode
               PROVE  Inside(ExitDown(s, NoNode), n) /\ Clears(ExitDown(s, NoNode)) = {}
    OBVIOUS
  <2>1. s \in Node \ {Root} /\ ~Region(s) /\ Chain(s) = {s} /\ s \in Kids(n)
    BY ChainAlone DEF Kids, Region
  <2> QED
    BY <2>1, InsideKid, OfExitDown
<1>2. Parallel(n) =>
         Inside(ExitDown(children[n], b), n) /\ Clears(ExitDown(children[n], b)) = {}
  <2> SUFFICES ASSUME Parallel(n)
               PROVE  Inside(ExitDown(children[n], b), n) /\ Clears(ExitDown(children[n], b)) = {}
    OBVIOUS
  <2>1. children[n] \in Node /\ children[n] \in Kids(n) /\ Chain(children[n]) = Kids(n)
    BY ChainOfAll DEF Kids
  <2> QED
    BY <2>1, InsideKid, OfExitDown
<1>3. \A c \in D1 \cup D2 : Inside(c, n) /\ Clears(c) = {}
  BY <1>1, <1>2
<1>4. \A c \in D3 : Inside(c, n) /\ Exits(c) = {} /\ Clears(c) = {n}
  BY InsideClear, OfClear
<1>5. \A c \in D1 \cup D2 \cup D3 \cup D4 :
         /\ Rank(c) = 1 /\ Outward(c) /\ Clears(c) \subseteq {n}
         /\ \A m \in Exits(c) : m \in Node /\ n \in Upward[m]
  <2> TAKE c \in D1 \cup D2 \cup D3 \cup D4
  <2>1. CASE c \in D1 \cup D2 \cup D3
    BY <1>3, <1>4, <2>1 DEF Inside
  <2>2. CASE c \in D4
    BY <2>2, OfExit, UpwardStep
  <2> HIDE DEF D1, D2, D3, D4
  <2> QED
    BY <2>1, <2>2
<1>6. \A c \in D1 \cup D2, d \in D3 : Before(c, d)
  <2> TAKE c \in D1 \cup D2, d \in D3
  <2>1. Rank(d) = 1
    BY <1>4 DEF Inside
  <2> QED
    BY <1>3, <1>4, <2>1, InsidePair
<1>7. \A c \in D1 \cup D2 \cup D3, d \in D4 : Before(c, d)
  BY <1>3, <1>4, InsideFirst
<1>8. \A c \in D1 \cup D2 \cup D3 \cup D4, d \in D5 : Before(c, d)
  BY <1>5, AboveLast
<1>9. Makes(one, D1) /\ Makes(two, D2) /\ Makes(<<SetState(n, NoNode)>>, D3)
  <2>1. Parallel(n) \in BOOLEAN /\ (b = NoNode /\ s # NoNode) \in BOOLEAN
    BY DEF Parallel
  <2> QED
    BY <2>1, MakesOne, MakesWhen
<1>10. Makes(four, D4)
  <2>1. (n # a \/ f) \in BOOLEAN
    OBVIOUS
  <2> QED
    BY <2>1, MakesOne, MakesWhen
<1>11. Makes(five, D5)
  <2>1. (n # Root /\ n # a) \in BOOLEAN
    OBVIOUS
  <2> QED
    BY <2>1, MakesOne, MakesWhen
<1>12. D1 = {} \/ D2 = {}
  OBVIOUS
<1> HIDE DEF one, two, four, five, D1, D2, D3, D4, D5
<1>13. Makes(one \o two, D1 \cup D2)
  BY <1>9, <1>12, MakesJoin
<1>14. Makes(one \o two \o <<SetState(n, NoNode)>>, D1 \cup D2 \cup D3)
  BY <1>6, <1>9, <1>13, MakesJoin
<1>15. Makes(one \o two \o <<SetState(n, NoNode)>> \o four, D1 \cup D2 \cup D3 \cup D4)
  BY <1>7, <1>10, <1>14, MakesJoin
<1>16. Makes(one \o two \o <<SetState(n, NoNode)>> \o four \o five,
             D1 \cup D2 \cup D3 \cup D4 \cup D5)
  BY <1>8, <1>11, <1>15, MakesJoin
<1> QED
  BY <1>16 DEF ExitUpCalls, ExitUpSet, one, two, four, five, D1, D2, D3, D4, D5

--------------------------------------------------------------------------------

\* Two calls that enter.
LEMMA InwardPair ==
    ASSUME NEW a, NEW b, Rank(a) \in {4, 5}, Rank(b) = 5, EntryOrder(a, b)
    PROVE  Before(a, b)
<1>1. Exits(a) = {} /\ Clears(a) = {} /\ Exits(b) = {} /\ Clears(b) = {}
  BY RankTells
<1>2. b.op # "event" /\ b.op # "arrive"
  BY RankTells
<1>3. ExitOrder(a, b) /\ WalkOrder(a, b) /\ MoveOrder(a, b)
  BY <1>1, <1>2 DEF ExitOrder, WalkOrder, MoveOrder
<1>4. RankOrder(a, b)
  BY DEF RankOrder
<1> QED
  BY <1>3, <1>4 DEF Before

\* The calls of walk_entry_down with nothing excepted, d being the default.
EntryDownCalls(n, d) ==
    (<<CallEntry(n)>>
        \o When(d # NoNode, <<SetState(n, d), EntryDown(d, NoNode)>>)
        \o When(Parallel(n), <<EntryDown(children[n], NoNode)>>))
 \o When(NextRegion(n) # NoNode, <<EntryDown(NextRegion(n), NoNode)>>)

EntryDownSet(n, d) ==
    {CallEntry(n)}
    \cup (IF d # NoNode THEN {SetState(n, d), EntryDown(d, NoNode)} ELSE {})
    \cup (IF Parallel(n) THEN {EntryDown(children[n], NoNode)} ELSE {})
    \cup (IF NextRegion(n) # NoNode THEN {EntryDown(NextRegion(n), NoNode)} ELSE {})

\* The calls that walk_entry_down makes, in their order.
LEMMA EntryDownMakes ==
    ASSUME NEW n \in Node, NEW d, d = NoNode \/ (d \in Kids(n) /\ ~Parallel(n))
    PROVE  Makes(EntryDownCalls(n, d), EntryDownSet(n, d))
<1> DEFINE two == When(d # NoNode, <<SetState(n, d), EntryDown(d, NoNode)>>)
           three == When(Parallel(n), <<EntryDown(children[n], NoNode)>>)
           four == When(NextRegion(n) # NoNode, <<EntryDown(NextRegion(n), NoNode)>>)
           D1 == {CallEntry(n)}
           D2 == IF d # NoNode THEN {SetState(n, d), EntryDown(d, NoNode)} ELSE {}
           D3 == IF Parallel(n) THEN {EntryDown(children[n], NoNode)} ELSE {}
           D4 == IF NextRegion(n) # NoNode THEN {EntryDown(NextRegion(n), NoNode)} ELSE {}
<1>1. parent[n] \notin Kids(n) /\ n \notin Kids(n)
  <2>1. n # Root => parent[n] # n /\ parent[n] \in Upward[n]
    BY ParentIsAbove
  <2>2. n = Root => parent[n] = NoNode
    BY DEF parent
  <2>3. \A k \in Kids(n) : k \in Node /\ k \notin Upward[n]
    <3> TAKE k \in Kids(n)
    <3>1. k \in Node \ {Root} /\ parent[k] = n
      BY DEF Kids
    <3> QED
      BY <3>1, ParentIsAbove
  <2> QED
    BY <2>1, <2>2, <2>3, UpwardStep, RootIsNode
<1>2. d # NoNode => /\ d \in Node /\ Chain(d) = {d}
                    /\ Rank(SetState(n, d)) = 5 /\ Enters(SetState(n, d)) = {}
                    /\ Sets(SetState(n, d)) = {d}
                    /\ Rank(EntryDown(d, NoNode)) = 5 /\ Sets(EntryDown(d, NoNode)) = {}
                    /\ Enters(EntryDown(d, NoNode)) = {d}
  <2> SUFFICES ASSUME d # NoNode
               PROVE  /\ d \in Node /\ Chain(d) = {d}
                      /\ Rank(SetState(n, d)) = 5 /\ Enters(SetState(n, d)) = {}
                      /\ Sets(SetState(n, d)) = {d}
                      /\ Rank(EntryDown(d, NoNode)) = 5 /\ Sets(EntryDown(d, NoNode)) = {}
                      /\ Enters(EntryDown(d, NoNode)) = {d}
    OBVIOUS
  <2>1. d \in Node /\ Chain(d) = {d}
    BY ChainAlone DEF Kids, Region
  <2> QED
    BY <2>1, OfSet, OfEntryDown
<1>3. Parallel(n) => /\ Rank(EntryDown(children[n], NoNode)) = 5
                     /\ Sets(EntryDown(children[n], NoNode)) = {}
                     /\ Enters(EntryDown(children[n], NoNode)) = Kids(n)
  <2> SUFFICES ASSUME Parallel(n)
               PROVE  /\ Rank(EntryDown(children[n], NoNode)) = 5
                      /\ Sets(EntryDown(children[n], NoNode)) = {}
                      /\ Enters(EntryDown(children[n], NoNode)) = Kids(n)
    OBVIOUS
  <2>1. children[n] \in Node /\ Chain(children[n]) = Kids(n)
    BY ChainOfAll DEF Kids
  <2> QED
    BY <2>1, OfEntryDown
<1>4. \A a \in D1 : Rank(a) = 5 /\ Enters(a) = {n}
  BY OfEntry
<1>5. \A a \in D2 \cup D3 : Rank(a) = 5 /\ Enters(a) \subseteq Kids(n) /\ Sets(a) \subseteq Kids(n)
  BY <1>2, <1>3
<1>6. \A a \in D1, b \in D2 \cup D3 : Before(a, b)
  <2> TAKE a \in D1, b \in D2 \cup D3
  <2>1. EntryOrder(a, b)
    BY <1>1, <1>4, <1>5 DEF EntryOrder
  <2> QED
    BY <1>4, <1>5, <2>1, InwardPair
<1>7. Makes(two, D2)
  <2>1. d # NoNode => Before(SetState(n, d), EntryDown(d, NoNode))
    BY <1>2, InwardPair DEF EntryOrder
  <2>2. d # NoNode => Makes(<<SetState(n, d), EntryDown(d, NoNode)>>,
                            {SetState(n, d), EntryDown(d, NoNode)})
    BY <2>1, MakesTwo
  <2> QED
    BY <2>2, MakesWhen
<1>8. Makes(three, D3) /\ Makes(four, D4) /\ Makes(<<CallEntry(n)>>, D1)
  <2>1. Parallel(n) \in BOOLEAN
    BY DEF Parallel
  <2> QED
    BY <2>1, MakesOne, MakesWhen
<1>9. \A a \in D1 \cup D2 \cup D3, b \in D4 : Before(a, b)
  <2> SUFFICES ASSUME NextRegion(n) # NoNode, NEW a \in D1 \cup D2 \cup D3
               PROVE  Before(a, EntryDown(NextRegion(n), NoNode))
    OBVIOUS
  <2> DEFINE r == NextRegion(n)
             b == EntryDown(r, NoNode)
  <2>1. n \in Node \ {Root} /\ r \in Node \ {Root} /\ parent[r] = parent[n]
    BY NextRegionIs DEF Kids
  <2>2. n \notin Chain(r)
    BY ChainGoesOn
  <2>3. Rank(b) = 5 /\ Sets(b) = {} /\ Enters(b) = Chain(r)
    BY <2>1, OfEntryDown
  <2> HIDE DEF r
  <2>4. \A y \in Chain(r) : y \in Node \ {Root} /\ parent[y] = parent[n] /\ y # n
    BY <2>1, <2>2, ChainType
  <2>5. Enters(a) \subseteq {n} \cup Kids(n) /\ Rank(a) = 5
    BY <1>4, <1>5
  <2>6. \A y \in Chain(r) : parent[n] # y /\ y \notin Kids(n)
    <3> TAKE y \in Chain(r)
    <3>1. parent[n] # n /\ parent[y] # y
      BY <2>1, <2>4, ParentIsAbove
    <3> QED
      BY <2>4, <3>1 DEF Kids
  <2>7. \A x \in Kids(n) : parent[x] = n
    BY DEF Kids
  <2> HIDE DEF D1, D2, D3, b
  <2>8. EntryOrder(a, b)
    BY <2>3, <2>4, <2>5, <2>6, <2>7 DEF EntryOrder
  <2>9. Before(a, b)
    BY <2>3, <2>5, <2>8, InwardPair
  <2> QED
    BY <2>9 DEF b, r
<1>10. D2 = {} \/ D3 = {}
  OBVIOUS
<1> HIDE DEF two, three, four, D1, D2, D3, D4
<1>11. Makes(<<CallEntry(n)>> \o two, D1 \cup D2)
  BY <1>6, <1>7, <1>8, MakesJoin
<1>12. Makes(<<CallEntry(n)>> \o two \o three, D1 \cup D2 \cup D3)
  <2>1. \A a \in D1 \cup D2, b \in D3 : Before(a, b)
    BY <1>6, <1>10
  <2> QED
    BY <1>8, <1>11, <2>1, MakesJoin
<1>13. Makes((<<CallEntry(n)>> \o two \o three) \o four, D1 \cup D2 \cup D3 \cup D4)
  BY <1>8, <1>9, <1>12, MakesJoin
<1> QED
  BY <1>13 DEF EntryDownCalls, EntryDownSet, two, three, four, D1, D2, D3, D4

--------------------------------------------------------------------------------
(* A step replaces a call c by the calls D that it makes *)

\* Whatever leaves, c or what it makes: all stays as planned.
Unmoved(I, J, A) ==
    /\ Leaving(J, A) = Leaving(I, A) /\ Staying(J, A) = Staying(I, A)
    /\ Coming(J) = Coming(I) /\ Planned(J, A) = Planned(I, A)
    /\ Starting(J) = Starting(I) /\ Setting(J) = Setting(I)
    /\ Soon(J) = Soon(I) /\ Again(J) = Again(I)
    /\ Clearing(I) \subseteq Clearing(J)
    /\ \A e : e.op = "entry_up" => (e \in J <=> e \in I)

\* A step that carries out the calls D has them make of the machine what c would.
Onward(I, J, D, R, st, A) ==
    /\ Fine(J, st, A) /\ Planned(I, A) \subseteq Planned(J, A)
    /\ Leaving(I, A) \subseteq Leaving(J, A) /\ Coming(I) \subseteq Coming(J)
    /\ \A d \in D, b \in R : Before(d, b)
PointsDown(n, s) == n \in Node /\ (s = NoNode \/ (s \in Kids(n) /\ ~Parallel(n)))
NoException(c) == c.except = NoNode
GoesUp(c) ==
    /\ c.node \in Node /\ c.ancestor \in Upward[c.node] /\ c.flag \in BOOLEAN
    /\ c.branch = NoNode => ~Region(c.node)
    /\ c.branch # NoNode => c.branch \in Kids(c.node) /\ ~Parallel(c.node)
SamePlan(I, J, A) == Planned(J, A) = Planned(I, A)
PlanStays(I, A, J, B) == Planned(J, B) = Planned(I, A)
MayEnter(n, A) == n \in Node /\ n \notin A /\ (n = Root \/ parent[n] \in A)

\* The calls D leave what c does.
LeaveSame(c, D, A) ==
    /\ \A d \in D : Rank(d) \in {1, 2} /\ Outward(d) /\ Exits(d) \subseteq Exits(c)
    /\ \A m \in A \cap Exits(c) : \E d \in D : m \in Exits(d)
    /\ \A m \in Clears(c) : \E d \in D : m \in Clears(d)

\* The sets of the invariant after a step that replaces a leaving call.
LEMMA ExitSets ==
    ASSUME NEW c, NEW D, NEW R, NEW I, NEW J, NEW A, I = {c} \cup R, J = D \cup R,
           Rank(c) \in {1, 2}, Outward(c), LeaveSame(c, D, A)
    PROVE  Unmoved(I, J, A)
<1> USE DEF LeaveSame
<1>1. Leaving(J, A) = Leaving(I, A)
  BY DEF Leaving
<1>2. Coming(J) = Coming(I) /\ Starting(J) = Starting(I) /\ Setting(J) = Setting(I)
  BY DEF Outward, Coming, Starting, Setting
<1>3. c.op \notin {"entry_up", "entry", "entry_down"}
      /\ \A d \in D : d.op \notin {"entry_up", "entry", "entry_down"}
  BY RankTells
<1>4. Soon(J) = Soon(I) /\ Again(J) = Again(I)
  BY <1>3 DEF Soon, Again
<1>5. Clearing(I) \subseteq Clearing(J)
  BY DEF Clearing
<1>6. \A e : e.op = "entry_up" => (e \in J <=> e \in I)
  BY <1>3
<1> QED
  BY <1>1, <1>2, <1>4, <1>5, <1>6 DEF Unmoved, Staying, Planned

\* The calls that wait are as fine as before.
LEMMA ExitOthers ==
    ASSUME NEW I, NEW J, NEW st, NEW A, Unmoved(I, J, A), Each(I, st, A), NEW b \in I
    PROVE  /\ ExitWhole(b, A)
           /\ ExitFine(b, J, A) /\ ExitDownFine(b, J, A) /\ ExitUpFine(b, J, st, A)
           /\ ClearFine(b, J, A) /\ SetFine(b, J)
           /\ EntryFine(b, J, st) /\ EntryDownFine(b, J, st) /\ EntryUpFine(b, J, st, A)
           /\ ArriveFine(b, J, A) /\ EventFine(b, J, A)
<1>1. \A m : PointerCleared(m, I) => PointerCleared(m, J)
  BY DEF PointerCleared, Unmoved
<1>2. \A m : PointerSet(m, I, st) => PointerSet(m, J, st)
  BY DEF PointerSet, Unmoved
<1>3. Return(b, I) => Return(b, J)
  BY DEF Return, Unmoved
<1>4. /\ ExitWhole(b, A)
      /\ ExitFine(b, I, A) /\ ExitDownFine(b, I, A) /\ ExitUpFine(b, I, st, A)
      /\ ClearFine(b, I, A) /\ SetFine(b, I)
      /\ EntryFine(b, I, st) /\ EntryDownFine(b, I, st) /\ EntryUpFine(b, I, st, A)
      /\ ArriveFine(b, I, A) /\ EventFine(b, I, A)
  BY DEF Each
<1>5. ExitFine(b, J, A) /\ ExitDownFine(b, J, A)
  BY <1>1, <1>4 DEF ExitFine, ExitDownFine
<1>6. ExitUpFine(b, J, st, A)
  BY <1>3, <1>4 DEF ExitUpFine, Unmoved
<1>7. ClearFine(b, J, A)
  BY <1>4 DEF ClearFine, Unmoved
<1>8. SetFine(b, J) /\ EntryFine(b, J, st)
  BY <1>2, <1>4 DEF SetFine, EntryFine, Unmoved
<1>9. EntryDownFine(b, J, st)
  BY <1>2, <1>4 DEF EntryDownFine, Unmoved
<1>10. EntryUpFine(b, J, st, A)
  BY <1>4 DEF EntryUpFine, Unmoved
<1>11. ArriveFine(b, J, A) /\ EventFine(b, J, A)
  BY <1>4 DEF ArriveFine, EventFine, Unmoved
<1> QED
  BY <1>4, <1>5, <1>6, <1>7, <1>8, <1>9, <1>10, <1>11

\* Among leaving calls, nothing enters.
LEMMA OnlyExits ==
    ASSUME NEW d, Rank(d) \in {1, 2}, NEW J, NEW st, NEW A
    PROVE  /\ SetFine(d, J) /\ EntryFine(d, J, st) /\ EntryDownFine(d, J, st)
           /\ EntryUpFine(d, J, st, A) /\ ArriveFine(d, J, A) /\ EventFine(d, J, A)
<1>1. d.op \notin {"entry", "entry_down", "entry_up", "arrive", "event", "descend"}
  BY RankTells
<1>2. d.op = "set_state" => d.value = NoNode
  BY DEF Rank
<1> QED
  BY <1>1, <1>2 DEF SetFine, EntryFine, EntryDownFine, EntryUpFine, ArriveFine, EventFine

\* A step that replaces a leaving call keeps what the others rely on.
LEMMA ExitStep ==
    ASSUME NEW c, NEW D, NEW R, NEW I, I = {c} \cup R, NEW J, J = D \cup R, NEW st, NEW A,
           Fine(I, st, A), Unmoved(I, J, A),
           \A d \in D : /\ Rank(d) \in {1, 2} /\ Exits(d) \subseteq Exits(c)
                        /\ ExitFine(d, J, A) /\ ExitDownFine(d, J, A)
                        /\ ExitUpFine(d, J, st, A) /\ ClearFine(d, J, A)
    PROVE  Fine(J, st, A)
<1>1. Nested(I, A) /\ Pointers(I, st, A) /\ Plan(I, A) /\ Each(I, st, A)
  BY DEF Fine
<1>2. ASSUME NEW d \in D PROVE ExitWhole(d, A)
  <2>1. ExitWhole(c, A)
    BY <1>1 DEF Each
  <2> QED
    BY <2>1 DEF ExitWhole
<1>5. Nested(J, A)
  BY <1>1 DEF Nested, Unmoved
<1>6. Pointers(J, st, A)
  BY <1>1 DEF Pointers, Unmoved
<1>7. Plan(J, A)
  BY <1>1 DEF Plan, Unmoved
<1>8. ASSUME NEW d \in J
      PROVE  /\ ExitWhole(d, A)
             /\ ExitFine(d, J, A) /\ ExitDownFine(d, J, A) /\ ExitUpFine(d, J, st, A)
             /\ ClearFine(d, J, A) /\ SetFine(d, J)
             /\ EntryFine(d, J, st) /\ EntryDownFine(d, J, st) /\ EntryUpFine(d, J, st, A)
             /\ ArriveFine(d, J, A) /\ EventFine(d, J, A)
  <2>1. CASE d \in R
    BY <1>1, <2>1, ExitOthers
  <2>2. CASE d \in D
    BY <1>2, <2>2, OnlyExits
  <2> QED
    BY <2>1, <2>2
<1>9. Each(J, st, A)
  BY <1>8 DEF Each
<1> QED
  BY <1>5, <1>6, <1>7, <1>9 DEF Fine

--------------------------------------------------------------------------------
(* walk_exit_down *)

\* With a node, all that is above it is in.
LEMMA NestedUp ==
    ASSUME NEW A, A \subseteq Node, \A m \in A \ {Root} : parent[m] \in A, NEW m \in A
    PROVE  Upward[m] \subseteq A
  BY UpwardLeast DEF Closed

\* What leads down from n to a state that is in.
LEMMA WayDown ==
    ASSUME NEW I, NEW st, NEW A, Nested(I, A), Pointers(I, st, A),
           NEW n \in Node, NEW m \in A, n \in Upward[m], m # n
    PROVE  \E k \in Kids(n) \cap A : k \in Upward[m] /\ (~Parallel(n) => k = st[n])
<1>1. m \in Node /\ Upward[m] \subseteq A
  BY NestedUp DEF Nested
<1>2. PICK k \in Kids(n) : k \in Upward[m]
  BY <1>1, KidOnTheWay
<1>3. k \in A
  BY <1>1, <1>2
<1>4. k \in Node \ {Root} /\ parent[k] = n
  BY DEF Kids
<1>5. ~Parallel(n) => ~Region(k)
  BY <1>4 DEF Region
<1>6. ~Parallel(n) => st[n] = k
  BY <1>3, <1>4, <1>5 DEF Pointers
<1> QED
  BY <1>2, <1>3, <1>6

\* While something leaves that comes first, the pointers lead to what is in.
LEMMA LeadsIn ==
    ASSUME NEW c, NEW R, NEW I, I = {c} \cup R, NEW st, NEW A, Fine(I, st, A),
           \A b \in R : Before(c, b), Rank(c) \in {1, 2},
           NEW n \in Node, n \in A, n \in Exits(c), n \notin Clears(c), st[n] # NoNode
    PROVE  /\ st[n] \in A /\ st[n] \in Kids(n) /\ ~Parallel(n)
           /\ st[n] \in Node \ {Root} /\ parent[st[n]] = n /\ ~Region(st[n])
<1>1. Pointers(I, st, A) /\ Each(I, st, A)
  BY DEF Fine
<1>2. st[n] \in Kids(n) /\ ~Parallel(n)
  BY <1>1 DEF Pointers
<1>3. st[n] \in Node \ {Root} /\ parent[st[n]] = n /\ ~Region(st[n])
  BY <1>2 DEF Kids, Region
<1>4. n \notin Clearing(I)
  BY DEF Clearing, Before, ExitOrder
<1>5. st[n] \in A \cup Soon(I) \cup Again(I)
  BY <1>1, <1>4 DEF Pointers
<1>6. Soon(I) = {}
  <2>1. \A b \in R : Rank(b) # 5
    BY DEF Before, RankOrder
  <2>2. \A b \in I : b.op \notin {"entry", "entry_down"}
    BY <2>1, RankTells
  <2> QED
    BY <2>2 DEF Soon
<1>7. n \in Leaving(I, A)
  BY DEF Leaving
<1>8. st[n] \notin Again(I)
  <2> SUFFICES ASSUME NEW e \in I, e.op = "entry_up", e.flag = TRUE, st[n] = e.ancestor
               PROVE  FALSE
    BY DEF Again
  <2>1. EntryUpFine(e, I, st, A)
    BY <1>1 DEF Each
  <2>2. parent[st[n]] \in Staying(I, A)
    BY <1>3, <2>1 DEF EntryUpFine
  <2> QED
    BY <1>3, <1>7, <2>2 DEF Staying
<1> QED
  BY <1>2, <1>3, <1>5, <1>6, <1>8

\* A step of walk_exit_down keeps the invariant.
LEMMA ExitDownKeeps ==
    ASSUME NEW c, c.op = "exit_down", NEW R, NEW I, I = {c} \cup R,
           NEW st, NEW A, Fine(I, st, A), \A b \in R : Before(c, b),
           NEW D, D = ExitDownSet(c.node, st[c.node], c.except), NEW J, J = D \cup R
    PROVE  Onward(I, J, D, R, st, A) /\ PointsDown(c.node, st[c.node])
<1> DEFINE n == c.node
           x == c.except
           s == st[n]
           X1 == ExitDown(s, NoNode)
           X2 == SetState(n, NoNode)
           X3 == ExitDown(children[n], NoNode)
           X4 == CallExit(n)
           X5 == ExitDown(NextRegion(n), x)
<1>1. Nested(I, A) /\ Pointers(I, st, A) /\ Each(I, st, A) /\ A \subseteq Node
  BY DEF Fine, Nested
<1>2. /\ n \in Node
      /\ \A r \in Chain(n) \ {x} : r \in A /\ PointerCleared(r, I)
      /\ ExitWhole(c, A)
  BY <1>1 DEF Each, ExitDownFine
<1>3. Rank(c) = 1
  BY DEF Rank
<1>4. Outward(c) /\ Clears(c) = {}
  BY DEF Outward, Enters, Sets, Tops, Clears
<1>5. Exits(c) = {m \in Node : \E r \in Chain(n) : r # x /\ r \in Upward[m]}
  BY DEF Exits
<1>6. n \in Upward[n] /\ NoNode \notin Node /\ NoNode \notin A
  BY <1>1, <1>2, UpwardStep, RootIsNode
<1>7. n \in Chain(n)
  BY DEF Chain
<1>8. n # x => n \in A /\ n \in Exits(c) /\ PointerCleared(n, I)
  BY <1>2, <1>5, <1>6, <1>7
<1>9. \A m \in Node : n # x /\ n \in Upward[m] => m \in Exits(c)
  BY <1>5, <1>7
<1>10. s = NoNode \/ (s \in Kids(n) /\ ~Parallel(n))
  BY <1>1, <1>2 DEF Pointers
<1>11. n # x /\ s # NoNode =>
         /\ s \in A /\ s \in Kids(n) /\ ~Parallel(n)
         /\ s \in Node \ {Root} /\ parent[s] = n /\ Chain(s) = {s}
  <2> SUFFICES ASSUME n # x, s # NoNode
               PROVE  /\ s \in A /\ s \in Kids(n) /\ ~Parallel(n)
                      /\ s \in Node \ {Root} /\ parent[s] = n /\ Chain(s) = {s}
    OBVIOUS
  <2>1. /\ Rank(c) \in {1, 2} /\ n \in Node /\ n \in A /\ n \in Exits(c) /\ n \notin Clears(c)
        /\ st[n] # NoNode /\ I = {c} \cup R /\ Fine(I, st, A)
    BY <1>2, <1>3, <1>4, <1>8
  <2> HIDE DEF n
  <2>2. /\ st[n] \in A /\ st[n] \in Kids(n) /\ ~Parallel(n)
        /\ st[n] \in Node \ {Root} /\ parent[st[n]] = n /\ ~Region(st[n])
    BY <2>1, LeadsIn
  <2> QED
    BY <2>2, ChainAlone
<1>12. n # x /\ Parallel(n) =>
         children[n] \in Node /\ children[n] \in Kids(n) /\ Chain(children[n]) = Kids(n)
  BY <1>2, ChainOfAll DEF Kids
<1>13. NextRegion(n) # NoNode =>
         /\ NextRegion(n) \in Node /\ NextRegion(n) \in Kids(parent[n])
         /\ Chain(n) = {n} \cup Chain(NextRegion(n))
  BY <1>2, NextRegionIs, ChainGoesOn DEF Kids
<1>14. NextRegion(n) = NoNode => Chain(n) = {n}
  BY <1>2, ChainGoesOn
<1> HIDE DEF n, x, s
<1>15. \A d \in D : \/ d = X1 /\ n # x /\ s # NoNode
                    \/ d = X2 /\ n # x
                    \/ d = X3 /\ n # x /\ Parallel(n)
                    \/ d = X4 /\ n # x
                    \/ d = X5 /\ NextRegion(n) # NoNode
  BY DEF ExitDownSet, n, x, s
<1>16. /\ n # x => X4 \in D
       /\ n # x /\ s # NoNode => X1 \in D /\ X2 \in D
       /\ n # x /\ Parallel(n) => X3 \in D
       /\ NextRegion(n) # NoNode => X5 \in D
  BY DEF ExitDownSet, n, x, s
<1>17. n # x /\ s # NoNode =>
         /\ Rank(X1) = 1 /\ Outward(X1) /\ Clears(X1) = {}
         /\ Exits(X1) = {m \in Node : s \in Upward[m]}
  <2> SUFFICES ASSUME n # x, s # NoNode
               PROVE  /\ Rank(X1) = 1 /\ Outward(X1) /\ Clears(X1) = {}
                      /\ Exits(X1) = {m \in Node : s \in Upward[m]}
    OBVIOUS
  <2>1. /\ Rank(X1) = 1 /\ Outward(X1) /\ Clears(X1) = {}
        /\ Exits(X1) = {m \in Node : \E r \in {s} : r # NoNode /\ r \in Upward[m]}
    BY <1>11, OfExitDown
  <2> QED
    BY <2>1
<1>18. Rank(X2) = 1 /\ Outward(X2) /\ Exits(X2) = {} /\ Clears(X2) = {n}
  BY <1>2, OfClear
<1>19. n # x /\ Parallel(n) =>
         /\ Rank(X3) = 1 /\ Outward(X3) /\ Clears(X3) = {}
         /\ Exits(X3) = {m \in Node : \E r \in Kids(n) : r \in Upward[m]}
  <2> SUFFICES ASSUME n # x, Parallel(n)
               PROVE  /\ Rank(X3) = 1 /\ Outward(X3) /\ Clears(X3) = {}
                      /\ Exits(X3) = {m \in Node : \E r \in Kids(n) : r \in Upward[m]}
    OBVIOUS
  <2>1. /\ Rank(X3) = 1 /\ Outward(X3) /\ Clears(X3) = {}
        /\ Exits(X3) = {m \in Node : \E r \in Kids(n) : r # NoNode /\ r \in Upward[m]}
    BY <1>12, OfExitDown
  <2>2. \A r \in Kids(n) : r # NoNode
    BY <1>6 DEF Kids
  <2> QED
    BY <2>1, <2>2
<1>20. Rank(X4) = 1 /\ Outward(X4) /\ Exits(X4) = {n} /\ Clears(X4) = {}
  BY <1>2, OfExit
<1>21. NextRegion(n) # NoNode =>
         /\ Rank(X5) = 1 /\ Outward(X5) /\ Clears(X5) = {}
         /\ Exits(X5) = {m \in Node : \E r \in Chain(NextRegion(n)) : r # x /\ r \in Upward[m]}
  BY <1>13, OfExitDown
<1>22. \A m \in Node : \A k \in Kids(n) : k \in Upward[m] => n \in Upward[m]
  BY <1>2, KidAbove
<1> HIDE DEF X1, X2, X3, X4, X5
<1>23. ASSUME NEW d \in D
       PROVE  Rank(d) = 1 /\ Outward(d) /\ Exits(d) \subseteq Exits(c) /\ Clears(d) \subseteq Exits(c)
  <2>1. CASE d = X1 /\ n # x /\ s # NoNode
    BY <1>9, <1>11, <1>17, <1>22, <2>1
  <2>2. CASE d = X2 /\ n # x
    BY <1>8, <1>18, <2>2
  <2>3. CASE d = X3 /\ n # x /\ Parallel(n)
    BY <1>9, <1>19, <1>22, <2>3
  <2>4. CASE d = X4 /\ n # x
    BY <1>8, <1>20, <2>4
  <2>5. CASE d = X5 /\ NextRegion(n) # NoNode
    BY <1>5, <1>13, <1>21, <2>5
  <2> QED
    BY <1>15, <2>1, <2>2, <2>3, <2>4, <2>5
<1>24. ASSUME NEW m \in A \cap Exits(c) PROVE \E d \in D : m \in Exits(d)
  <2>1. PICK r \in Chain(n) : r # x /\ r \in Upward[m] /\ m \in Node
    BY <1>5
  <2>2. CASE r = n
    <3>1. n # x /\ n \in Upward[m]
      BY <2>1, <2>2
    <3>2. CASE m = n
      BY <1>16, <1>20, <3>1, <3>2
    <3>3. CASE m # n
      <4>1. PICK k \in Kids(n) \cap A : k \in Upward[m] /\ (~Parallel(n) => k = s)
        BY <1>1, <1>2, <3>1, <3>3, WayDown DEF s
      <4>2. CASE Parallel(n)
        BY <1>16, <1>19, <2>1, <3>1, <4>1, <4>2
      <4>3. CASE ~Parallel(n)
        BY <1>6, <1>16, <1>17, <2>1, <3>1, <4>1, <4>3
      <4> QED
        BY <4>2, <4>3
    <3> QED
      BY <3>2, <3>3
  <2>3. CASE r # n
    BY <1>13, <1>14, <1>16, <1>21, <2>1, <2>3
  <2> QED
    BY <2>2, <2>3
<1>25. Unmoved(I, J, A)
  <2>1. \A d \in D : Rank(d) \in {1, 2} /\ Outward(d) /\ Exits(d) \subseteq Exits(c)
    BY <1>23
  <2>2. \A m \in Clears(c) : \E d \in D : m \in Clears(d)
    BY <1>4
  <2>3. LeaveSame(c, D, A)
    BY <1>24, <2>1, <2>2 DEF LeaveSame
  <2>4. Rank(c) \in {1, 2}
    BY <1>3
  <2> QED
    BY <1>4, <2>3, <2>4, ExitSets, Zenon
<1>26. ASSUME NEW m, PointerCleared(m, I) PROVE PointerCleared(m, J)
  BY <1>25, <1>26 DEF PointerCleared, Unmoved
<1>27. n # x /\ s # NoNode => n \in Clearing(J)
  BY <1>2, <1>16, <1>18 DEF Clearing
<1>28. c \in I
  OBVIOUS
<1>29. ASSUME NEW d \in D PROVE ExitFine(d, J, A)
  <2>1. X1.op = "exit_down" /\ X2.op = "set_state" /\ X3.op = "exit_down" /\ X5.op = "exit_down"
        /\ X4.node = n
    BY DEF X1, X2, X3, X4, X5, ExitDown, SetState, CallExit
  <2>2. CASE d = X4 /\ n # x
    BY <1>2, <1>8, <1>26, <2>1, <2>2 DEF ExitFine
  <2> QED
    BY <1>15, <2>1, <2>2 DEF ExitFine
<1>30. ASSUME NEW d \in D PROVE ExitDownFine(d, J, A)
  <2>1. /\ X1.node = s /\ X1.except = NoNode
        /\ X3.node = children[n] /\ X3.except = NoNode
        /\ X5.node = NextRegion(n) /\ X5.except = x
        /\ X2.op = "set_state" /\ X4.op = "exit"
    BY DEF X1, X2, X3, X4, X5, ExitDown, SetState, CallExit
  <2>2. CASE d = X1 /\ n # x /\ s # NoNode
    <3>1. PointerCleared(s, J)
      BY <1>11, <1>27, <2>2 DEF PointerCleared
    <3> QED
      BY <1>11, <2>1, <2>2, <3>1 DEF ExitDownFine
  <2>3. CASE d = X3 /\ n # x /\ Parallel(n)
    <3>1. ASSUME NEW r \in Kids(n) PROVE r \in A /\ PointerCleared(r, J)
      <4>1. r \in Node \ {Root} /\ parent[r] = n /\ r \in Upward[r]
        BY UpwardStep DEF Kids
      <4>2. r \in Exits(c)
        BY <1>9, <1>22, <2>3, <4>1
      <4>3. r \in A
        BY <1>2, <1>8, <2>3, <4>2 DEF ExitWhole
      <4> QED
        BY <2>3, <4>1, <4>3 DEF PointerCleared
    <3> QED
      BY <1>12, <2>1, <2>3, <3>1 DEF ExitDownFine
  <2>4. CASE d = X5 /\ NextRegion(n) # NoNode
    BY <1>2, <1>13, <1>26, <2>1, <2>4 DEF ExitDownFine
  <2>5. d \in {X2, X4} => ExitDownFine(d, J, A)
    BY <2>1 DEF ExitDownFine
  <2> QED
    BY <1>15, <2>2, <2>3, <2>4, <2>5
<1>31. ASSUME NEW d \in D PROVE ClearFine(d, J, A)
  <2>1. /\ X1.op = "exit_down" /\ X3.op = "exit_down" /\ X5.op = "exit_down" /\ X4.op = "exit"
        /\ X2.node = n
    BY DEF X1, X2, X3, X4, X5, ExitDown, SetState, CallExit
  <2>2. CASE d = X2 /\ n # x
    <3>1. n \in Leaving(I, A)
      BY <1>8, <1>28, <2>2 DEF Leaving
    <3>2. Kids(n) \cap A \subseteq Leaving(I, A)
      <4>1. \A k \in Kids(n) : k \in Node /\ n \in Upward[k]
        BY <1>22, UpwardStep DEF Kids
      <4> QED
        BY <1>9, <1>28, <2>2, <4>1 DEF Leaving
    <3> QED
      BY <1>2, <1>25, <2>1, <2>2, <3>1, <3>2 DEF ClearFine, Unmoved
  <2> QED
    BY <1>15, <2>1, <2>2 DEF ClearFine
<1>32. ASSUME NEW d \in D PROVE ExitUpFine(d, J, st, A)
  BY <1>23, RankTells DEF ExitUpFine
<1>33. Fine(J, st, A)
  BY <1>23, <1>25, <1>29, <1>30, <1>31, <1>32, ExitStep
<1>34. ASSUME NEW d \in D, NEW b \in R PROVE Before(d, b)
  BY <1>3, <1>23, OutwardBefore
<1>99. /\ Fine(J, st, A) /\ Unmoved(I, J, A)
       /\ \A d \in D, b \in R : Before(d, b)
       /\ c.node \in Node
       /\ st[c.node] = NoNode \/ (st[c.node] \in Kids(c.node) /\ ~Parallel(c.node))
  BY <1>2, <1>10, <1>25, <1>33, <1>34 DEF n, s, x
<1> QED
  BY <1>99 DEF Onward, PointsDown, Unmoved

--------------------------------------------------------------------------------
(* walk_exit_up *)

\* The way from n up to the ancestor goes on at the parent of n.
LEMMA BetweenStep ==
    ASSUME NEW n \in Node, NEW a \in Upward[n], NEW f \in BOOLEAN
    PROVE  /\ n = Root => n = a
           /\ n # a \/ f => n \in Between(n, a, f)
           /\ ~(n # a \/ f) => Between(n, a, f) = {}
           /\ n # a => /\ parent[n] \in Node /\ a \in Upward[parent[n]]
                       /\ Between(n, a, f) = {n} \cup Between(parent[n], a, f)
<1>1. Upward[Root] = {Root} /\ n \in Upward[n] /\ a \in Node
  BY UpwardStep, UpwardType
<1>2. n = Root => n = a
  BY <1>1
<1>3. n # a \/ f => n \in Between(n, a, f)
  BY <1>1 DEF Between
<1>4. ASSUME n = a, ~f, NEW x \in Between(n, a, f) PROVE FALSE
  <2>1. x \in Upward[n] /\ n \in Upward[x] /\ x # n
    BY <1>4 DEF Between
  <2>2. x \in Node
    BY <2>1, UpwardType
  <2> QED
    BY <2>1, <2>2, UpwardAntisymmetric
<1>5. n # a => /\ parent[n] \in Node /\ a \in Upward[parent[n]]
               /\ Between(n, a, f) = {n} \cup Between(parent[n], a, f)
  <2> SUFFICES ASSUME n # a
               PROVE  /\ parent[n] \in Node /\ a \in Upward[parent[n]]
                      /\ Between(n, a, f) = {n} \cup Between(parent[n], a, f)
    OBVIOUS
  <2>1. n \in Node \ {Root}
    BY <1>2
  <2>2. parent[n] \in Node /\ Upward[n] = {n} \cup Upward[parent[n]]
    BY <2>1, ParentIsAbove, UpwardStep
  <2> QED
    BY <2>2 DEF Between
<1> QED
  BY <1>2, <1>3, <1>4, <1>5

\* A step of walk_exit_up keeps the invariant.
LEMMA ExitUpKeeps ==
    ASSUME NEW c, c.op = "exit_up", NEW R, NEW I, I = {c} \cup R,
           NEW st, NEW A, Fine(I, st, A), \A b \in R : Before(c, b),
           NEW D, D = ExitUpSet(c.node, c.ancestor, c.branch, c.flag, st[c.node]),
           NEW J, J = D \cup R
    PROVE  Onward(I, J, D, R, st, A) /\ PointsDown(c.node, st[c.node]) /\ c.flag \in BOOLEAN
<1> DEFINE n == c.node
           a == c.ancestor
           b == c.branch
           f == c.flag
           s == st[n]
           p == parent[n]
           X1 == ExitDown(s, NoNode)
           X2 == ExitDown(children[n], b)
           X3 == SetState(n, NoNode)
           X4 == CallExit(n)
           X5 == ExitUp(p, a, n, f)
<1>1. Nested(I, A) /\ Pointers(I, st, A) /\ Each(I, st, A) /\ A \subseteq Node
  BY DEF Fine, Nested
<1>2. ExitUpFine(c, I, st, A) /\ ExitWhole(c, A) /\ c \in I
  BY <1>1 DEF Each
<1>3. /\ n \in Node /\ a \in Upward[n] /\ f \in BOOLEAN
      /\ n # a \/ f => n \in A
      /\ b = NoNode => n # a \/ f
      /\ b # NoNode => /\ b \in Kids(n)
                       /\ b \in A => b \in Leaving(I, A)
                       /\ Parallel(n) => n # a \/ f
                       /\ ~Parallel(n) => s = b
      /\ Return(c, I)
  BY <1>2 DEF ExitUpFine
<1>4. Rank(c) = 2 /\ Outward(c)
  BY DEF Rank, Outward, Enters, Sets, Tops
<1>5. \A e \in R : Rank(e) >= 3 /\ Exits(e) = {} /\ Clears(e) = {}
  <2>1. \A e \in R : Rank(e) >= 3
    BY <1>4, RankType DEF Before, RankOrder
  <2> QED
    BY <2>1, RankTells
<1>6. Clears(c) = IF b = NoNode THEN {} ELSE {n}
  BY <1>3 DEF Clears
<1>7. Exits(c) = {m \in Node : b \notin Upward[m] /\ \E w \in Between(n, a, f) : w \in Upward[m]}
  BY DEF Exits, Way
<1>8. s = NoNode \/ (s \in Kids(n) /\ ~Parallel(n))
  BY <1>1, <1>3 DEF Pointers
<1>9. n \in Upward[n] /\ NoNode \notin Node /\ NoNode \notin A
  BY <1>1, <1>3, UpwardStep, RootIsNode
<1>10. b \notin A
  <2> SUFFICES ASSUME b \in A PROVE FALSE
    OBVIOUS
  <2>1. b \in Node /\ b \in Leaving(I, A)
    BY <1>3, <1>9, <1>1
  <2>2. b \in Upward[b]
    BY <2>1, UpwardStep
  <2>3. b \in Exits(c)
    BY <1>5, <2>1 DEF Leaving
  <2> QED
    BY <1>7, <2>2, <2>3
<1>11. \A m \in Node : NoNode \notin Upward[m]
  BY <1>9, UpwardType
<1>12. \A m \in Node : \A k \in Kids(n) : k \in Upward[m] => n \in Upward[m] /\ m # n
  BY <1>3, KidAbove
<1>13. b \notin Upward[n]
  BY <1>3, <1>11, <1>12
<1>14. n # a \/ f => n \in Exits(c) /\ n \in A /\ n \in Leaving(I, A)
  <2>1. n # a \/ f => n \in Exits(c)
    BY <1>3, <1>7, <1>9, <1>13, BetweenStep
  <2> QED
    BY <1>2, <1>3, <2>1 DEF Leaving
<1>15. b = NoNode /\ s # NoNode =>
         /\ s \in A /\ s \in Kids(n) /\ ~Parallel(n)
         /\ s \in Node \ {Root} /\ parent[s] = n /\ Chain(s) = {s}
  <2> SUFFICES ASSUME b = NoNode, s # NoNode
               PROVE  /\ s \in A /\ s \in Kids(n) /\ ~Parallel(n)
                      /\ s \in Node \ {Root} /\ parent[s] = n /\ Chain(s) = {s}
    OBVIOUS
  <2>1. /\ Rank(c) \in {1, 2} /\ n \in Node /\ n \in A /\ n \in Exits(c) /\ n \notin Clears(c)
        /\ st[n] # NoNode
    BY <1>3, <1>4, <1>6, <1>14
  <2> HIDE DEF n
  <2>2. /\ st[n] \in A /\ st[n] \in Kids(n) /\ ~Parallel(n)
        /\ st[n] \in Node \ {Root} /\ parent[st[n]] = n /\ ~Region(st[n])
    BY <2>1, LeadsIn
  <2> QED
    BY <2>2, ChainAlone
<1>16. Parallel(n) =>
         /\ children[n] \in Node /\ children[n] \in Kids(n) /\ Chain(children[n]) = Kids(n)
         /\ n # a \/ f
  BY <1>3, ChainOfAll DEF Kids
<1>17. n # a => p \in Node /\ a \in Upward[p] /\ Between(n, a, f) = {n} \cup Between(p, a, f)
                /\ n \in Node \ {Root} /\ p # n /\ n \notin Upward[p] /\ p \in Upward[n]
  BY <1>3, BetweenStep, ParentIsAbove
<1>18. n # a \/ f => n \in Between(n, a, f)
  BY <1>3, BetweenStep
<1>19. ~(n # a \/ f) => Between(n, a, f) = {}
  BY <1>3, BetweenStep
<1> HIDE DEF n, a, b, f, s, p
<1>20. \A d \in D : \/ d = X1 /\ b = NoNode /\ s # NoNode
                    \/ d = X2 /\ Parallel(n)
                    \/ d = X3
                    \/ d = X4 /\ (n # a \/ f)
                    \/ d = X5 /\ n # a
  BY DEF ExitUpSet, n, a, b, f, s, p
<1>21. /\ b = NoNode /\ s # NoNode => X1 \in D
       /\ Parallel(n) => X2 \in D
       /\ X3 \in D
       /\ n # a \/ f => X4 \in D
  BY DEF ExitUpSet, n, a, b, f, s, p
<1>22. n # a => X5 \in D
  BY <1>17 DEF ExitUpSet, n, a, b, f, s, p
<1>23. b = NoNode /\ s # NoNode =>
         /\ Rank(X1) = 1 /\ Outward(X1) /\ Clears(X1) = {}
         /\ Exits(X1) = {m \in Node : s \in Upward[m]}
  <2> SUFFICES ASSUME b = NoNode, s # NoNode
               PROVE  /\ Rank(X1) = 1 /\ Outward(X1) /\ Clears(X1) = {}
                      /\ Exits(X1) = {m \in Node : s \in Upward[m]}
    OBVIOUS
  <2>1. /\ Rank(X1) = 1 /\ Outward(X1) /\ Clears(X1) = {}
        /\ Exits(X1) = {m \in Node : \E r \in {s} : r # NoNode /\ r \in Upward[m]}
    BY <1>15, OfExitDown
  <2> QED
    BY <2>1
<1>24. Parallel(n) =>
         /\ Rank(X2) = 1 /\ Outward(X2) /\ Clears(X2) = {}
         /\ Exits(X2) = {m \in Node : \E r \in Kids(n) : r # b /\ r \in Upward[m]}
  <2> SUFFICES ASSUME Parallel(n)
               PROVE  /\ Rank(X2) = 1 /\ Outward(X2) /\ Clears(X2) = {}
                      /\ Exits(X2) = {m \in Node : \E r \in Kids(n) : r # b /\ r \in Upward[m]}
    OBVIOUS
  <2> QED
    BY <1>16, OfExitDown
<1>25. Rank(X3) = 1 /\ Outward(X3) /\ Exits(X3) = {} /\ Clears(X3) = {n}
  BY <1>3, OfClear
<1>26. Rank(X4) = 1 /\ Outward(X4) /\ Exits(X4) = {n} /\ Clears(X4) = {}
  BY <1>3, OfExit
<1>27. n # a =>
         /\ Rank(X5) = 2 /\ Outward(X5) /\ Clears(X5) = {p}
         /\ Exits(X5) = {m \in Node : n \notin Upward[m] /\
                          \E w \in Between(p, a, f) : w \in Upward[m]}
  <2> SUFFICES ASSUME n # a
               PROVE  /\ Rank(X5) = 2 /\ Outward(X5) /\ Clears(X5) = {p}
                      /\ Exits(X5) = {m \in Node : n \notin Upward[m] /\
                                       \E w \in Between(p, a, f) : w \in Upward[m]}
    OBVIOUS
  <2>1. n # NoNode
    BY <1>3, <1>9
  <2>2. /\ Rank(X5) = 2 /\ Outward(X5)
        /\ Clears(X5) = IF n = NoNode THEN {} ELSE {p}
        /\ Exits(X5) = {m \in Node : n \notin Upward[m] /\
                         \E w \in Between(p, a, f) : w \in Upward[m]}
    BY <1>17, OfExitUp
  <2> QED
    BY <2>1, <2>2
<1> HIDE DEF X1, X2, X3, X4, X5
<1>28. \A m \in Node : \A k \in Kids(n) : k # b /\ k \in Upward[m] => b \notin Upward[m]
  <2> SUFFICES ASSUME NEW m \in Node, NEW k \in Kids(n), k # b, k \in Upward[m], b \in Upward[m]
               PROVE  FALSE
    OBVIOUS
  <2>1. b \in Kids(n)
    BY <1>3, <1>11
  <2> QED
    BY <2>1, SiblingsApart DEF Kids
<1>29. ASSUME NEW d \in D
       PROVE  /\ Rank(d) \in {1, 2} /\ Outward(d) /\ Exits(d) \subseteq Exits(c)
  <2>1. CASE d = X1 /\ b = NoNode /\ s # NoNode
    BY <1>3, <1>7, <1>11, <1>12, <1>15, <1>18, <1>23, <2>1
  <2>2. CASE d = X2 /\ Parallel(n)
    BY <1>7, <1>12, <1>16, <1>18, <1>24, <1>28, <2>2
  <2>3. CASE d = X3
    BY <1>25, <2>3
  <2>4. CASE d = X4 /\ (n # a \/ f)
    BY <1>14, <1>26, <2>4
  <2>5. CASE d = X5 /\ n # a
    <3>1. \A m \in Node : b \in Upward[m] => n \in Upward[m]
      BY <1>3, <1>11, <1>12
    <3> QED
      BY <1>7, <1>17, <1>27, <2>5, <3>1
  <2> QED
    BY <1>20, <2>1, <2>2, <2>3, <2>4, <2>5
<1>30. ASSUME NEW m \in A \cap Exits(c) PROVE \E d \in D : m \in Exits(d)
  <2>1. PICK w \in Between(n, a, f) : w \in Upward[m] /\ b \notin Upward[m] /\ m \in Node
    BY <1>7
  <2>2. n # a \/ f
    BY <1>19, <2>1
  <2>3. CASE n \in Upward[m]
    <3>1. CASE m = n
      BY <1>21, <1>26, <2>2, <3>1
    <3>2. CASE m # n
      <4>1. PICK k \in Kids(n) \cap A : k \in Upward[m] /\ (~Parallel(n) => k = s)
        BY <1>1, <1>3, <2>3, <3>2, WayDown DEF s, n
      <4>2. CASE Parallel(n)
        BY <1>21, <1>24, <2>1, <4>1, <4>2
      <4>3. CASE ~Parallel(n)
        <5>1. k = s /\ s \in A /\ s # NoNode
          BY <1>9, <4>1, <4>3
        <5>2. b = NoNode
          BY <1>3, <1>10, <4>3, <5>1
        <5> QED
          BY <1>21, <1>23, <2>1, <4>1, <5>1, <5>2
      <4> QED
        BY <4>2, <4>3
    <3> QED
      BY <3>1, <3>2
  <2>4. CASE n \notin Upward[m]
    <3>1. w # n
      BY <2>1, <2>4
    <3>2. n # a
      <4> SUFFICES ASSUME n = a PROVE FALSE
        OBVIOUS
      <4>1. w \in Upward[n] /\ n \in Upward[w] /\ w \in Node
        BY <1>3, <2>1, UpwardType DEF Between
      <4> QED
        BY <1>3, <3>1, <4>1, UpwardAntisymmetric
    <3>3. w \in Between(p, a, f)
      BY <1>17, <2>1, <3>1, <3>2
    <3> QED
      BY <1>22, <1>27, <2>1, <2>4, <3>2, <3>3
  <2> QED
    BY <2>3, <2>4
<1>31. Unmoved(I, J, A)
  <2>1. \A d \in D : Rank(d) \in {1, 2} /\ Outward(d) /\ Exits(d) \subseteq Exits(c)
    BY <1>29
  <2>2. \A m \in Clears(c) : \E d \in D : m \in Clears(d)
    BY <1>6, <1>21, <1>25
  <2>3. LeaveSame(c, D, A)
    BY <1>30, <2>1, <2>2 DEF LeaveSame
  <2>4. Rank(c) \in {1, 2}
    BY <1>4
  <2> QED
    BY <1>4, <2>3, <2>4, ExitSets, Zenon
<1>32. n \in Clearing(J) /\ (n # a => p \in Clearing(J))
  <2>1. \A d \in D : Clears(d) \subseteq Clearing(J)
    BY DEF Clearing, Clears
  <2> QED
    BY <1>21, <1>22, <1>25, <1>27, <2>1
\* The way back down enters the node that is left last, if it is left.
<1>33. PICK e \in I : e.op = "entry_up" /\ e.ancestor = a /\ e.flag = f
  BY <1>3 DEF Return, a, f
<1>34. /\ e.node \in Node /\ a \in Upward[e.node]
       /\ \A x \in Upward[e.node] \ {e.node} : a \in Upward[x] => ~Parallel(x)
       /\ e.node # a \/ f
  <2>1. EntryUpFine(e, I, st, A)
    BY <1>1 DEF Each
  <2>2. e \in R
    BY <1>33
  <2>3. e.branch = NoNode
    BY <1>4, <1>33, <2>2 DEF Before, RankOrder
  <2> QED
    BY <1>3, <1>33, <2>1, <2>3 DEF EntryUpFine
<1>35. ~f => ~Parallel(a)
  <2> SUFFICES ASSUME ~f PROVE ~Parallel(a)
    OBVIOUS
  <2>1. a \in Upward[e.node] \ {e.node}
    BY <1>34
  <2>2. a \in Upward[a]
    BY <1>3, UpwardType, UpwardStep
  <2> QED
    BY <1>34, <2>1, <2>2
<1>36. ASSUME NEW d \in D PROVE ExitFine(d, J, A)
  <2>1. /\ X1.op = "exit_down" /\ X2.op = "exit_down" /\ X3.op = "set_state" /\ X5.op = "exit_up"
        /\ X4.node = n
    BY DEF X1, X2, X3, X4, X5, ExitDown, SetState, CallExit, ExitUp
  <2>2. CASE d = X4 /\ (n # a \/ f)
    <3>1. n = Root => PointerCleared(n, J)
      BY DEF PointerCleared
    <3>2. n # a => PointerCleared(n, J)
      BY <1>32 DEF PointerCleared, p
    <3>3. ASSUME n = a PROVE n \in Again(J)
      <4>1. e \in J /\ e.flag = TRUE
        BY <1>31, <1>33, <2>2, <3>3 DEF Unmoved
      <4> QED
        BY <1>3, <1>33, <3>3, <4>1 DEF Again
    <3>4. PointerCleared(n, J)
      BY <3>1, <3>2, <3>3 DEF PointerCleared
    <3> QED
      BY <1>3, <2>1, <2>2, <3>4 DEF ExitFine
  <2> QED
    BY <1>20, <2>1, <2>2 DEF ExitFine
<1>37. ASSUME NEW d \in D PROVE ExitDownFine(d, J, A)
  <2>1. /\ X1.node = s /\ X1.except = NoNode
        /\ X2.node = children[n] /\ X2.except = b
        /\ X3.op = "set_state" /\ X4.op = "exit" /\ X5.op = "exit_up"
    BY DEF X1, X2, X3, X4, X5, ExitDown, SetState, CallExit, ExitUp
  <2>2. CASE d = X1 /\ b = NoNode /\ s # NoNode
    <3>1. PointerCleared(s, J)
      BY <1>15, <1>32, <2>2 DEF PointerCleared
    <3> QED
      BY <1>15, <2>1, <2>2, <3>1 DEF ExitDownFine
  <2>3. CASE d = X2 /\ Parallel(n)
    <3>1. ASSUME NEW r \in Kids(n) \ {b} PROVE r \in A /\ PointerCleared(r, J)
      <4>1. r \in Node \ {Root} /\ parent[r] = n /\ r \in Upward[r]
        BY UpwardStep DEF Kids
      <4>2. r \in Exits(X2)
        BY <1>24, <2>3, <4>1
      <4>3. r \in Exits(c)
        BY <1>29, <2>3, <4>2
      <4>4. n \in A \cap Exits(c)
        BY <1>14, <1>16, <2>3
      <4>5. r \in A
        BY <1>2, <2>3, <4>3, <4>4 DEF ExitWhole
      <4> QED
        BY <2>3, <4>1, <4>5 DEF PointerCleared
    <3> QED
      BY <1>16, <2>1, <2>3, <3>1 DEF ExitDownFine
  <2>4. d \in {X3, X4, X5} => ExitDownFine(d, J, A)
    BY <2>1 DEF ExitDownFine
  <2> QED
    BY <1>20, <2>2, <2>3, <2>4
<1>38. ASSUME NEW d \in D PROVE ClearFine(d, J, A)
  <2>1. /\ X1.op = "exit_down" /\ X2.op = "exit_down" /\ X4.op = "exit" /\ X5.op = "exit_up"
        /\ X3.node = n
    BY DEF X1, X2, X3, X4, X5, ExitDown, SetState, CallExit, ExitUp
  <2>2. CASE d = X3
    <3>1. ASSUME NEW k \in Kids(n) \cap A PROVE k \in Leaving(I, A)
      <4>1. k \in Node \ {Root} /\ parent[k] = n /\ k \in Upward[k] /\ n \in Upward[k]
        BY <1>12, UpwardStep DEF Kids
      <4>2. k # b
        BY <1>10
      <4>3. CASE n # a \/ f
        <5>1. k \in Exits(c)
          BY <1>7, <1>18, <1>28, <4>1, <4>2, <4>3
        <5> QED
          BY <1>2, <5>1 DEF Leaving
      <4>4. CASE ~(n # a \/ f)
        <5>1. b # NoNode /\ ~Parallel(n) /\ s = b
          BY <1>3, <1>16, <4>4
        <5>2. ~Region(k) /\ st[parent[k]] = k
          BY <1>1, <4>1, <5>1 DEF Region, Pointers
        <5> QED
          BY <4>1, <4>2, <5>1, <5>2 DEF s, n
      <4> QED
        BY <4>3, <4>4
    <3>2. \/ n \in Leaving(I, A)
          \/ \E g \in J : g.op = "entry_up" /\ g.flag # TRUE /\ g.ancestor = n
      <4>1. e \in J
        BY <1>31, <1>33 DEF Unmoved
      <4> QED
        BY <1>3, <1>14, <1>33, <4>1
    <3> QED
      BY <1>3, <1>31, <2>1, <2>2, <3>1, <3>2 DEF ClearFine, Unmoved
  <2> QED
    BY <1>20, <2>1, <2>2 DEF ClearFine
<1>39. ASSUME NEW d \in D PROVE ExitUpFine(d, J, st, A)
  <2>1. /\ X1.op = "exit_down" /\ X2.op = "exit_down" /\ X3.op = "set_state" /\ X4.op = "exit"
        /\ X5.node = p /\ X5.ancestor = a /\ X5.branch = n /\ X5.flag = f
    BY DEF X1, X2, X3, X4, X5, ExitDown, SetState, CallExit, ExitUp
  <2>2. CASE d = X5 /\ n # a
    <3>1. n \in A /\ n # NoNode /\ n \in Kids(p)
      BY <1>3, <1>9, <1>17, <2>2 DEF Kids, p
    <3>2. p \in A
      BY <1>1, <1>17, <2>2, <3>1 DEF Nested, p
    <3>3. n \in Leaving(J, A)
      BY <1>14, <1>31, <2>2 DEF Unmoved
    <3>4. Parallel(p) => p # a \/ f
      BY <1>35
    <3>5. ~Parallel(p) => st[p] = n
      BY <1>1, <1>17, <2>2, <3>1 DEF Pointers, Region, p
    <3>6. Return(d, J)
      BY <1>31, <1>33, <2>1, <2>2 DEF Return, Unmoved
    <3> QED
      BY <1>3, <1>17, <2>1, <2>2, <3>1, <3>2, <3>3, <3>4, <3>5, <3>6 DEF ExitUpFine
  <2>3. d \in {X1, X2, X3, X4} => ExitUpFine(d, J, st, A)
    BY <2>1 DEF ExitUpFine
  <2> QED
    BY <1>20, <2>2, <2>3
<1>40. Fine(J, st, A)
  BY <1>29, <1>31, <1>36, <1>37, <1>38, <1>39, ExitStep
<1>41. ASSUME NEW d \in D, NEW g \in R PROVE Before(d, g)
  <2>1. Rank(d) \in 1 .. Rank(c)
    BY <1>4, <1>29
  <2> QED
    BY <1>4, <1>29, <2>1, OutwardBefore
<1>99. /\ Fine(J, st, A) /\ Unmoved(I, J, A)
       /\ \A d \in D, g \in R : Before(d, g)
       /\ c.node \in Node /\ c.flag \in BOOLEAN
       /\ st[c.node] = NoNode \/ (st[c.node] \in Kids(c.node) /\ ~Parallel(c.node))
  BY <1>3, <1>8, <1>31, <1>40, <1>41 DEF n, f, s
<1> QED
  BY <1>99 DEF Onward, PointsDown, Unmoved

--------------------------------------------------------------------------------
(* Calls that enter: nothing leaves any more, and K is entered besides *)

Calm(I) == \A b \in I : Rank(b) >= 4

Grown(I, J, K) ==
    /\ Coming(J) = Coming(I) \cup K
    /\ Setting(I) \subseteq Setting(J) /\ Soon(I) \subseteq Soon(J)
    /\ Again(I) \subseteq Soon(J) \cup Again(J)

\* Where no call leaves, all that is in stays.
LEMMA CalmSets ==
    ASSUME NEW I, Calm(I), NEW A
    PROVE  /\ Leaving(I, A) = {} /\ Staying(I, A) = A /\ Clearing(I) = {}
           /\ Planned(I, A) = A \cup Coming(I)
<1>1. \A b \in I : Exits(b) = {} /\ Clears(b) = {}
  BY RankType, RankTells DEF Calm
<1>2. Leaving(I, A) = {} /\ Clearing(I) = {}
  BY <1>1 DEF Leaving, Clearing
<1> QED
  BY <1>2 DEF Staying, Planned

\* Nothing to say of calls that do not leave.
LEMMA NoExits ==
    ASSUME NEW d, Rank(d) >= 4, NEW J, NEW st, NEW A
    PROVE  /\ ExitWhole(d, A) /\ ExitFine(d, J, A) /\ ExitDownFine(d, J, A)
           /\ ExitUpFine(d, J, st, A) /\ ClearFine(d, J, A)
<1>1. d.op \notin {"exit", "exit_down", "exit_up"} /\ ~(d.op = "set_state" /\ d.value = NoNode)
  BY DEF Rank
<1>2. Exits(d) = {}
  BY RankType, RankTells
<1> QED
  BY <1>1, <1>2 DEF ExitWhole, ExitFine, ExitDownFine, ExitUpFine, ClearFine

\* The calls that wait are as fine as before.
LEMMA EntryOthers ==
    ASSUME NEW I, NEW J, NEW K, NEW st, NEW A, Calm(I), Calm(J), Grown(I, J, K),
           Each(I, st, A), NEW b \in I, Rank(b) >= 5,
           \A k \in K : k # Root /\ parent[k] \notin Enters(b)
    PROVE  /\ SetFine(b, J)
           /\ EntryFine(b, J, st) /\ EntryDownFine(b, J, st) /\ EntryUpFine(b, J, st, A)
           /\ ArriveFine(b, J, A) /\ EventFine(b, J, A)
<1>1. /\ SetFine(b, I) /\ EntryFine(b, I, st) /\ EntryDownFine(b, I, st)
      /\ ArriveFine(b, I, A) /\ EventFine(b, I, A)
  BY DEF Each
<1>2. \A m : PointerSet(m, I, st) => PointerSet(m, J, st)
  BY DEF PointerSet, Grown
<1>3. Planned(I, A) \subseteq Planned(J, A) /\ Staying(I, A) = Staying(J, A)
  BY CalmSets DEF Grown
<1>4. SetFine(b, J) /\ EntryFine(b, J, st)
  BY <1>1, <1>2 DEF SetFine, EntryFine, Grown
<1>5. ArriveFine(b, J, A) /\ EventFine(b, J, A)
  BY <1>1, <1>3 DEF ArriveFine, EventFine
<1>6. EntryUpFine(b, J, st, A)
  BY RankTells DEF EntryUpFine
<1>7. EntryDownFine(b, J, st)
  <2> SUFFICES ASSUME b.op = "entry_down"
               PROVE  /\ b.node \in Node /\ b.except = NoNode
                      /\ \A r \in Chain(b.node) : Kids(r) \cap Coming(J) = {} /\ PointerSet(r, J, st)
    BY DEF EntryDownFine
  <2>1. /\ b.node \in Node /\ b.except = NoNode
        /\ \A r \in Chain(b.node) : Kids(r) \cap Coming(I) = {} /\ PointerSet(r, I, st)
    BY <1>1 DEF EntryDownFine
  <2>2. ASSUME NEW r \in Chain(b.node), NEW k \in Kids(r) PROVE k \notin K
    <3>1. r \in Enters(b)
      BY <2>1, ChainType DEF Enters
    <3> QED
      BY <3>1 DEF Kids
  <2> QED
    BY <1>2, <2>1, <2>2 DEF Grown
<1> QED
  BY <1>4, <1>5, <1>6, <1>7

\* What is entered besides: below what is entered, where nothing is yet.
Fresh(K, I, A) ==
    \A k \in K : /\ k \in Node \ {Root} /\ k \notin A /\ parent[k] \in Coming(I)
                 /\ ~Parallel(parent[k]) =>
                       /\ Kids(parent[k]) \cap Planned(I, A) = {}
                       /\ \A j \in K \cap Kids(parent[k]) : j = k

\* What is not continued has been.
Continued(I, J, K, A) ==
    \A n \in Planned(J, A) \ Starting(J) :
       /\ n \in Planned(I, A)
       /\ \/ n \notin Starting(I)
          \/ IF Parallel(n) THEN Kids(n) \subseteq K
             ELSE Kids(n) # {} => Kids(n) \cap K # {}

\* A step that replaces an entering call keeps the plan.
LEMMA EntryPlan ==
    ASSUME NEW I, NEW J, NEW K, NEW A, Calm(I), Calm(J), Grown(I, J, K),
           Nested(I, A), Plan(I, A), Fresh(K, I, A), Continued(I, J, K, A)
    PROVE  Plan(J, A)
<1>1. /\ Staying(I, A) = A /\ Staying(J, A) = A
      /\ Planned(I, A) = A \cup Coming(I) /\ Planned(J, A) = A \cup Coming(J)
      /\ Coming(J) = Coming(I) \cup K
  BY CalmSets DEF Grown
<1>2. Coming(J) \cap A = {}
  BY <1>1 DEF Plan, Fresh
<1>3. \A m \in Coming(J) \ {Root} : parent[m] \in Planned(J, A)
  BY <1>1 DEF Plan, Fresh
<1>4. ASSUME NEW n \in Node, ~Parallel(n),
             NEW x \in Kids(n) \cap Planned(J, A), NEW y \in Kids(n) \cap Planned(J, A)
      PROVE  x = y
  <2>1. parent[x] = n /\ parent[y] = n
    BY DEF Kids
  <2>2. CASE x \in K
    BY <1>1, <1>4, <2>1, <2>2 DEF Fresh
  <2>3. CASE y \in K
    BY <1>1, <1>4, <2>1, <2>3 DEF Fresh
  <2>4. CASE x \notin K /\ y \notin K
    BY <1>1, <1>4, <2>4 DEF Plan
  <2> QED
    BY <2>2, <2>3, <2>4
<1>5. ASSUME NEW n \in Planned(J, A) \ Starting(J)
      PROVE  IF Parallel(n) THEN Kids(n) \subseteq Planned(J, A)
             ELSE Kids(n) # {} => Kids(n) \cap Planned(J, A) # {}
  <2>1. n \in Planned(I, A)
    BY DEF Continued
  <2>2. CASE n \notin Starting(I)
    <3>1. IF Parallel(n) THEN Kids(n) \subseteq Planned(I, A)
          ELSE Kids(n) # {} => Kids(n) \cap Planned(I, A) # {}
      BY <2>1, <2>2 DEF Plan
    <3> QED
      BY <1>1, <3>1
  <2>3. CASE IF Parallel(n) THEN Kids(n) \subseteq K ELSE Kids(n) # {} => Kids(n) \cap K # {}
    BY <1>1, <2>3
  <2> QED
    BY <2>2, <2>3 DEF Continued
<1> QED
  BY <1>1, <1>2, <1>3, <1>4, <1>5 DEF Plan

\* A step that replaces an entering call keeps what the others rely on.
LEMMA EntryStep ==
    ASSUME NEW c, NEW D, NEW R, NEW I, I = {c} \cup R, NEW J, J = D \cup R, NEW st, NEW A,
           Fine(I, st, A), Rank(c) >= 4, \A b \in R : Rank(b) >= 5,
           NEW K, Grown(I, J, K), Fresh(K, I, A), Continued(I, J, K, A),
           \A b \in R, k \in K : parent[k] \notin Enters(b),
           \A d \in D : /\ Rank(d) \in {4, 5} /\ SetFine(d, J) /\ EntryFine(d, J, st)
                        /\ EntryDownFine(d, J, st) /\ EntryUpFine(d, J, st, A)
    PROVE  Fine(J, st, A)
<1>1. Nested(I, A) /\ Pointers(I, st, A) /\ Plan(I, A) /\ Each(I, st, A)
  BY DEF Fine
<1>2. Calm(I) /\ Calm(J)
  BY RankType DEF Calm
<1>3. Plan(J, A)
  BY <1>1, <1>2, EntryPlan
<1>4. Nested(J, A)
  BY <1>1, <1>2, CalmSets DEF Nested
<1>5. Pointers(J, st, A)
  <2>1. Clearing(J) = {} /\ Clearing(I) = {} /\ A \cup Soon(I) \cup Again(I) \subseteq A \cup Soon(J) \cup Again(J)
    BY <1>2, CalmSets DEF Grown
  <2> QED
    BY <1>1, <2>1 DEF Pointers
<1>6. ASSUME NEW d \in J
      PROVE  /\ SetFine(d, J)
             /\ EntryFine(d, J, st) /\ EntryDownFine(d, J, st) /\ EntryUpFine(d, J, st, A)
             /\ ArriveFine(d, J, A) /\ EventFine(d, J, A)
  <2>1. CASE d \in R
    <3>1. \A k \in K : k # Root /\ parent[k] \notin Enters(d)
      BY <2>1 DEF Fresh
    <3> QED
      BY <1>1, <1>2, <2>1, <3>1, EntryOthers
  <2>2. CASE d \in D
    <3>1. d.op \notin {"arrive", "event", "descend"}
      BY <2>2, RankTells
    <3> QED
      BY <2>2, <3>1 DEF ArriveFine, EventFine
  <2> QED
    BY <2>1, <2>2
<1>7. ASSUME NEW d \in J
      PROVE  /\ ExitWhole(d, A) /\ ExitFine(d, J, A) /\ ExitDownFine(d, J, A)
             /\ ExitUpFine(d, J, st, A) /\ ClearFine(d, J, A)
  BY <1>2, NoExits DEF Calm
<1>8. Each(J, st, A)
  BY <1>6, <1>7 DEF Each
<1> QED
  BY <1>3, <1>4, <1>5, <1>8 DEF Fine

--------------------------------------------------------------------------------
(* walk_entry_down *)

\* A step of walk_entry_down keeps the invariant.
LEMMA EntryDownKeeps ==
    ASSUME NEW c, c.op = "entry_down", NEW R, NEW I, I = {c} \cup R,
           NEW st, NEW A, Fine(I, st, A), \A b \in R : Before(c, b),
           NEW D, D = EntryDownSet(c.node, DefaultChild[c.node]), NEW J, J = D \cup R
    PROVE  Onward(I, J, D, R, st, A) /\ PointsDown(c.node, DefaultChild[c.node]) /\ NoException(c)
<1> DEFINE n == c.node
           d0 == DefaultChild[n]
           K == IF Parallel(n) THEN Kids(n) ELSE IF d0 # NoNode THEN {d0} ELSE {}
           X1 == CallEntry(n)
           X2 == SetState(n, d0)
           X3 == EntryDown(d0, NoNode)
           X4 == EntryDown(children[n], NoNode)
           X5 == EntryDown(NextRegion(n), NoNode)
<1>1. Nested(I, A) /\ Pointers(I, st, A) /\ Plan(I, A) /\ Each(I, st, A) /\ A \subseteq Node
  BY DEF Fine, Nested
<1>2. /\ n \in Node /\ c.except = NoNode /\ c \in I
      /\ \A r \in Chain(n) : Kids(r) \cap Coming(I) = {} /\ PointerSet(r, I, st)
  BY <1>1 DEF Each, EntryDownFine
<1>3. Rank(c) = 5
  BY DEF Rank
<1>4. \A b \in R : Rank(b) >= 5
  BY <1>3, RankType DEF Before, RankOrder
<1>5. Enters(c) = Chain(n) /\ Tops(c) = Chain(n) /\ Sets(c) = {}
  <2>1. Chain(n) \subseteq Node
    BY <1>2, ChainType
  <2> QED
    BY <2>1 DEF Enters, Tops, Sets
<1>6. n \in Chain(n) /\ NoNode \notin Node
  BY RootIsNode DEF Chain
<1>7. /\ Parallel(n) => d0 = NoNode
      /\ d0 # NoNode => d0 \in Kids(n)
      /\ d0 = NoNode /\ ~Parallel(n) => Kids(n) = {}
  BY <1>2, DefaultIsKid
<1>8. d0 # NoNode =>
         d0 \in Node \ {Root} /\ parent[d0] = n /\ ~Parallel(n) /\ Chain(d0) = {d0}
  <2> SUFFICES ASSUME d0 # NoNode
               PROVE  d0 \in Node \ {Root} /\ parent[d0] = n /\ ~Parallel(n) /\ Chain(d0) = {d0}
    OBVIOUS
  <2>1. d0 \in Node \ {Root} /\ parent[d0] = n /\ ~Parallel(n)
    BY <1>7 DEF Kids
  <2> QED
    BY <2>1, ChainAlone DEF Region
<1>9. Parallel(n) =>
         children[n] \in Node /\ Chain(children[n]) = Kids(n)
  BY <1>2, ChainOfAll DEF Kids
<1>10. NextRegion(n) # NoNode =>
         /\ NextRegion(n) \in Node
         /\ Chain(n) = {n} \cup Chain(NextRegion(n))
         /\ n \notin Chain(NextRegion(n))
  BY <1>2, NextRegionIs, ChainGoesOn DEF Kids
<1>11. NextRegion(n) = NoNode => Chain(n) = {n}
  BY <1>2, ChainGoesOn
<1>12. Kids(n) \subseteq Node \ {Root} /\ \A k \in Kids(n) : parent[k] = n
  BY DEF Kids
<1>13. K \subseteq Kids(n)
  BY <1>7
<1>14. Calm(I) /\ Planned(I, A) = A \cup Coming(I) /\ Staying(I, A) = A
  <2>1. Calm(I)
    BY <1>3, <1>4, RankType DEF Calm
  <2> QED
    BY <2>1, CalmSets
<1>15. n \in Coming(I) /\ n \notin A
  <2>1. n \in Coming(I)
    BY <1>2, <1>5, <1>6 DEF Coming
  <2> QED
    BY <1>1, <1>14, <2>1 DEF Plan
<1>16. Kids(n) \cap A = {}
  BY <1>1, <1>12, <1>15 DEF Nested
<1>17. Kids(n) \cap Coming(I) = {} /\ Kids(n) \cap Planned(I, A) = {}
  BY <1>2, <1>6, <1>14, <1>16
<1> HIDE DEF n, d0
<1>18. \A d \in D : \/ d = X1
                    \/ d = X2 /\ d0 # NoNode
                    \/ d = X3 /\ d0 # NoNode
                    \/ d = X4 /\ Parallel(n)
                    \/ d = X5 /\ NextRegion(n) # NoNode
  BY DEF EntryDownSet, n, d0
<1>19. /\ X1 \in D
       /\ d0 # NoNode => X2 \in D /\ X3 \in D
       /\ Parallel(n) => X4 \in D
       /\ NextRegion(n) # NoNode => X5 \in D
  BY DEF EntryDownSet, n, d0
<1>20. Rank(X1) = 5 /\ Enters(X1) = {n} /\ Tops(X1) = {} /\ Sets(X1) = {}
  BY <1>2, OfEntry
<1>21. d0 # NoNode => Rank(X2) = 5 /\ Enters(X2) = {} /\ Tops(X2) = {} /\ Sets(X2) = {d0}
  BY <1>2, <1>8, OfSet
<1>22. d0 # NoNode => Rank(X3) = 5 /\ Enters(X3) = {d0} /\ Tops(X3) = {d0} /\ Sets(X3) = {}
  BY <1>8, OfEntryDown
<1>23. Parallel(n) => Rank(X4) = 5 /\ Enters(X4) = Kids(n) /\ Tops(X4) = Kids(n) /\ Sets(X4) = {}
  BY <1>9, OfEntryDown
<1>24. NextRegion(n) # NoNode =>
          /\ Rank(X5) = 5 /\ Sets(X5) = {}
          /\ Enters(X5) = Chain(NextRegion(n)) /\ Tops(X5) = Chain(NextRegion(n))
  BY <1>10, OfEntryDown
<1>25. /\ X1.op = "entry" /\ X1.node = n
       /\ X2.op = "set_state" /\ X2.node = n /\ X2.value = d0
       /\ X3.op = "entry_down" /\ X3.node = d0 /\ X3.except = NoNode
       /\ X4.op = "entry_down" /\ X4.node = children[n] /\ X4.except = NoNode
       /\ X5.op = "entry_down" /\ X5.node = NextRegion(n) /\ X5.except = NoNode
  BY DEF CallEntry, SetState, EntryDown
<1> HIDE DEF X1, X2, X3, X4, X5
<1>26. ASSUME NEW d \in D
       PROVE  Rank(d) = 5 /\ Enters(d) \subseteq Chain(n) \cup K
  <2>1. CASE d = X1
    BY <1>6, <1>20, <2>1
  <2>2. CASE d = X2 /\ d0 # NoNode
    BY <1>21, <2>2
  <2>3. CASE d = X3 /\ d0 # NoNode
    BY <1>7, <1>22, <2>3
  <2>4. CASE d = X4 /\ Parallel(n)
    BY <1>23, <2>4
  <2>5. CASE d = X5 /\ NextRegion(n) # NoNode
    BY <1>10, <1>24, <2>5
  <2> QED
    BY <1>18, <2>1, <2>2, <2>3, <2>4, <2>5
<1>27. ASSUME NEW k \in K PROVE \E d \in D : k \in Enters(d) /\ k \in Tops(d) /\ d.op = "entry_down"
  BY <1>7, <1>19, <1>22, <1>23, <1>25
<1>28. ASSUME NEW m \in Chain(n)
       PROVE  \E d \in D : m \in Enters(d) /\ (m # n => m \in Tops(d)) /\ d.op \in {"entry", "entry_down"}
  BY <1>10, <1>11, <1>19, <1>20, <1>24, <1>25
<1> HIDE DEF K
<1>29. Coming(J) = Coming(I) \cup K
  <2>1. K \subseteq Node
    BY <1>12, <1>13
  <2>2. ASSUME NEW m \in Coming(J) PROVE m \in Coming(I) \cup K
    BY <1>2, <1>5, <1>26 DEF Coming
  <2>3. ASSUME NEW m \in Coming(I) PROVE m \in Coming(J)
    BY <1>5, <1>28 DEF Coming
  <2>4. ASSUME NEW m \in K PROVE m \in Coming(J)
    BY <1>27, <2>1 DEF Coming
  <2> QED
    BY <2>2, <2>3, <2>4
<1>30. Setting(I) \subseteq Setting(J)
  BY <1>5 DEF Setting
<1>31. Soon(I) \subseteq Soon(J)
  BY <1>5, <1>28 DEF Soon
<1>32. Again(I) \subseteq Again(J)
  BY DEF Again
<1>33. Grown(I, J, K)
  BY <1>29, <1>30, <1>31, <1>32 DEF Grown
<1>34. Fresh(K, I, A)
  <2> SUFFICES ASSUME NEW k \in K
               PROVE  /\ k \in Node \ {Root} /\ k \notin A /\ parent[k] \in Coming(I)
                      /\ ~Parallel(parent[k]) =>
                            /\ Kids(parent[k]) \cap Planned(I, A) = {}
                            /\ \A j \in K \cap Kids(parent[k]) : j = k
    BY DEF Fresh
  <2>1. k \in Node \ {Root} /\ parent[k] = n /\ k \notin A
    BY <1>12, <1>13, <1>16
  <2> QED
    BY <1>15, <1>17, <2>1 DEF K
<1>35. K \subseteq Starting(J) /\ Starting(I) \subseteq Starting(J) \cup {n}
  <2>1. K \subseteq Node
    BY <1>12, <1>13
  <2>2. K \subseteq Starting(J)
    BY <1>27, <2>1 DEF Starting
  <2>3. ASSUME NEW m \in Starting(I) PROVE m \in Starting(J) \cup {n}
    <3>1. PICK e \in I : m \in Tops(e) /\ m \in Node
      BY DEF Starting
    <3>2. CASE e = c
      BY <1>5, <1>28, <3>1, <3>2 DEF Starting
    <3>3. CASE e \in R
      BY <3>1, <3>3 DEF Starting
    <3> QED
      BY <3>2, <3>3
  <2> QED
    BY <2>2, <2>3
<1>36. Calm(J)
  BY <1>4, <1>26, RankType DEF Calm
<1>37. Planned(J, A) = A \cup Coming(J)
  BY <1>36, CalmSets
<1>38. Continued(I, J, K, A)
  <2> SUFFICES ASSUME NEW m \in Planned(J, A) \ Starting(J)
               PROVE  /\ m \in Planned(I, A)
                      /\ \/ m \notin Starting(I)
                         \/ IF Parallel(m) THEN Kids(m) \subseteq K
                            ELSE Kids(m) # {} => Kids(m) \cap K # {}
    BY DEF Continued
  <2>1. m \in Planned(I, A)
    BY <1>14, <1>29, <1>35, <1>37
  <2>2. IF Parallel(n) THEN Kids(n) \subseteq K ELSE Kids(n) # {} => Kids(n) \cap K # {}
    BY <1>7 DEF K
  <2> QED
    BY <1>35, <2>1, <2>2
<1>39. \A b \in R, k \in K : parent[k] \notin Enters(b)
  <2> SUFFICES ASSUME NEW b \in R, n \in Enters(b) PROVE FALSE
    BY <1>12, <1>13
  <2> QED
    BY <1>5, <1>6 DEF Before, EntryOrder
<1>40. \A m : PointerSet(m, I, st) => PointerSet(m, J, st)
  BY <1>30 DEF PointerSet
\* What is entered next has nothing below it yet.
<1>41. ASSUME NEW k \in Kids(n) PROVE Kids(k) \cap Coming(J) = {}
  <2>1. k \in Node \ {Root} /\ parent[k] = n /\ k # n
    BY <1>2, <1>12, ParentIsAbove
  <2>2. ASSUME NEW j \in Kids(k), j \in Coming(I) PROVE FALSE
    <3>1. j \in Node \ {Root} /\ parent[j] = k
      BY DEF Kids
    <3>2. k \in Planned(I, A)
      BY <1>1, <2>2, <3>1 DEF Plan
    <3> QED
      BY <1>17, <3>2
  <2>3. ASSUME NEW j \in Kids(k), j \in K PROVE FALSE
    BY <1>12, <1>13, <2>1, <2>3 DEF Kids
  <2> QED
    BY <1>29, <2>2, <2>3
<1>42. ASSUME NEW d \in D
       PROVE  /\ SetFine(d, J) /\ EntryFine(d, J, st)
              /\ EntryDownFine(d, J, st) /\ EntryUpFine(d, J, st, A)
  <2>1. CASE d = X1
    <3>1. PointerSet(n, J, st)
      BY <1>2, <1>6, <1>40
    <3> QED
      BY <1>2, <1>25, <2>1, <3>1 DEF SetFine, EntryFine, EntryDownFine, EntryUpFine
  <2>2. CASE d = X2 /\ d0 # NoNode
    <3>1. d0 \in Soon(J)
      BY <1>8, <1>19, <1>22, <1>25, <2>2 DEF Soon
    <3> QED
      BY <1>2, <1>7, <1>8, <1>25, <2>2, <3>1 DEF SetFine, EntryFine, EntryDownFine, EntryUpFine
  <2>3. CASE d = X3 /\ d0 # NoNode
    <3>1. d0 \in Setting(J)
      BY <1>8, <1>19, <1>21, <2>3 DEF Setting
    <3>2. PointerSet(d0, J, st) /\ Kids(d0) \cap Coming(J) = {}
      BY <1>7, <1>41, <2>3, <3>1 DEF PointerSet
    <3> QED
      BY <1>8, <1>25, <2>3, <3>2 DEF SetFine, EntryFine, EntryDownFine, EntryUpFine
  <2>4. CASE d = X4 /\ Parallel(n)
    <3>1. \A k \in Kids(n) : PointerSet(k, J, st)
      BY <1>12, <2>4 DEF PointerSet
    <3> QED
      BY <1>9, <1>25, <1>41, <2>4, <3>1 DEF SetFine, EntryFine, EntryDownFine, EntryUpFine
  <2>5. CASE d = X5 /\ NextRegion(n) # NoNode
    <3>1. ASSUME NEW r \in Chain(NextRegion(n))
          PROVE  Kids(r) \cap Coming(J) = {} /\ PointerSet(r, J, st)
      <4>1. r \in Chain(n) /\ r # n
        BY <1>10, <2>5
      <4>2. Kids(r) \cap K = {}
        BY <1>12, <1>13, <4>1 DEF Kids
      <4> QED
        BY <1>2, <1>29, <1>40, <4>1, <4>2
    <3> QED
      BY <1>10, <1>25, <2>5, <3>1 DEF SetFine, EntryFine, EntryDownFine, EntryUpFine
  <2> QED
    BY <1>18, <2>1, <2>2, <2>3, <2>4, <2>5
<1>43. Fine(J, st, A)
  <2>1. Rank(c) >= 4 /\ \A d \in D : Rank(d) \in {4, 5}
    BY <1>3, <1>26
  <2> QED
    BY <1>4, <1>33, <1>34, <1>38, <1>39, <1>42, <2>1, EntryStep
<1>44. ASSUME NEW d \in D, NEW b \in R PROVE Before(d, b)
  <2>1. ASSUME NEW x \in K PROVE x \notin Enters(b) /\ x \notin Sets(b)
    <3>1. x \in Kids(n) /\ x \in Node
      BY <1>12, <1>13
    <3>2. x \notin Enters(b)
      BY <1>17, <3>1 DEF Coming
    <3>3. b.op # "entry_up"
      BY <1>4, RankTells
    <3>4. x \notin Sets(b)
      <4> SUFFICES ASSUME x \in Sets(b) PROVE FALSE
        OBVIOUS
      <4>1. b.op = "set_state" /\ x = b.value /\ x # NoNode
        BY <1>6, <3>1, <3>3 DEF Sets
      <4>2. SetFine(b, I)
        BY <1>1 DEF Each
      <4>3. x \in Soon(I)
        BY <4>1, <4>2 DEF SetFine
      <4> QED
        BY <1>17, <3>1, <4>3 DEF Soon, Coming
    <3> QED
      BY <3>2, <3>4
  <2>2. \A x \in Enters(d) : \/ x \in Enters(c)
                             \/ /\ x # Root /\ parent[x] \in Enters(c)
                                /\ x \notin Enters(b) /\ x \notin Sets(b)
    BY <1>5, <1>6, <1>12, <1>13, <1>26, <2>1
  <2>3. Rank(c) \in {4, 5} /\ Rank(d) \in Rank(c) .. 5
    BY <1>3, <1>26
  <2> QED
    BY <2>2, <2>3, InwardBefore
<1>45. /\ Planned(I, A) \subseteq Planned(J, A)
       /\ Leaving(I, A) \subseteq Leaving(J, A) /\ Coming(I) \subseteq Coming(J)
  <2>1. Leaving(I, A) = {}
    BY <1>14, CalmSets
  <2> QED
    BY <1>14, <1>29, <1>37, <2>1
<1>99. /\ Fine(J, st, A) /\ Planned(I, A) \subseteq Planned(J, A)
       /\ Leaving(I, A) \subseteq Leaving(J, A) /\ Coming(I) \subseteq Coming(J)
       /\ \A d \in D, b \in R : Before(d, b)
       /\ c.node \in Node /\ c.except = NoNode
       /\ \/ DefaultChild[c.node] = NoNode
          \/ DefaultChild[c.node] \in Kids(c.node) /\ ~Parallel(c.node)
  BY <1>2, <1>7, <1>8, <1>43, <1>44, <1>45 DEF n, d0
<1> QED
  BY <1>99 DEF Onward, PointsDown, NoException

--------------------------------------------------------------------------------
(* walk_entry_up *)

EntryUpCalls(n, a, b, f) ==
    When(n # Root /\ n # a, <<EntryUp(parent[n], a, n, f)>>)
 \o IF b = NoNode THEN <<EntryDown(n, NoNode)>>
    ELSE <<SetState(n, b)>>
      \o When(n # a \/ f, <<CallEntry(n)>>)
      \o When(Parallel(n), <<EntryDown(children[n], b)>>)

\* A branch is entered only in a node without regions.
EntryUpSet(n, a, b, f) ==
    (IF n # Root /\ n # a THEN {EntryUp(parent[n], a, n, f)} ELSE {})
    \cup IF b = NoNode THEN {EntryDown(n, NoNode)}
         ELSE {SetState(n, b)} \cup (IF n # a \/ f THEN {CallEntry(n)} ELSE {})

\* The calls that walk_entry_up makes, in their order.
LEMMA EntryUpMakes ==
    ASSUME NEW n \in Node, NEW a \in Upward[n], NEW f \in BOOLEAN, NEW b,
           b = NoNode => ~Region(n),
           b # NoNode => b \in Kids(n) /\ ~Parallel(n)
    PROVE  Makes(EntryUpCalls(n, a, b, f), EntryUpSet(n, a, b, f))
<1> DEFINE one == When(n # Root /\ n # a, <<EntryUp(parent[n], a, n, f)>>)
           three == When(n # a \/ f, <<CallEntry(n)>>)
           D1 == IF n # Root /\ n # a THEN {EntryUp(parent[n], a, n, f)} ELSE {}
           D2 == {SetState(n, b)}
           D3 == IF n # a \/ f THEN {CallEntry(n)} ELSE {}
           D4 == {EntryDown(n, NoNode)}
<1>1. n # Root /\ n # a =>
         /\ Rank(EntryUp(parent[n], a, n, f)) = 4
         /\ Enters(EntryUp(parent[n], a, n, f)) \subseteq Upward[parent[n]]
         /\ parent[n] \in Node /\ n \notin Upward[parent[n]]
         /\ \A x \in Upward[parent[n]] : x # n /\ parent[x] # n
  <2> SUFFICES ASSUME n # Root, n # a
               PROVE  /\ Rank(EntryUp(parent[n], a, n, f)) = 4
                      /\ Enters(EntryUp(parent[n], a, n, f)) \subseteq Upward[parent[n]]
                      /\ parent[n] \in Node /\ n \notin Upward[parent[n]]
                      /\ \A x \in Upward[parent[n]] : x # n /\ parent[x] # n
    OBVIOUS
  <2> DEFINE p == parent[n]
  <2>1. p \in Node /\ n \notin Upward[p]
    BY ParentIsAbove
  <2> HIDE DEF p
  <2>2. /\ Rank(EntryUp(p, a, n, f)) = 4
        /\ Enters(EntryUp(p, a, n, f)) = Between(p, a, f)
    BY <2>1, OfEntryUp
  <2> USE DEF p
  <2>3. ASSUME NEW x \in Upward[parent[n]] PROVE x # n /\ parent[x] # n
    <3>1. x \in Node /\ Upward[x] \subseteq Upward[parent[n]]
      BY <2>1, UpwardTransitive
    <3>2. x # Root => parent[x] \in Upward[x]
      BY <3>1, ParentIsAbove
    <3>3. x = Root => parent[x] = NoNode
      BY <3>1 DEF parent
    <3> QED
      BY <2>1, <3>1, <3>2, <3>3, RootIsNode
  <2> QED
    BY <2>1, <2>2, <2>3 DEF Between
<1>2. b = NoNode => \A d \in D4 : Rank(d) = 5 /\ Enters(d) = {n} /\ Sets(d) = {}
  <2>1. b = NoNode => Chain(n) = {n}
    BY ChainAlone
  <2> QED
    BY <2>1, OfEntryDown
<1>3. b # NoNode => b \in Node /\ \A d \in D2 : Rank(d) = 5 /\ Enters(d) = {} /\ Sets(d) = {b}
  <2>1. b # NoNode => b \in Node
    BY DEF Kids
  <2> QED
    BY <2>1, OfSet
<1>4. \A d \in D3 : Rank(d) = 5 /\ Enters(d) = {n} /\ Sets(d) = {}
  BY OfEntry
<1>5. b # NoNode /\ n # Root => b \notin Upward[parent[n]]
  <2> SUFFICES ASSUME b # NoNode, n # Root, b \in Upward[parent[n]] PROVE FALSE
    OBVIOUS
  <2>1. b \in Node \ {Root} /\ parent[b] = n
    BY DEF Kids
  <2>2. b \notin Upward[n]
    BY <2>1, ParentIsAbove
  <2> QED
    BY <2>2, UpwardStep
<1>6. Makes(one, D1)
  <2>1. (n # Root /\ n # a) \in BOOLEAN
    OBVIOUS
  <2> QED
    BY <2>1, MakesOne, MakesWhen
<1>7. Makes(three, D3)
  <2>1. (n # a \/ f) \in BOOLEAN
    OBVIOUS
  <2> QED
    BY <2>1, MakesOne, MakesWhen
<1>8. Makes(<<SetState(n, b)>>, D2) /\ Makes(<<EntryDown(n, NoNode)>>, D4)
  BY MakesOne
<1> HIDE DEF one, three, D2, D3, D4
<1>9. CASE b = NoNode
  <2>1. \A c \in D1, d \in D4 : Before(c, d)
    <3> TAKE c \in D1, d \in D4
    <3>1. Rank(d) = 5 /\ Rank(c) \in {4, 5}
      BY <1>1, <1>2, <1>9
    <3>2. EntryOrder(c, d)
      BY <1>1, <1>2, <1>9 DEF EntryOrder
    <3> QED
      BY <3>1, <3>2, InwardPair
  <2> HIDE DEF D1
  <2>2. Makes(one \o <<EntryDown(n, NoNode)>>, D1 \cup D4)
    BY <1>6, <1>8, <2>1, MakesJoin
  <2> QED
    BY <1>9, <2>2 DEF EntryUpCalls, EntryUpSet, one, D1, D4
<1>10. CASE b # NoNode
  <2>1. \A c \in D2, d \in D3 : Before(c, d)
    <3> TAKE c \in D2, d \in D3
    <3>1. Rank(d) = 5 /\ Rank(c) \in {4, 5} /\ EntryOrder(c, d)
      BY <1>3, <1>4, <1>10 DEF EntryOrder
    <3> QED
      BY <3>1, InwardPair
  <2>2. Makes(<<SetState(n, b)>> \o three, D2 \cup D3)
    BY <1>7, <1>8, <2>1, MakesJoin
  <2>3. \A c \in D1, d \in D2 \cup D3 : Before(c, d)
    <3> TAKE c \in D1, d \in D2 \cup D3
    <3>1. Rank(d) = 5 /\ Rank(c) \in {4, 5}
      BY <1>1, <1>3, <1>4, <1>10
    <3>2. EntryOrder(c, d)
      BY <1>1, <1>3, <1>4, <1>5, <1>10 DEF EntryOrder
    <3> QED
      BY <3>1, <3>2, InwardPair
  <2> HIDE DEF D1
  <2>4. Makes(one \o (<<SetState(n, b)>> \o three), D1 \cup (D2 \cup D3))
    BY <1>6, <2>2, <2>3, MakesJoin
  <2>5. EntryUpCalls(n, a, b, f) = one \o (<<SetState(n, b)>> \o three)
    <3>1. When(Parallel(n), <<EntryDown(children[n], b)>>) = <<>>
      BY <1>10 DEF When
    <3>2. (<<SetState(n, b)>> \o three) \o <<>> = <<SetState(n, b)>> \o three
      <4>1. <<SetState(n, b)>> \o three \in Seq(D2 \cup D3)
        BY <2>2 DEF Makes, IsList
      <4> QED
        BY <4>1
    <3>3. EntryUpCalls(n, a, b, f) = one \o ((<<SetState(n, b)>> \o three)
                                         \o When(Parallel(n), <<EntryDown(children[n], b)>>))
      BY <1>10 DEF EntryUpCalls, one, three
    <3> QED
      BY <3>1, <3>2, <3>3
  <2>6. EntryUpSet(n, a, b, f) = D1 \cup (D2 \cup D3)
    BY <1>10 DEF EntryUpSet, D1, D2, D3
  <2> QED
    BY <2>4, <2>5, <2>6
<1> QED
  BY <1>9, <1>10

\* A step of walk_entry_up keeps the invariant.
LEMMA EntryUpKeeps ==
    ASSUME NEW c, c.op = "entry_up", NEW R, NEW I, I = {c} \cup R,
           NEW st, NEW A, Fine(I, st, A), \A b \in R : Before(c, b),
           NEW D, D = EntryUpSet(c.node, c.ancestor, c.branch, c.flag), NEW J, J = D \cup R
    PROVE  Onward(I, J, D, R, st, A) /\ GoesUp(c)
<1> DEFINE n == c.node
           a == c.ancestor
           b == c.branch
           f == c.flag
           p == parent[n]
           X1 == EntryUp(p, a, n, f)
           X2 == EntryDown(n, NoNode)
           X3 == SetState(n, b)
           X4 == CallEntry(n)
<1>1. Nested(I, A) /\ Pointers(I, st, A) /\ Plan(I, A) /\ Each(I, st, A) /\ A \subseteq Node
  BY DEF Fine, Nested
<1>2. EntryUpFine(c, I, st, A) /\ c \in I
  BY <1>1 DEF Each
<1>3. /\ n \in Node /\ a \in Upward[n] /\ f \in BOOLEAN
      /\ f = TRUE => a = Root \/ /\ parent[a] \in Staying(I, A)
                                 /\ Parallel(parent[a]) \/ st[parent[a]] = a
      /\ f # TRUE => a \in Staying(I, A)
      /\ \A x \in Upward[n] \ {n} : a \in Upward[x] => ~Parallel(x)
      /\ b = NoNode => (n # a \/ f) /\ ~Region(n) /\ Kids(n) \cap Coming(I) = {}
      /\ b # NoNode => ~Parallel(n) /\ b \in Kids(n) /\ b \in Soon(I)
  BY <1>2 DEF EntryUpFine
<1>4. Rank(c) = 4
  BY DEF Rank
<1>5. \A g \in R : Rank(g) >= 5
  <2> TAKE g \in R
  <2>1. Rank(g) \in 1 .. 8 /\ 4 <= Rank(g) /\ (4 = Rank(g) => 4 \in {1, 5, 7, 8})
    BY <1>4, RankType DEF Before, RankOrder
  <2> QED
    BY <2>1
<1>6. n \in Upward[n] /\ NoNode \notin Node /\ a \in Node
  BY <1>3, UpwardStep, UpwardType, RootIsNode
<1>7. Enters(c) = Between(n, a, f)
  <2>1. Between(n, a, f) \subseteq Node
    BY <1>3, UpwardType DEF Between
  <2> QED
    BY <2>1 DEF Enters, Way
<1>8. Tops(c) = IF b = NoNode THEN {n} ELSE {}
  BY <1>3 DEF Tops
<1>9. Sets(c) = {b} \cap Node
  BY DEF Sets
<1>10. Calm(I) /\ Planned(I, A) = A \cup Coming(I) /\ Staying(I, A) = A
  <2>1. Calm(I)
    BY <1>4, <1>5, RankType DEF Calm
  <2> QED
    BY <2>1, CalmSets
<1>11. n # a => /\ p \in Node /\ a \in Upward[p] /\ Between(n, a, f) = {n} \cup Between(p, a, f)
                /\ n \in Node \ {Root} /\ p # n /\ p \in Upward[n] /\ Upward[p] \subseteq Upward[n]
                /\ n \notin Upward[p]
  <2> SUFFICES ASSUME n # a
               PROVE  /\ p \in Node /\ a \in Upward[p] /\ Between(n, a, f) = {n} \cup Between(p, a, f)
                      /\ n \in Node \ {Root} /\ p # n /\ p \in Upward[n]
                      /\ Upward[p] \subseteq Upward[n] /\ n \notin Upward[p]
    OBVIOUS
  <2>1. n \in Node \ {Root}
    BY <1>3, BetweenStep
  <2> QED
    BY <1>3, <2>1, BetweenStep, ParentIsAbove, UpwardTransitive
<1>12. n # a \/ f => n \in Between(n, a, f)
  BY <1>3, BetweenStep
<1>13. ~(n # a \/ f) => Between(n, a, f) = {}
  BY <1>3, BetweenStep
<1>14. n = a /\ f => Between(n, a, f) = {n}
  <2> SUFFICES ASSUME n = a, f, NEW x \in Between(n, a, f) PROVE x = n
    BY <1>12
  <2>1. x \in Upward[n] /\ n \in Upward[x] /\ x \in Node
    BY <1>3, UpwardType DEF Between
  <2> QED
    BY <1>3, <2>1, UpwardAntisymmetric
<1>15. b = NoNode => Chain(n) = {n}
  BY <1>3, ChainAlone
<1> HIDE DEF n, a, b, f, p
<1>16. \A d \in D : \/ d = X1 /\ n # a
                    \/ d = X2 /\ b = NoNode
                    \/ d = X3 /\ b # NoNode
                    \/ d = X4 /\ b # NoNode /\ (n # a \/ f)
  BY DEF EntryUpSet, n, a, b, f, p
<1>17. /\ n # a => X1 \in D
       /\ b = NoNode => X2 \in D
       /\ b # NoNode => X3 \in D
       /\ b # NoNode /\ (n # a \/ f) => X4 \in D
  BY <1>11 DEF EntryUpSet, n, a, b, f, p
<1>18. n # a => /\ Rank(X1) = 4 /\ Enters(X1) = Between(p, a, f) /\ Tops(X1) = {} /\ Sets(X1) = {n}
  <2> SUFFICES ASSUME n # a
               PROVE  /\ Rank(X1) = 4 /\ Enters(X1) = Between(p, a, f) /\ Tops(X1) = {}
                      /\ Sets(X1) = {n}
    OBVIOUS
  <2>1. n # NoNode
    BY <1>3, <1>6
  <2>2. /\ Rank(X1) = 4 /\ Enters(X1) = Between(p, a, f)
        /\ Tops(X1) = IF n = NoNode THEN {p} ELSE {}
        /\ Sets(X1) = {n} \ {NoNode}
    BY <1>3, <1>11, OfEntryUp
  <2> QED
    BY <2>1, <2>2
<1>19. b = NoNode => Rank(X2) = 5 /\ Enters(X2) = {n} /\ Tops(X2) = {n} /\ Sets(X2) = {}
  BY <1>3, <1>15, OfEntryDown
<1>20. b # NoNode => Rank(X3) = 5 /\ Enters(X3) = {} /\ Tops(X3) = {} /\ Sets(X3) = {b}
  <2>1. b # NoNode => b \in Node
    BY <1>3 DEF Kids
  <2> QED
    BY <1>3, <2>1, OfSet
<1>21. Rank(X4) = 5 /\ Enters(X4) = {n} /\ Tops(X4) = {} /\ Sets(X4) = {}
  BY <1>3, OfEntry
<1>22. /\ X1.op = "entry_up" /\ X1.node = p /\ X1.ancestor = a /\ X1.branch = n /\ X1.flag = f
       /\ X2.op = "entry_down" /\ X2.node = n /\ X2.except = NoNode
       /\ X3.op = "set_state" /\ X3.node = n /\ X3.value = b
       /\ X4.op = "entry" /\ X4.node = n
  BY DEF CallEntry, SetState, EntryDown, EntryUp
<1> HIDE DEF X1, X2, X3, X4
<1>23. ASSUME NEW d \in D PROVE Rank(d) \in {4, 5} /\ Enters(d) \subseteq Enters(c)
  BY <1>3, <1>7, <1>11, <1>12, <1>16, <1>18, <1>19, <1>20, <1>21
<1>24. ASSUME NEW m \in Enters(c) PROVE \E d \in D : m \in Enters(d)
  <2>1. CASE m = n
    BY <1>7, <1>13, <1>17, <1>19, <1>21, <2>1
  <2>2. CASE m # n
    BY <1>7, <1>11, <1>13, <1>14, <1>17, <1>18, <2>2
  <2> QED
    BY <2>1, <2>2
<1>25. Coming(J) = Coming(I)
  BY <1>23, <1>24 DEF Coming
<1>26. Setting(I) \subseteq Setting(J)
  <2> SUFFICES ASSUME NEW m \in Node, NEW e \in I, m \in Sets(e) PROVE \E d \in J : m \in Sets(d)
    BY DEF Setting
  <2>1. CASE e = c
    BY <1>6, <1>9, <1>17, <1>20, <2>1
  <2> QED
    BY <2>1
<1>27. Soon(I) \subseteq Soon(J)
  BY <1>22 DEF Soon
<1>28. n # a \/ f => n \in Soon(J)
  BY <1>3, <1>17, <1>19, <1>21, <1>22 DEF Soon
<1>29. Again(I) \subseteq Soon(J) \cup Again(J)
  <2> SUFFICES ASSUME NEW m \in Node, NEW e \in I, e.op = "entry_up", e.flag = TRUE, m = e.ancestor
               PROVE  m \in Soon(J) \cup Again(J)
    BY DEF Again
  <2>1. CASE e \in R
    BY <2>1 DEF Again
  <2>2. CASE e = c
    <3>1. m = a /\ f
      BY <2>2 DEF a, f
    <3>2. CASE n # a
      <4>1. X1 \in J /\ X1.op = "entry_up" /\ X1.flag = TRUE /\ X1.ancestor = m
        BY <1>3, <1>17, <1>22, <3>1, <3>2
      <4> QED
        BY <4>1 DEF Again
    <3>3. CASE n = a
      BY <1>28, <3>1, <3>3
    <3> QED
      BY <3>2, <3>3
  <2> QED
    BY <2>1, <2>2
\* Nothing besides.
<1>none. PICK K : K = {}
  OBVIOUS
<1>30. Grown(I, J, K)
  BY <1>none, <1>25, <1>26, <1>27, <1>29 DEF Grown
<1>31. Fresh(K, I, A)
  BY <1>none DEF Fresh
<1>32. Starting(I) \subseteq Starting(J)
  <2> SUFFICES ASSUME NEW m \in Node, NEW e \in I, m \in Tops(e) PROVE \E d \in J : m \in Tops(d)
    BY DEF Starting
  <2>1. CASE e = c
    BY <1>8, <1>17, <1>19, <2>1
  <2> QED
    BY <2>1
<1>33. Calm(J)
  BY <1>5, <1>23, RankType DEF Calm
<1>34. Planned(J, A) = A \cup Coming(J)
  BY <1>33, CalmSets
<1>35. Continued(I, J, K, A)
  BY <1>10, <1>25, <1>32, <1>34 DEF Continued
<1>36. \A m : PointerSet(m, I, st) => PointerSet(m, J, st)
  BY <1>26 DEF PointerSet
<1>37. Staying(J, A) = A
  BY <1>33, CalmSets
<1>38. n # a \/ f => PointerSet(n, J, st)
  <2>1. CASE n # a
    <3>1. n \in Setting(J)
      BY <1>3, <1>17, <1>18, <2>1 DEF Setting
    <3> QED
      BY <3>1 DEF PointerSet
  <2>2. CASE n = a /\ f
    BY <1>3, <2>2 DEF PointerSet
  <2> QED
    BY <2>1, <2>2
<1>39. ASSUME NEW d \in D
       PROVE  /\ SetFine(d, J) /\ EntryFine(d, J, st)
              /\ EntryDownFine(d, J, st) /\ EntryUpFine(d, J, st, A)
  <2>1. CASE d = X1 /\ n # a
    <3>1. /\ p \in Node /\ a \in Upward[p] /\ n \in Kids(p) /\ n # NoNode
      BY <1>3, <1>6, <1>11, <2>1 DEF Kids, p
    <3>2. \A x \in Upward[p] : a \in Upward[x] => ~Parallel(x)
      BY <1>3, <1>11, <2>1
    <3>3. ~Parallel(p)
      BY <1>3, <1>11, <2>1
    <3>4. n \in Soon(J)
      BY <1>28, <2>1
    <3>5. EntryUpFine(d, J, st, A)
      BY <1>3, <1>10, <1>22, <1>37, <2>1, <3>1, <3>2, <3>3, <3>4 DEF EntryUpFine
    <3> QED
      BY <1>22, <2>1, <3>5 DEF SetFine, EntryFine, EntryDownFine
  <2>2. CASE d = X2 /\ b = NoNode
    BY <1>3, <1>15, <1>22, <1>25, <1>38, <2>2 DEF SetFine, EntryFine, EntryDownFine, EntryUpFine
  <2>3. CASE d = X3 /\ b # NoNode
    BY <1>3, <1>22, <1>27, <2>3 DEF SetFine, EntryFine, EntryDownFine, EntryUpFine
  <2>4. CASE d = X4 /\ b # NoNode /\ (n # a \/ f)
    BY <1>3, <1>22, <1>38, <2>4 DEF SetFine, EntryFine, EntryDownFine, EntryUpFine
  <2> QED
    BY <1>16, <2>1, <2>2, <2>3, <2>4, Zenon
<1>40. Fine(J, st, A)
  <2>1. Rank(c) >= 4 /\ \A d \in D : Rank(d) \in {4, 5}
    BY <1>4, <1>23
  <2>2. \A g \in R, k \in K : parent[k] \notin Enters(g)
    BY <1>none
  <2>3. \A d \in D : /\ Rank(d) \in {4, 5} /\ SetFine(d, J) /\ EntryFine(d, J, st)
                     /\ EntryDownFine(d, J, st) /\ EntryUpFine(d, J, st, A)
    BY <1>39, <2>1
  <2> QED
    BY <1>5, <1>30, <1>31, <1>35, <2>1, <2>2, <2>3, EntryStep
<1>41. ASSUME NEW d \in D, NEW g \in R PROVE Before(d, g)
  <2>1. Rank(c) \in {4, 5} /\ Rank(d) \in Rank(c) .. 5
    BY <1>4, <1>23
  <2> QED
    BY <1>23, <2>1, InwardBefore
<1>42. /\ Planned(I, A) \subseteq Planned(J, A)
       /\ Leaving(I, A) \subseteq Leaving(J, A) /\ Coming(I) \subseteq Coming(J)
  <2>1. Leaving(I, A) = {}
    BY <1>10, CalmSets
  <2> QED
    BY <1>10, <1>25, <1>34, <2>1
<1>99. /\ Fine(J, st, A) /\ Planned(I, A) \subseteq Planned(J, A)
       /\ Leaving(I, A) \subseteq Leaving(J, A) /\ Coming(I) \subseteq Coming(J)
       /\ \A d \in D, g \in R : Before(d, g)
       /\ c.node \in Node /\ c.ancestor \in Upward[c.node] /\ c.flag \in BOOLEAN
       /\ c.branch = NoNode => ~Region(c.node)
       /\ c.branch # NoNode => c.branch \in Kids(c.node) /\ ~Parallel(c.node)
  BY <1>3, <1>40, <1>41, <1>42 DEF n, a, b, f
<1> QED
  BY <1>99 DEF Onward, GoesUp

--------------------------------------------------------------------------------
(* set_state *)

\* There is one way down at a time.
Single(I) == \A e, g \in I : e.op = "entry_up" /\ g.op = "entry_up" => e = g

\* set_state with NULL keeps the invariant.
LEMMA ClearKeeps ==
    ASSUME NEW c, c.op = "set_state", c.value = NoNode, NEW R, NEW I, I = {c} \cup R, Single(I),
           NEW st, NEW A, Fine(I, st, A), \A b \in R : Before(c, b),
           NEW su, su = [st EXCEPT ![c.node] = NoNode]
    PROVE  Fine(R, su, A) /\ SamePlan(I, R, A)
<1> DEFINE n == c.node
<1>1. Nested(I, A) /\ Pointers(I, st, A) /\ Plan(I, A) /\ Each(I, st, A) /\ A \subseteq Node
  BY DEF Fine, Nested
<1>2. /\ n \in Node
      /\ Kids(n) \cap A \subseteq Leaving(I, A)
      /\ \/ n \in Leaving(I, A)
         \/ \E e \in I : e.op = "entry_up" /\ e.flag # TRUE /\ e.ancestor = n
  BY <1>1 DEF Each, ClearFine
<1>3. NoNode \notin Node
  BY RootIsNode
<1>4. Rank(c) = 1 /\ Outward(c) /\ Exits(c) = {} /\ Clears(c) = {n}
  BY <1>2, <1>3 DEF Rank, Outward, Enters, Sets, Tops, Exits, Clears
<1>5. \A b \in R : /\ Rank(b) # 5 /\ n \notin Clears(b)
                   /\ \A y \in Exits(b) : parent[y] # n
  BY <1>4 DEF Before, RankOrder, ExitOrder
<1>6. Leaving(R, A) = Leaving(I, A)
  BY <1>4 DEF Leaving
<1>7. Coming(R) = Coming(I) /\ Starting(R) = Starting(I)
  BY <1>4 DEF Outward, Coming, Starting
<1>8. Setting(R) = Setting(I)
  BY <1>4 DEF Outward, Setting
<1>9. Soon(R) = Soon(I) /\ Again(R) = Again(I)
  BY DEF Soon, Again
<1>10. Staying(R, A) = Staying(I, A) /\ Planned(R, A) = Planned(I, A)
  BY <1>6, <1>7 DEF Staying, Planned
<1>11. Clearing(I) = Clearing(R) \cup {n} /\ n \notin Clearing(R)
  BY <1>2, <1>4, <1>5 DEF Clearing
<1>12. \A m \in Node : su[m] = IF m = n THEN NoNode ELSE st[m]
  BY <1>1, <1>2 DEF Pointers
<1> HIDE DEF n
\* What n led to has been left.
<1>13. Kids(n) \cap A = {}
  <2> SUFFICES ASSUME NEW k \in Kids(n) \cap A PROVE FALSE
    OBVIOUS
  <2>1. k \in Leaving(R, A) /\ parent[k] = n
    BY <1>2, <1>6 DEF Kids
  <2> QED
    BY <1>5, <2>1 DEF Leaving
<1>14. Pointers(R, su, A)
  <2>1. su \in [Node -> Node \cup {NoNode}]
    BY <1>1, <1>2 DEF Pointers, n
  <2>2. \A m \in Node : Parallel(m) => su[m] = NoNode
    BY <1>1, <1>12 DEF Pointers
  <2>3. \A m \in Node : su[m] # NoNode => su[m] \in Kids(m)
    BY <1>1, <1>12 DEF Pointers
  <2>4. \A m \in Node \ Clearing(R) : su[m] # NoNode => su[m] \in A \cup Soon(R) \cup Again(R)
    BY <1>1, <1>9, <1>11, <1>12 DEF Pointers
  <2>5. ASSUME NEW m \in A \ {Root}, ~Region(m) PROVE su[parent[m]] = m
    <3>1. m \in Node \ {Root} /\ parent[m] \in Node /\ parent[m] # n
      BY <1>1, <1>13, ParentIsAbove DEF Kids
    <3> QED
      BY <1>1, <1>12, <2>5, <3>1 DEF Pointers
  <2> QED
    BY <2>1, <2>2, <2>3, <2>4, <2>5 DEF Pointers
<1>15. Nested(R, A)
  BY <1>1, <1>10 DEF Nested
<1>16. Plan(R, A)
  BY <1>1, <1>7, <1>10 DEF Plan
<1>17. ASSUME NEW b \in R
       PROVE  /\ ExitWhole(b, A)
              /\ ExitFine(b, R, A) /\ ExitDownFine(b, R, A) /\ ExitUpFine(b, R, su, A)
              /\ ClearFine(b, R, A) /\ SetFine(b, R)
              /\ EntryFine(b, R, su) /\ EntryDownFine(b, R, su) /\ EntryUpFine(b, R, su, A)
              /\ ArriveFine(b, R, A) /\ EventFine(b, R, A)
  <2>1. /\ ExitWhole(b, A)
        /\ ExitFine(b, I, A) /\ ExitDownFine(b, I, A) /\ ExitUpFine(b, I, st, A)
        /\ ClearFine(b, I, A) /\ SetFine(b, I) /\ EntryUpFine(b, I, st, A)
        /\ ArriveFine(b, I, A) /\ EventFine(b, I, A)
    BY <1>1 DEF Each
  <2>2. ASSUME NEW m \in Exits(b), PointerCleared(m, I) PROVE PointerCleared(m, R)
    BY <1>5, <1>9, <1>11, <2>2 DEF PointerCleared
  <2>3. ExitFine(b, R, A)
    <3> SUFFICES ASSUME b.op = "exit"
                 PROVE  b.node \in Node /\ b.node \in A /\ PointerCleared(b.node, R)
      BY DEF ExitFine
    <3>1. b.node \in Node /\ b.node \in A /\ PointerCleared(b.node, I)
      BY <2>1 DEF ExitFine
    <3>2. b.node \in Exits(b)
      BY <3>1 DEF Exits
    <3> QED
      BY <2>2, <3>1, <3>2
  <2>4. ExitDownFine(b, R, A)
    <3> SUFFICES ASSUME b.op = "exit_down"
                 PROVE  /\ b.node \in Node
                        /\ \A r \in Chain(b.node) \ {b.except} : r \in A /\ PointerCleared(r, R)
      BY DEF ExitDownFine
    <3>1. b.node \in Node /\ \A r \in Chain(b.node) \ {b.except} : r \in A /\ PointerCleared(r, I)
      BY <2>1 DEF ExitDownFine
    <3>2. ASSUME NEW r \in Chain(b.node) \ {b.except} PROVE r \in Exits(b)
      <4>1. r \in Node /\ r \in Upward[r]
        BY <3>1, ChainType, UpwardStep
      <4> QED
        BY <4>1 DEF Exits
    <3> QED
      BY <2>2, <3>1, <3>2
  <2>5. ExitUpFine(b, R, su, A)
    <3>1. Return(b, I) => Return(b, R)
      BY DEF Return
    <3>2. b.op = "exit_up" /\ b.node \in Node /\ b.branch # NoNode => b.node # n
      BY <1>5 DEF Clears
    <3> QED
      BY <1>6, <1>12, <2>1, <3>1, <3>2 DEF ExitUpFine
  <2>6. ClearFine(b, R, A)
    <3>1. \A m : (\E e \in I : e.op = "entry_up" /\ e.flag # TRUE /\ e.ancestor = m)
                 => \E e \in R : e.op = "entry_up" /\ e.flag # TRUE /\ e.ancestor = m
      OBVIOUS
    <3> QED
      BY <1>6, <2>1, <3>1 DEF ClearFine
  <2>7. SetFine(b, R)
    BY <1>9, <2>1 DEF SetFine
  <2>8. EntryFine(b, R, su) /\ EntryDownFine(b, R, su)
    BY <1>5, RankTells DEF EntryFine, EntryDownFine
  <2>9. EntryUpFine(b, R, su, A)
    <3> SUFFICES ASSUME b.op = "entry_up", b.flag = TRUE, b.ancestor # Root,
                        st[parent[b.ancestor]] = b.ancestor, b.ancestor \in Node,
                        parent[b.ancestor] \in Staying(I, A)
                 PROVE  su[parent[b.ancestor]] = b.ancestor
      <4>1. b.op = "entry_up" => b.ancestor \in Node
        BY <2>1, UpwardType DEF EntryUpFine
      <4> QED
        BY <1>7, <1>9, <1>10, <2>1, <4>1 DEF EntryUpFine
    <3>1. parent[b.ancestor] # n
      <4> SUFFICES ASSUME parent[b.ancestor] = n PROVE FALSE
        OBVIOUS
      <4>1. n \notin Leaving(I, A)
        BY DEF Staying
      <4>2. PICK e \in I : e.op = "entry_up" /\ e.flag # TRUE
        BY <1>2, <4>1
      <4>3. b \in I
        OBVIOUS
      <4>4. e = b
        BY <4>2, <4>3 DEF Single
      <4> QED
        BY <4>2, <4>4
    <3>2. parent[b.ancestor] \in Node
      BY ParentIsAbove
    <3> QED
      BY <1>12, <3>1, <3>2
  <2>10. ArriveFine(b, R, A) /\ EventFine(b, R, A)
    BY <1>10, <2>1 DEF ArriveFine, EventFine
  <2> QED
    BY <2>1, <2>3, <2>4, <2>5, <2>6, <2>7, <2>8, <2>9, <2>10
<1>18. Each(R, su, A)
  BY <1>17 DEF Each
<1>99. Fine(R, su, A) /\ Planned(R, A) = Planned(I, A)
  BY <1>10, <1>14, <1>15, <1>16, <1>18 DEF Fine
<1> QED
  BY <1>99 DEF SamePlan

\* While calls wait that enter, nothing leaves and nothing is entered again.
LEMMA LateSets ==
    ASSUME NEW I, \A b \in I : Rank(b) >= 5, NEW A
    PROVE  /\ Calm(I) /\ Leaving(I, A) = {} /\ Staying(I, A) = A /\ Clearing(I) = {}
           /\ Again(I) = {} /\ Planned(I, A) = A \cup Coming(I)
<1>1. Calm(I)
  BY RankType DEF Calm
<1>2. \A b \in I : b.op # "entry_up"
  BY RankTells
<1>3. Again(I) = {}
  BY <1>2 DEF Again
<1> QED
  BY <1>1, <1>3, CalmSets

\* set_state with a sub-state keeps the invariant.
LEMMA SetKeeps ==
    ASSUME NEW c, c.op = "set_state", c.value # NoNode, NEW R, NEW I, I = {c} \cup R,
           NEW st, NEW A, Fine(I, st, A), \A b \in R : Before(c, b),
           NEW su, su = [st EXCEPT ![c.node] = c.value]
    PROVE  Fine(R, su, A) /\ SamePlan(I, R, A)
<1> DEFINE n == c.node
           v == c.value
<1>1. Nested(I, A) /\ Pointers(I, st, A) /\ Plan(I, A) /\ Each(I, st, A) /\ A \subseteq Node
  BY DEF Fine, Nested
<1>2. n \in Node /\ ~Parallel(n) /\ v \in Kids(n) /\ v \in Soon(I)
  BY <1>1 DEF Each, SetFine
<1>3. v \in Node \ {Root} /\ parent[v] = n /\ v # NoNode
  BY <1>2, RootIsNode DEF Kids
<1>4. Rank(c) = 5 /\ Enters(c) = {} /\ Tops(c) = {} /\ Sets(c) = {v}
  BY <1>3 DEF Rank, Enters, Tops, Sets
<1>5. \A b \in I : Rank(b) >= 5
  BY <1>4, RankType DEF Before, RankOrder
<1>6. /\ Leaving(I, A) = {} /\ Staying(I, A) = A /\ Clearing(I) = {}
      /\ Again(I) = {} /\ Planned(I, A) = A \cup Coming(I)
  BY <1>5, LateSets
<1>7. /\ Calm(R) /\ Leaving(R, A) = {} /\ Staying(R, A) = A /\ Clearing(R) = {}
      /\ Again(R) = {} /\ Planned(R, A) = A \cup Coming(R)
  BY <1>5, LateSets
<1>8. Coming(R) = Coming(I) /\ Starting(R) = Starting(I)
  BY <1>4 DEF Coming, Starting
<1>9. Setting(I) = Setting(R) \cup {v}
  BY <1>3, <1>4 DEF Setting
<1>10. Soon(R) = Soon(I)
  BY DEF Soon
<1>11. Soon(I) \subseteq Coming(I)
  BY DEF Soon, Coming
<1>12. \A m \in Node : su[m] = IF m = n THEN v ELSE st[m]
  BY <1>1, <1>2 DEF Pointers
<1> HIDE DEF n, v
\* v is the only one below n.
<1>13. ASSUME NEW m \in Kids(n) \cap Planned(I, A) PROVE m = v
  BY <1>1, <1>2, <1>6, <1>11 DEF Plan
<1>14. Pointers(R, su, A)
  <2>1. su \in [Node -> Node \cup {NoNode}]
    BY <1>1, <1>2, <1>3 DEF Pointers, n, v
  <2>2. \A m \in Node : Parallel(m) => su[m] = NoNode
    BY <1>1, <1>2, <1>12 DEF Pointers
  <2>3. \A m \in Node : su[m] # NoNode => su[m] \in Kids(m)
    BY <1>1, <1>2, <1>12 DEF Pointers
  <2>4. \A m \in Node \ Clearing(R) : su[m] # NoNode => su[m] \in A \cup Soon(R) \cup Again(R)
    BY <1>1, <1>2, <1>6, <1>10, <1>12 DEF Pointers
  <2>5. ASSUME NEW m \in A \ {Root}, ~Region(m) PROVE su[parent[m]] = m
    <3>1. m \in Node \ {Root} /\ parent[m] \in Node /\ st[parent[m]] = m
      BY <1>1, <2>5, ParentIsAbove DEF Pointers
    <3>2. parent[m] = n => m = v
      BY <1>6, <1>13, <3>1 DEF Kids
    <3> QED
      BY <1>12, <3>1, <3>2
  <2> QED
    BY <2>1, <2>2, <2>3, <2>4, <2>5 DEF Pointers
<1>15. Nested(R, A)
  BY <1>1, <1>6, <1>7 DEF Nested
<1>16. Plan(R, A)
  BY <1>1, <1>6, <1>7, <1>8 DEF Plan
<1>17. ASSUME NEW m \in Coming(I), PointerSet(m, I, st) PROVE PointerSet(m, R, su)
  <2>1. CASE m = Root \/ Parallel(parent[m])
    BY <2>1 DEF PointerSet
  <2>2. CASE m # Root /\ st[parent[m]] = m
    <3>1. m \in Node \ {Root} /\ parent[m] \in Node
      BY <2>2, ParentIsAbove DEF Coming
    <3>2. parent[m] = n => m = v
      BY <1>6, <1>13, <3>1 DEF Kids
    <3>3. su[parent[m]] = m
      BY <1>12, <2>2, <3>1, <3>2
    <3> QED
      BY <3>3 DEF PointerSet
  <2>3. CASE m \in Setting(I)
    <3>1. m = v => su[parent[m]] = m
      BY <1>2, <1>3, <1>12
    <3> QED
      BY <1>9, <2>3, <3>1 DEF PointerSet
  <2> QED
    BY <1>17, <2>1, <2>2, <2>3 DEF PointerSet
<1>18. ASSUME NEW b \in R
       PROVE  /\ SetFine(b, R)
              /\ EntryFine(b, R, su) /\ EntryDownFine(b, R, su) /\ EntryUpFine(b, R, su, A)
              /\ ArriveFine(b, R, A) /\ EventFine(b, R, A)
  <2>1. /\ SetFine(b, I) /\ EntryFine(b, I, st) /\ EntryDownFine(b, I, st)
        /\ ArriveFine(b, I, A) /\ EventFine(b, I, A)
    BY <1>1 DEF Each
  <2>2. SetFine(b, R)
    BY <1>10, <2>1 DEF SetFine
  <2>3. EntryFine(b, R, su)
    <3>1. b.op = "entry" /\ b.node \in Node => b.node \in Coming(I)
      BY DEF Coming, Enters
    <3> QED
      BY <1>17, <2>1, <3>1 DEF EntryFine
  <2>4. EntryDownFine(b, R, su)
    <3>1. ASSUME b.op = "entry_down", b.node \in Node, NEW r \in Chain(b.node) PROVE r \in Coming(I)
      <4>1. r \in Node
        BY <3>1, ChainType
      <4>2. r \in Enters(b)
        BY <3>1, <4>1 DEF Enters
      <4> QED
        BY <4>1, <4>2 DEF Coming
    <3> QED
      BY <1>8, <1>17, <2>1, <3>1 DEF EntryDownFine
  <2>5. EntryUpFine(b, R, su, A)
    BY <1>5, RankTells DEF EntryUpFine
  <2>6. ArriveFine(b, R, A) /\ EventFine(b, R, A)
    BY <1>6, <1>7, <1>8, <2>1 DEF ArriveFine, EventFine
  <2> QED
    BY <2>2, <2>3, <2>4, <2>5, <2>6
<1>19. ASSUME NEW b \in R
       PROVE  /\ ExitWhole(b, A) /\ ExitFine(b, R, A) /\ ExitDownFine(b, R, A)
              /\ ExitUpFine(b, R, su, A) /\ ClearFine(b, R, A)
  BY <1>7, NoExits DEF Calm
<1>20. Each(R, su, A)
  BY <1>18, <1>19 DEF Each
<1>99. Fine(R, su, A) /\ Planned(R, A) = Planned(I, A)
  BY <1>6, <1>7, <1>8, <1>14, <1>15, <1>16, <1>20 DEF Fine
<1> QED
  BY <1>99 DEF SamePlan

--------------------------------------------------------------------------------
(* vivid_call_node with "exit" and with "entry" *)

\* A call with exit keeps the invariant.
LEMMA CallExitKeeps ==
    ASSUME NEW c, c.op = "exit", NEW R, NEW I, I = {c} \cup R,
           NEW st, NEW A, Fine(I, st, A), \A b \in R : Before(c, b),
           NEW B, B = A \ {c.node}
    PROVE  Fine(R, st, B) /\ PlanStays(I, A, R, B) /\ c.node \in A
<1> DEFINE n == c.node
<1>1. Nested(I, A) /\ Pointers(I, st, A) /\ Plan(I, A) /\ Each(I, st, A) /\ A \subseteq Node
  BY DEF Fine, Nested
<1>2. n \in Node /\ n \in A /\ PointerCleared(n, I)
  BY <1>1 DEF Each, ExitFine
<1>3. Rank(c) = 1 /\ Outward(c) /\ Exits(c) = {n} /\ Clears(c) = {}
  BY <1>2 DEF Rank, Outward, Enters, Sets, Tops, Exits, Clears
<1>4. \A b \in R : n \notin Clears(b) /\ \A y \in Exits(b) : n \notin Upward[y]
  BY <1>3 DEF Before, ExitOrder
<1>5. \A b \in R : n \notin Exits(b)
  BY <1>2, <1>4, UpwardStep
<1> HIDE DEF n
<1>6. Leaving(I, A) = Leaving(R, B) \cup {n} /\ n \notin Leaving(R, B)
  BY <1>2, <1>3, <1>5 DEF Leaving, n
<1>7. Staying(R, B) = Staying(I, A)
  BY <1>6 DEF Staying, n
<1>8. Coming(R) = Coming(I) /\ Starting(R) = Starting(I)
  BY <1>3 DEF Outward, Coming, Starting
<1>9. Setting(R) = Setting(I) /\ Clearing(R) = Clearing(I)
  BY <1>3 DEF Outward, Setting, Clearing
<1>10. Soon(R) = Soon(I) /\ Again(R) = Again(I)
  BY DEF Soon, Again
<1>11. Planned(R, B) = Planned(I, A)
  BY <1>7, <1>8 DEF Planned
<1>12. B = A \ {n}
  BY DEF n
\* Everything below n has been left.
<1>13. ASSUME NEW k \in Kids(n) \cap A PROVE FALSE
  <2>1. k \in Node \ {Root} /\ parent[k] = n /\ n \in Upward[k]
    BY <1>2, ParentIsAbove DEF Kids
  <2>2. n \notin Staying(I, A)
    BY <1>6 DEF Staying
  <2>3. k \in Leaving(I, A)
    BY <1>1, <2>1, <2>2 DEF Nested, Staying
  <2>4. k # n
    BY <2>1, ParentIsAbove
  <2> QED
    BY <1>4, <1>6, <2>1, <2>3, <2>4 DEF Leaving
<1>14. Nested(R, B)
  <2>1. ASSUME NEW m \in B \ {Root} PROVE parent[m] \in B
    <3>1. m \in A \ {Root} /\ m \in Node /\ parent[m] \in A
      BY <1>1, <1>12 DEF Nested
    <3>2. parent[m] # n
      BY <1>13, <3>1 DEF Kids
    <3> QED
      BY <1>12, <3>1, <3>2
  <2> QED
    BY <1>1, <1>7, <1>12, <2>1 DEF Nested
<1>15. Pointers(R, st, B)
  <2>1. ASSUME NEW m \in Node \ Clearing(R), st[m] # NoNode
        PROVE  st[m] \in B \cup Soon(R) \cup Again(R)
    <3>1. st[m] \in A \cup Soon(I) \cup Again(I)
      BY <1>1, <1>9, <2>1 DEF Pointers
    <3>2. ASSUME st[m] = n PROVE n \in Again(I)
      <4>1. ~Parallel(m) /\ n \in Kids(m)
        BY <1>1, <2>1, <3>2 DEF Pointers
      <4>2. n # Root /\ parent[n] = m
        BY <4>1 DEF Kids
      <4> QED
        BY <1>2, <1>9, <2>1, <4>1, <4>2 DEF PointerCleared
    <3> QED
      BY <1>10, <1>12, <3>1, <3>2
  <2> QED
    BY <1>1, <1>12, <2>1 DEF Pointers
<1>16. Plan(R, B)
  BY <1>1, <1>7, <1>8, <1>11 DEF Plan
<1>17. \A m : PointerCleared(m, I) => PointerCleared(m, R)
  BY <1>9, <1>10 DEF PointerCleared
<1>18. ASSUME NEW b \in R
       PROVE  /\ ExitWhole(b, B)
              /\ ExitFine(b, R, B) /\ ExitDownFine(b, R, B) /\ ExitUpFine(b, R, st, B)
              /\ ClearFine(b, R, B) /\ SetFine(b, R)
              /\ EntryFine(b, R, st) /\ EntryDownFine(b, R, st) /\ EntryUpFine(b, R, st, B)
              /\ ArriveFine(b, R, B) /\ EventFine(b, R, B)
  <2>1. /\ ExitWhole(b, A)
        /\ ExitFine(b, I, A) /\ ExitDownFine(b, I, A) /\ ExitUpFine(b, I, st, A)
        /\ ClearFine(b, I, A) /\ SetFine(b, I)
        /\ EntryFine(b, I, st) /\ EntryDownFine(b, I, st) /\ EntryUpFine(b, I, st, A)
        /\ ArriveFine(b, I, A) /\ EventFine(b, I, A)
    BY <1>1 DEF Each
  <2>2. ExitWhole(b, B)
    BY <1>5, <1>12, <2>1 DEF ExitWhole
  <2>3. ExitFine(b, R, B)
    <3>1. b.op = "exit" /\ b.node \in Node => b.node \in Exits(b)
      BY DEF Exits
    <3> QED
      BY <1>5, <1>12, <1>17, <2>1, <3>1 DEF ExitFine
  <2>4. ExitDownFine(b, R, B)
    <3> SUFFICES ASSUME b.op = "exit_down"
                 PROVE  /\ b.node \in Node
                        /\ \A r \in Chain(b.node) \ {b.except} : r \in B /\ PointerCleared(r, R)
      BY DEF ExitDownFine
    <3>1. b.node \in Node /\ \A r \in Chain(b.node) \ {b.except} : r \in A /\ PointerCleared(r, I)
      BY <2>1 DEF ExitDownFine
    <3>2. ASSUME NEW r \in Chain(b.node) \ {b.except} PROVE r \in Exits(b)
      <4>1. r \in Node /\ r \in Upward[r]
        BY <3>1, ChainType, UpwardStep
      <4> QED
        BY <4>1 DEF Exits
    <3> QED
      BY <1>5, <1>12, <1>17, <3>1, <3>2
  <2>5. ExitUpFine(b, R, st, B)
    <3> SUFFICES ASSUME b.op = "exit_up" PROVE ExitUpFine(b, R, st, B)
      BY DEF ExitUpFine
    <3>1. Return(b, I) => Return(b, R)
      BY DEF Return
    <3>2. ASSUME b.node # b.ancestor \/ b.flag = TRUE PROVE b.node # n
      <4>1. b.node \in Node /\ b.ancestor \in Upward[b.node] /\ b.flag \in BOOLEAN
            /\ (b.branch # NoNode => b.branch \in Kids(b.node))
        BY <2>1 DEF ExitUpFine
      <4>2. b.branch \notin Upward[b.node]
        <5>1. NoNode \notin Upward[b.node]
          BY <4>1, UpwardType, RootIsNode
        <5>2. b.branch # NoNode => b.branch \in Node \ {Root} /\ parent[b.branch] = b.node
          BY <4>1 DEF Kids
        <5>3. b.branch # NoNode => b.branch \notin Upward[b.node]
          BY <5>2, ParentIsAbove
        <5> QED
          BY <5>1, <5>3
      <4>3. b.node \in Way(b) /\ b.node \in Upward[b.node]
        BY <3>2, <4>1, BetweenStep, UpwardStep DEF Way
      <4>4. b.node \in Exits(b)
        BY <4>1, <4>2, <4>3 DEF Exits
      <4> QED
        BY <1>5, <4>4
    <3>3. b.branch \in B => b.branch \in A /\ b.branch # n
      BY <1>12
    <3> QED
      BY <1>6, <1>12, <2>1, <3>1, <3>2, <3>3 DEF ExitUpFine
  <2>6. ClearFine(b, R, B)
    <3> SUFFICES ASSUME b.op = "set_state", b.value = NoNode PROVE ClearFine(b, R, B)
      BY DEF ClearFine
    <3>1. /\ b.node \in Node /\ Kids(b.node) \cap A \subseteq Leaving(I, A)
          /\ \/ b.node \in Leaving(I, A)
             \/ \E e \in I : e.op = "entry_up" /\ e.flag # TRUE /\ e.ancestor = b.node
      BY <2>1 DEF ClearFine
    <3>2. b.node # n
      BY <1>4, <3>1 DEF Clears
    <3>3. (\E e \in I : e.op = "entry_up" /\ e.flag # TRUE /\ e.ancestor = b.node)
          => \E e \in R : e.op = "entry_up" /\ e.flag # TRUE /\ e.ancestor = b.node
      OBVIOUS
    <3> QED
      BY <1>6, <1>12, <3>1, <3>2, <3>3 DEF ClearFine
  <2>7. SetFine(b, R)
    BY <1>10, <2>1 DEF SetFine
  <2>8. EntryFine(b, R, st) /\ EntryDownFine(b, R, st)
    BY <1>8, <1>9, <2>1 DEF EntryFine, EntryDownFine, PointerSet
  <2>9. EntryUpFine(b, R, st, B)
    BY <1>7, <1>8, <1>10, <2>1 DEF EntryUpFine
  <2>10. ArriveFine(b, R, B) /\ EventFine(b, R, B)
    BY <1>7, <1>11, <2>1 DEF ArriveFine, EventFine
  <2> QED
    BY <2>2, <2>3, <2>4, <2>5, <2>6, <2>7, <2>8, <2>9, <2>10
<1>19. Each(R, st, B)
  BY <1>18 DEF Each
<1>99. Fine(R, st, B) /\ Planned(R, B) = Planned(I, A) /\ c.node \in A
  BY <1>2, <1>11, <1>14, <1>15, <1>16, <1>19 DEF Fine, n
<1> QED
  BY <1>99 DEF PlanStays

\* A call with entry keeps the invariant.
LEMMA CallEntryKeeps ==
    ASSUME NEW c, c.op = "entry", NEW R, NEW I, I = {c} \cup R,
           NEW st, NEW A, Fine(I, st, A), \A b \in R : Before(c, b),
           NEW B, B = A \cup {c.node}
    PROVE  Fine(R, st, B) /\ PlanStays(I, A, R, B) /\ MayEnter(c.node, A)
<1> DEFINE n == c.node
<1>1. Nested(I, A) /\ Pointers(I, st, A) /\ Plan(I, A) /\ Each(I, st, A) /\ A \subseteq Node
  BY DEF Fine, Nested
<1>2. n \in Node /\ PointerSet(n, I, st)
  BY <1>1 DEF Each, EntryFine
<1>3. Rank(c) = 5 /\ Enters(c) = {n} /\ Tops(c) = {} /\ Sets(c) = {}
  BY <1>2 DEF Rank, Enters, Tops, Sets
<1>4. \A b \in I : Rank(b) >= 5
  BY <1>3, RankType DEF Before, RankOrder
<1>5. /\ Leaving(I, A) = {} /\ Staying(I, A) = A /\ Clearing(I) = {}
      /\ Again(I) = {} /\ Planned(I, A) = A \cup Coming(I)
  BY <1>4, LateSets
<1>6. /\ Calm(R) /\ Leaving(R, B) = {} /\ Staying(R, B) = B /\ Clearing(R) = {}
      /\ Again(R) = {} /\ Planned(R, B) = B \cup Coming(R)
  BY <1>4, LateSets
<1>7. \A b \in R : n \notin Enters(b) /\ parent[n] \notin Enters(b) /\ n \notin Sets(b)
  BY <1>3 DEF Before, EntryOrder
<1> HIDE DEF n
<1>8. Coming(I) = Coming(R) \cup {n} /\ n \notin Coming(R)
  BY <1>2, <1>3, <1>7 DEF Coming
<1>9. Starting(R) = Starting(I) /\ Setting(R) = Setting(I)
  BY <1>3 DEF Starting, Setting
<1>10. Soon(I) = Soon(R) \cup {n}
  BY <1>2, <1>3 DEF Soon
<1>11. B = A \cup {n}
  BY DEF n
<1>12. Planned(R, B) = Planned(I, A)
  BY <1>5, <1>6, <1>8, <1>11
<1>13. n \notin A
  BY <1>1, <1>5, <1>8 DEF Plan
\* What is around n has been entered.
<1>14. n = Root \/ parent[n] \in A
  <2> SUFFICES ASSUME n # Root, parent[n] \notin A PROVE FALSE
    OBVIOUS
  <2>1. parent[n] \in Coming(I)
    BY <1>1, <1>5, <1>8 DEF Plan
  <2>2. parent[n] # n
    BY <1>2, ParentIsAbove
  <2> QED
    BY <1>7, <1>8, <2>1, <2>2 DEF Coming
<1>15. Nested(R, B)
  BY <1>1, <1>2, <1>6, <1>11, <1>14 DEF Nested
<1>16. Pointers(R, st, B)
  <2>1. \A m \in Node \ Clearing(R) : st[m] # NoNode => st[m] \in B \cup Soon(R) \cup Again(R)
    BY <1>1, <1>5, <1>6, <1>10, <1>11 DEF Pointers
  <2>2. ASSUME NEW m \in B \ {Root}, ~Region(m) PROVE st[parent[m]] = m
    <3>1. CASE m \in A
      BY <1>1, <2>2, <3>1 DEF Pointers
    <3>2. CASE m = n
      <4>1. n \notin Setting(I)
        BY <1>7, <1>9 DEF Setting
      <4> QED
        BY <1>2, <2>2, <3>2, <4>1 DEF PointerSet, Region
    <3> QED
      BY <1>11, <3>1, <3>2
  <2> QED
    BY <1>1, <2>1, <2>2 DEF Pointers
<1>17. Plan(R, B)
  <2>1. Coming(R) \cap Staying(R, B) = {}
    <3>1. Coming(I) \cap A = {}
      BY <1>1, <1>5 DEF Plan
    <3> QED
      BY <1>6, <1>8, <1>11, <3>1
  <2>2. \A m \in Coming(R) \ {Root} : parent[m] \in Planned(R, B)
    BY <1>1, <1>8, <1>12 DEF Plan
  <2> QED
    BY <1>1, <1>9, <1>12, <2>1, <2>2 DEF Plan
<1>18. ASSUME NEW b \in R
       PROVE  /\ SetFine(b, R)
              /\ EntryFine(b, R, st) /\ EntryDownFine(b, R, st) /\ EntryUpFine(b, R, st, B)
              /\ ArriveFine(b, R, B) /\ EventFine(b, R, B)
  <2>1. /\ SetFine(b, I) /\ EntryFine(b, I, st) /\ EntryDownFine(b, I, st)
        /\ ArriveFine(b, I, A) /\ EventFine(b, I, A)
    BY <1>1 DEF Each
  <2>2. SetFine(b, R)
    <3>1. b.op = "set_state" /\ b.value \in Node => b.value \in Sets(b)
      BY DEF Sets
    <3>2. Soon(I) \subseteq Node
      BY DEF Soon
    <3> QED
      BY <1>7, <1>10, <2>1, <3>1, <3>2 DEF SetFine
  <2>3. EntryFine(b, R, st) /\ EntryDownFine(b, R, st)
    BY <1>8, <1>9, <2>1 DEF EntryFine, EntryDownFine, PointerSet
  <2>4. EntryUpFine(b, R, st, B)
    BY <1>4, RankTells DEF EntryUpFine
  <2>5. ArriveFine(b, R, B) /\ EventFine(b, R, B)
    BY <1>5, <1>6, <1>11, <1>12, <2>1 DEF ArriveFine, EventFine
  <2> QED
    BY <2>2, <2>3, <2>4, <2>5
<1>19. ASSUME NEW b \in R
       PROVE  /\ ExitWhole(b, B) /\ ExitFine(b, R, B) /\ ExitDownFine(b, R, B)
              /\ ExitUpFine(b, R, st, B) /\ ClearFine(b, R, B)
  BY <1>6, NoExits DEF Calm
<1>20. Each(R, st, B)
  BY <1>18, <1>19 DEF Each
<1>99. /\ Fine(R, st, B) /\ Planned(R, B) = Planned(I, A)
       /\ c.node \in Node /\ c.node \notin A /\ (c.node = Root \/ parent[c.node] \in A)
  BY <1>2, <1>12, <1>13, <1>14, <1>15, <1>16, <1>17, <1>20 DEF Fine, n
<1> QED
  BY <1>99 DEF PlanStays, MayEnter

--------------------------------------------------------------------------------
(* Calls that neither leave nor enter *)

\* A call that comes last has nothing to wait for but other walks.
LEMMA LastBefore ==
    ASSUME NEW a, NEW b, Rank(b) \in {7, 8}, Rank(a) <= Rank(b), WalkOrder(a, b)
    PROVE  Before(a, b)
<1>1. /\ Exits(b) = {} /\ Clears(b) = {} /\ Enters(b) = {} /\ Sets(b) = {}
      /\ b.op # "arrive" /\ b.op # "entry_up"
  BY RankTells
<1>2. ExitOrder(a, b) /\ EntryOrder(a, b) /\ MoveOrder(a, b)
  BY <1>1 DEF ExitOrder, EntryOrder, MoveOrder
<1>3. RankOrder(a, b)
  BY <1>1 DEF RankOrder
<1> QED
  BY <1>2, <1>3 DEF Before

\* Nothing is left or entered any more.
LEMMA DoneSets ==
    ASSUME NEW I, \A b \in I : Rank(b) >= 6, NEW A
    PROVE  /\ Leaving(I, A) = {} /\ Staying(I, A) = A /\ Clearing(I) = {} /\ Again(I) = {}
           /\ Coming(I) = {} /\ Starting(I) = {} /\ Soon(I) = {} /\ Planned(I, A) = A
<1>1. \A b \in I : Rank(b) >= 5 /\ Enters(b) = {} /\ Tops(b) = {}
  BY RankType, RankTells
<1>2. Coming(I) = {} /\ Starting(I) = {} /\ Soon(I) = {}
  BY <1>1 DEF Coming, Starting, Soon
<1>3. \A b \in I : Rank(b) >= 5
  BY <1>1
<1>4. /\ Leaving(I, A) = {} /\ Staying(I, A) = A /\ Clearing(I) = {} /\ Again(I) = {}
      /\ Planned(I, A) = A \cup Coming(I)
  BY <1>3, LateSets, Zenon
<1> QED
  BY <1>2, <1>4

\* The call c and the calls D that it makes.
Quiet(c, D, I, A) ==
    Rank(c) \in {3, 6, 7, 8} /\ \A d \in D : Rank(d) \in {7, 8} /\ EventFine(d, I, A)

\* A step that neither leaves nor enters keeps the invariant.
LEMMA QuietStep ==
    ASSUME NEW c, NEW D, NEW R, NEW I, I = {c} \cup R, NEW J, J = D \cup R, NEW st, NEW A,
           Fine(I, st, A), Quiet(c, D, I, A)
    PROVE  Fine(J, st, A) /\ SamePlan(I, J, A)
<1> USE DEF Quiet
<1>1. Exits(c) = {} /\ Clears(c) = {} /\ Enters(c) = {} /\ Sets(c) = {} /\ Tops(c) = {}
  BY RankTells
<1>2. \A d \in D : Exits(d) = {} /\ Clears(d) = {} /\ Enters(d) = {} /\ Sets(d) = {} /\ Tops(d) = {}
  BY RankTells
<1>3. c.op \notin {"entry", "entry_down", "entry_up"}
      /\ \A d \in D : d.op \notin {"entry", "entry_down", "entry_up", "arrive", "set_state"}
  <2>1. c.op \notin {"entry", "entry_down", "entry_up"}
        /\ \A d \in D : d.op \notin {"entry", "entry_down", "entry_up", "arrive"}
    BY RankTells
  <2>2. \A d \in D : d.op # "set_state"
    BY DEF Rank
  <2> QED
    BY <2>1, <2>2
<1>4. Leaving(J, A) = Leaving(I, A)
  BY <1>1, <1>2 DEF Leaving
<1>5. Coming(J) = Coming(I) /\ Starting(J) = Starting(I)
  BY <1>1, <1>2 DEF Coming, Starting
<1>6. Setting(J) = Setting(I) /\ Clearing(J) = Clearing(I)
  BY <1>1, <1>2 DEF Setting, Clearing
<1>7. Soon(J) = Soon(I) /\ Again(J) = Again(I)
  BY <1>3 DEF Soon, Again
<1>8. \A e : e.op = "entry_up" => (e \in J <=> e \in I)
  BY <1>3
<1>9. Staying(J, A) = Staying(I, A) /\ Planned(J, A) = Planned(I, A)
  BY <1>4, <1>5 DEF Staying, Planned
<1>10. Unmoved(I, J, A)
  BY <1>4, <1>5, <1>6, <1>7, <1>8, <1>9 DEF Unmoved
<1>11. Nested(I, A) /\ Pointers(I, st, A) /\ Plan(I, A) /\ Each(I, st, A)
  BY DEF Fine
<1>12. Nested(J, A)
  BY <1>9, <1>11 DEF Nested
<1>13. Pointers(J, st, A)
  BY <1>6, <1>7, <1>11 DEF Pointers
<1>14. Plan(J, A)
  BY <1>5, <1>9, <1>11 DEF Plan
<1>15. ASSUME NEW d \in J
       PROVE  /\ ExitWhole(d, A)
              /\ ExitFine(d, J, A) /\ ExitDownFine(d, J, A) /\ ExitUpFine(d, J, st, A)
              /\ ClearFine(d, J, A) /\ SetFine(d, J)
              /\ EntryFine(d, J, st) /\ EntryDownFine(d, J, st) /\ EntryUpFine(d, J, st, A)
              /\ ArriveFine(d, J, A) /\ EventFine(d, J, A)
  <2>1. CASE d \in R
    BY <1>10, <1>11, <2>1, ExitOthers
  <2>2. CASE d \in D
    <3>1. Rank(d) >= 4
      BY <2>2
    <3>2. /\ ExitWhole(d, A) /\ ExitFine(d, J, A) /\ ExitDownFine(d, J, A)
          /\ ExitUpFine(d, J, st, A) /\ ClearFine(d, J, A)
      BY <3>1, NoExits
    <3>3. /\ SetFine(d, J) /\ EntryFine(d, J, st) /\ EntryDownFine(d, J, st)
          /\ EntryUpFine(d, J, st, A) /\ ArriveFine(d, J, A)
      BY <1>3, <2>2 DEF SetFine, EntryFine, EntryDownFine, EntryUpFine, ArriveFine
    <3>4. EventFine(d, J, A)
      BY <1>9, <2>2 DEF EventFine
    <3> QED
      BY <3>2, <3>3, <3>4
  <2> QED
    BY <2>1, <2>2
<1>16. Each(J, st, A)
  BY <1>15 DEF Each
<1> QED
  BY <1>9, <1>12, <1>13, <1>14, <1>16 DEF Fine, SamePlan

--------------------------------------------------------------------------------
(* walk_event *)

OthersSet(n, e, last) ==
    (IF Parallel(n) THEN {WalkEvent(children[n], e, last)} ELSE {})
    \cup (IF NextRegion(n) # NoNode THEN {WalkEvent(NextRegion(n), e, last)} ELSE {})
    \cup {WalkState(n, e, last)}

\* What a call of walk_event does: nothing yet.
LEMMA OfWalk ==
    ASSUME NEW n, NEW e, NEW last
    PROVE  /\ Rank(WalkEvent(n, e, last)) = 7 /\ WalkEvent(n, e, last).op = "event"
           /\ WalkEvent(n, e, last).node = n
           /\ Rank(WalkState(n, e, last)) = 7 /\ WalkState(n, e, last).op = "descend"
           /\ WalkState(n, e, last).node = n
  BY DEF Rank, WalkEvent, WalkState

\* The calls that walk_event makes when the event goes on.
LEMMA OthersMakes ==
    ASSUME NEW n \in Node, NEW e, NEW last
    PROVE  Makes(Others(n, e, last), OthersSet(n, e, last))
<1> DEFINE X1 == WalkEvent(children[n], e, last)
           X2 == WalkEvent(NextRegion(n), e, last)
           X3 == WalkState(n, e, last)
           one == When(Parallel(n), <<X1>>)
           two == When(NextRegion(n) # NoNode, <<X2>>)
           D1 == IF Parallel(n) THEN {X1} ELSE {}
           D2 == IF NextRegion(n) # NoNode THEN {X2} ELSE {}
           D3 == {X3}
<1>1. /\ Rank(X1) = 7 /\ X1.op = "event" /\ X1.node = children[n]
      /\ Rank(X2) = 7 /\ X2.op = "event" /\ X2.node = NextRegion(n)
      /\ Rank(X3) = 7 /\ X3.op = "descend"
  BY OfWalk
<1>2. Makes(one, D1) /\ Makes(two, D2) /\ Makes(<<X3>>, D3)
  <2>1. Parallel(n) \in BOOLEAN
    BY DEF Parallel
  <2> HIDE DEF X1, X2, X3
  <2> QED
    BY <2>1, MakesOne, MakesWhen
<1> HIDE DEF X1, X2, X3
<1>3. ASSUME NEW a \in D1, NEW b \in D2 PROVE Before(a, b)
  <2>1. a = X1 /\ b = X2 /\ Parallel(n) /\ NextRegion(n) # NoNode
    OBVIOUS
  <2>2. Region(n) /\ children[n] \in Kids(n)
    BY <2>1, NextRegionIs, ChainOfAll
  <2>3. children[n] \in Node \ {Root} /\ parent[children[n]] = n
    BY <2>2 DEF Kids
  <2>4. n \in Upward[children[n]] /\ children[n] # n
    BY <2>3, ParentIsAbove
  <2>5. WalkOrder(X1, X2)
    BY <1>1, <2>1, <2>2, <2>4 DEF WalkOrder
  <2> QED
    BY <1>1, <2>1, <2>5, LastBefore
<1>4. \A a \in D1 \cup D2, b \in D3 : Before(a, b)
  <2> TAKE a \in D1 \cup D2, b \in D3
  <2>1. Rank(a) = 7 /\ Rank(b) = 7 /\ b.op = "descend"
    BY <1>1
  <2>2. WalkOrder(a, b)
    BY <2>1 DEF WalkOrder
  <2> QED
    BY <2>1, <2>2, LastBefore
<1> HIDE DEF one, two, D1, D2, D3
<1>5. Makes(one \o two, D1 \cup D2)
  BY <1>2, <1>3, MakesJoin
<1>6. Makes(one \o two \o <<X3>>, D1 \cup D2 \cup D3)
  BY <1>2, <1>4, <1>5, MakesJoin
<1> QED
  BY <1>6 DEF Others, OthersSet, one, two, D1, D2, D3, X1, X2, X3

\* A walk that goes on inside of n, or beside n, waits for no other walks.
LEMMA WalkGoesOn ==
    ASSUME NEW c, c.op \in {"event", "descend"}, c.node \in Node, NEW b, Before(c, b),
           NEW d, Rank(d) = 7,
           \A r \in Upward[c.node] \ {c.node} : r \in Upward[d.node] /\ r # d.node
    PROVE  Before(d, b)
<1>1. Rank(c) = 7 /\ Rank(b) \in 1 .. 8 /\ Rank(b) >= 7
  BY RankType DEF Before, RankOrder, Rank
<1>2. WalkOrder(d, b)
  BY DEF Before, WalkOrder
<1> QED
  BY <1>1, <1>2, LastBefore

\* An event that goes on keeps the invariant.
LEMMA PassOnKeeps ==
    ASSUME NEW c, c.op = "event", NEW R, NEW I, I = {c} \cup R,
           NEW st, NEW A, Fine(I, st, A), \A b \in R : Before(c, b),
           NEW D, D = OthersSet(c.node, c.event, c.last), NEW J, J = D \cup R
    PROVE  Onward(I, J, D, R, st, A) /\ c.node \in Node
<1> DEFINE n == c.node
<1>1. Nested(I, A) /\ Pointers(I, st, A) /\ Plan(I, A) /\ Each(I, st, A) /\ A \subseteq Node
  BY DEF Fine, Nested
<1>2. Rank(c) = 7
  BY DEF Rank
<1>3. \A b \in I : Rank(b) >= 6
  BY <1>2, RankType DEF Before, RankOrder
<1>4. Staying(I, A) = A /\ Starting(I) = {} /\ Planned(I, A) = A
  BY <1>3, DoneSets
<1>5. n \in Node /\ n \in A
  BY <1>1, <1>4 DEF Each, EventFine
<1>6. Parallel(n) => children[n] \in A /\ children[n] \in Kids(n)
  <2>1. Parallel(n) => Kids(n) \subseteq A
    BY <1>1, <1>4, <1>5 DEF Plan
  <2> QED
    BY <1>5, <2>1, ChainOfAll
<1>7. NextRegion(n) # NoNode =>
         /\ NextRegion(n) \in A /\ NextRegion(n) \in Kids(parent[n]) /\ n \in Node \ {Root}
         /\ parent[n] \in Node
  <2> SUFFICES ASSUME NextRegion(n) # NoNode
               PROVE  /\ NextRegion(n) \in A /\ NextRegion(n) \in Kids(parent[n])
                      /\ n \in Node \ {Root} /\ parent[n] \in Node
    OBVIOUS
  <2>1. /\ Region(n) /\ n \in Kids(parent[n]) /\ parent[n] \in Node
        /\ NextRegion(n) \in Kids(parent[n])
    BY <1>5, NextRegionIs
  <2>2. n \in Node \ {Root} /\ Parallel(parent[n])
    BY <2>1 DEF Region, Kids
  <2>3. parent[n] \in A
    BY <1>1, <1>5, <2>2 DEF Nested
  <2>4. Kids(parent[n]) \subseteq A
    BY <1>1, <1>4, <2>2, <2>3 DEF Plan
  <2> QED
    BY <2>1, <2>2, <2>4
<1> HIDE DEF n
<1>8. ASSUME NEW d \in D
      PROVE  /\ Rank(d) = 7 /\ EventFine(d, I, A)
             /\ \A r \in Upward[n] \ {n} : r \in Upward[d.node] /\ r # d.node
  <2>1. CASE d = WalkEvent(children[n], c.event, c.last) /\ Parallel(n)
    <3>1. d.op = "event" /\ d.node = children[n] /\ Rank(d) = 7
      BY <2>1, OfWalk
    <3>2. children[n] \in Node \ {Root} /\ parent[children[n]] = n
      BY <1>6, <2>1 DEF Kids
    <3>3. Upward[children[n]] = {children[n]} \cup Upward[n] /\ children[n] \notin Upward[n]
      BY <3>2, UpwardStep, ParentIsAbove
    <3> QED
      BY <1>4, <1>6, <2>1, <3>1, <3>2, <3>3 DEF EventFine
  <2>2. CASE d = WalkEvent(NextRegion(n), c.event, c.last) /\ NextRegion(n) # NoNode
    <3>1. d.op = "event" /\ d.node = NextRegion(n) /\ Rank(d) = 7
      BY <2>2, OfWalk
    <3>2. NextRegion(n) \in Node \ {Root} /\ parent[NextRegion(n)] = parent[n]
      BY <1>7, <2>2 DEF Kids
    <3>3. /\ Upward[n] = {n} \cup Upward[parent[n]]
          /\ Upward[NextRegion(n)] = {NextRegion(n)} \cup Upward[parent[n]]
          /\ NextRegion(n) \notin Upward[parent[n]]
      BY <1>7, <2>2, <3>2, UpwardStep, ParentIsAbove
    <3> QED
      BY <1>4, <1>7, <2>2, <3>1, <3>2, <3>3 DEF EventFine
  <2>3. CASE d = WalkState(n, c.event, c.last)
    <3>1. d.op = "descend" /\ d.node = n /\ Rank(d) = 7
      BY <2>3, OfWalk
    <3> QED
      BY <1>5, <3>1 DEF EventFine
  <2> QED
    BY <2>1, <2>2, <2>3 DEF OthersSet, n
<1>9. Fine(J, st, A) /\ Planned(J, A) = Planned(I, A)
  <2>1. \A d \in D : Rank(d) \in {7, 8} /\ EventFine(d, I, A)
    BY <1>8
  <2>2. Rank(c) \in {3, 6, 7, 8}
    BY <1>2
  <2>3. Quiet(c, D, I, A)
    BY <2>1, <2>2 DEF Quiet
  <2>4. Fine(J, st, A) /\ SamePlan(I, J, A)
    BY <2>3, QuietStep, Zenon
  <2> QED
    BY <2>4 DEF SamePlan
<1>10. ASSUME NEW d \in D, NEW b \in R PROVE Before(d, b)
  <2>1. \A r \in Upward[c.node] \ {c.node} : r \in Upward[d.node] /\ r # d.node
    BY <1>8 DEF n
  <2> QED
    BY <1>5, <1>8, <2>1, WalkGoesOn DEF n
<1>11. Leaving(I, A) = {} /\ Coming(I) = {}
  BY <1>3, DoneSets
<1>99. /\ Fine(J, st, A) /\ Planned(J, A) = Planned(I, A)
       /\ Leaving(I, A) \subseteq Leaving(J, A) /\ Coming(I) \subseteq Coming(J)
       /\ \A d \in D, b \in R : Before(d, b)
       /\ c.node \in Node
  BY <1>5, <1>9, <1>10, <1>11 DEF n
<1> QED
  BY <1>99 DEF Onward

DescendSet(n, s, e, last) == IF s # NoNode THEN {WalkEvent(s, e, last)} ELSE {}

\* An event that goes to the current sub-state keeps the invariant.
LEMMA DescendKeeps ==
    ASSUME NEW c, c.op = "descend", NEW R, NEW I, I = {c} \cup R,
           NEW st, NEW A, Fine(I, st, A), \A b \in R : Before(c, b),
           NEW D, D = DescendSet(c.node, st[c.node], c.event, c.last), NEW J, J = D \cup R
    PROVE  Onward(I, J, D, R, st, A)
<1> DEFINE n == c.node
           s == st[n]
<1>1. Nested(I, A) /\ Pointers(I, st, A) /\ Plan(I, A) /\ Each(I, st, A) /\ A \subseteq Node
  BY DEF Fine, Nested
<1>2. Rank(c) = 7
  BY DEF Rank
<1>3. \A b \in I : Rank(b) >= 6
  BY <1>2, RankType DEF Before, RankOrder
<1>4. /\ Staying(I, A) = A /\ Planned(I, A) = A
      /\ Clearing(I) = {} /\ Soon(I) = {} /\ Again(I) = {}
  BY <1>3, DoneSets
<1>5. n \in Node
  BY <1>1 DEF Each, EventFine
<1>6. s # NoNode => s \in A /\ s \in Kids(n)
  BY <1>1, <1>4, <1>5 DEF Pointers
<1> HIDE DEF n, s
<1>7. ASSUME NEW d \in D
      PROVE  /\ Rank(d) = 7 /\ EventFine(d, I, A)
             /\ \A r \in Upward[n] \ {n} : r \in Upward[d.node] /\ r # d.node
  <2>1. s # NoNode /\ d = WalkEvent(s, c.event, c.last)
    BY DEF DescendSet, s, n
  <2>2. d.op = "event" /\ d.node = s /\ Rank(d) = 7
    BY <2>1, OfWalk
  <2>3. s \in Node \ {Root} /\ parent[s] = n
    BY <1>6, <2>1 DEF Kids
  <2>4. Upward[s] = {s} \cup Upward[n] /\ s \notin Upward[n]
    BY <2>3, UpwardStep, ParentIsAbove
  <2> QED
    BY <1>4, <1>6, <2>1, <2>2, <2>3, <2>4 DEF EventFine
<1>8. Fine(J, st, A) /\ Planned(J, A) = Planned(I, A)
  <2>1. \A d \in D : Rank(d) \in {7, 8} /\ EventFine(d, I, A)
    BY <1>7
  <2>2. Rank(c) \in {3, 6, 7, 8}
    BY <1>2
  <2>3. Quiet(c, D, I, A)
    BY <2>1, <2>2 DEF Quiet
  <2>4. Fine(J, st, A) /\ SamePlan(I, J, A)
    BY <2>3, QuietStep, Zenon
  <2> QED
    BY <2>4 DEF SamePlan
<1>9. ASSUME NEW d \in D, NEW b \in R PROVE Before(d, b)
  <2>1. \A r \in Upward[c.node] \ {c.node} : r \in Upward[d.node] /\ r # d.node
    BY <1>7 DEF n
  <2> QED
    BY <1>5, <1>7, <2>1, WalkGoesOn DEF n
<1>10. Leaving(I, A) = {} /\ Coming(I) = {}
  BY <1>3, DoneSets
<1>99. /\ Fine(J, st, A) /\ Planned(J, A) = Planned(I, A)
       /\ Leaving(I, A) \subseteq Leaving(J, A) /\ Coming(I) \subseteq Coming(J)
       /\ \A d \in D, b \in R : Before(d, b)
  BY <1>8, <1>9, <1>10
<1> QED
  BY <1>99 DEF Onward

--------------------------------------------------------------------------------
(* event_callback and jump *)

\* The list of four calls.
LEMMA MakesFour ==
    ASSUME NEW a, NEW b, NEW c, NEW d,
           Before(a, b), Before(a, c), Before(a, d), Before(b, c), Before(b, d), Before(c, d)
    PROVE  Makes(<<a, b, c, d>>, {a, b, c, d})
<1>1. /\ DOMAIN <<a, b, c, d>> = 1 .. 4
      /\ <<a, b, c, d>>[1] = a /\ <<a, b, c, d>>[2] = b
      /\ <<a, b, c, d>>[3] = c /\ <<a, b, c, d>>[4] = d
  OBVIOUS
<1>2. <<a, b, c, d>> \in Seq({a, b, c, d})
  OBVIOUS
<1> DEFINE s == <<a, b, c, d>>
<1> HIDE DEF s
<1>3. DOMAIN s = 1 .. 4 /\ s[1] = a /\ s[2] = b /\ s[3] = c /\ s[4] = d
  BY <1>1 DEF s
<1>4. Items(s) = {a, b, c, d}
  <2>1. Items(s) = {s[i] : i \in 1 .. 4}
    BY <1>3 DEF Items
  <2>2. 1 \in 1 .. 4 /\ 2 \in 1 .. 4 /\ 3 \in 1 .. 4 /\ 4 \in 1 .. 4
        /\ \A i \in 1 .. 4 : i = 1 \/ i = 2 \/ i = 3 \/ i = 4
    OBVIOUS
  <2> QED
    BY <1>3, <2>1, <2>2
<1>5. ASSUME NEW i \in 1 .. 4, NEW j \in 1 .. 4, i < j PROVE Before(s[i], s[j])
  <2>1. CASE i = 1
    BY <1>3, <1>5, <2>1
  <2>2. CASE i = 2
    BY <1>3, <1>5, <2>2
  <2>3. CASE i = 3
    BY <1>3, <1>5, <2>3
  <2> QED
    BY <1>5, <2>1, <2>2, <2>3
<1>6. Ordered(s)
  BY <1>3, <1>5 DEF Ordered
<1>7. IsList(s)
  BY <1>2, <1>4 DEF IsList, s
<1> QED
  BY <1>4, <1>6, <1>7 DEF Makes, s

OneTake(e) == {WalkEvent(Root, e, NoEvent), RunJumps(e), PopEvent, Retrigger}

\* The calls that follow the walks.
LEMMA OfLast ==
    ASSUME NEW last
    PROVE  /\ RunJumps(last).op = "jump" /\ Rank(RunJumps(last)) = 8
           /\ PopEvent.op = "pop" /\ Rank(PopEvent) = 8
           /\ Retrigger.op = "retrigger" /\ Rank(Retrigger) = 8
           /\ Take.op = "take" /\ Rank(Take) = 8
  BY DEF Rank, RunJumps, PopEvent, Retrigger, Take

\* A call that is neither a walk nor before one, among the last.
LEMMA LastOfAll ==
    ASSUME NEW a, NEW b, Rank(b) = 8, Rank(a) \in 1 .. 8
    PROVE  Before(a, b)
<1>1. b.op # "event"
  BY DEF Rank
<1>2. WalkOrder(a, b)
  BY <1>1 DEF WalkOrder
<1> QED
  BY <1>2, LastBefore

\* The calls that event_callback makes for an event.
LEMMA TakeMakes ==
    ASSUME NEW e
    PROVE  Makes(<<WalkEvent(Root, e, NoEvent), RunJumps(e), PopEvent, Retrigger>>,
                 OneTake(e))
<1> DEFINE w == WalkEvent(Root, e, NoEvent)
           j == RunJumps(e)
<1>1. Rank(w) = 7 /\ Rank(j) = 8 /\ Rank(PopEvent) = 8 /\ Rank(Retrigger) = 8
  BY OfWalk, OfLast
<1> HIDE DEF w, j
<1>2. /\ Before(w, j) /\ Before(w, PopEvent) /\ Before(w, Retrigger)
      /\ Before(j, PopEvent) /\ Before(j, Retrigger) /\ Before(PopEvent, Retrigger)
  BY <1>1, LastOfAll
<1>3. Makes(<<w, j, PopEvent, Retrigger>>, {w, j, PopEvent, Retrigger})
  BY <1>2, MakesFour
<1> QED
  BY <1>3 DEF OneTake, w, j

\* The machine is complete and waits: a walk may begin at the root.
LEMMA RootIsOffered ==
    ASSUME NEW I, \A b \in I : Rank(b) >= 6, NEW A, Root \in Planned(I, A),
           NEW e, NEW last
    PROVE  EventFine(WalkEvent(Root, e, last), I, A)
<1>1. Root \in Staying(I, A)
  BY DoneSets
<1> QED
  BY <1>1, OfWalk, RootIsNode DEF EventFine

\* An event is taken: the invariant holds of the calls it makes.
LEMMA TakeKeeps ==
    ASSUME NEW c, Rank(c) = 8, NEW R, NEW I, I = {c} \cup R,
           NEW st, NEW A, Fine(I, st, A), Root \in Planned(I, A), \A b \in R : Before(c, b),
           NEW e, NEW D, D = OneTake(e), NEW J, J = D \cup R
    PROVE  /\ Fine(J, st, A) /\ SamePlan(I, J, A)
           /\ \A d \in D, b \in R : Before(d, b)
<1>1. \A b \in R : Rank(b) = 8
  BY RankType DEF Before, RankOrder
<1>2. \A b \in I : Rank(b) >= 6
  BY <1>1
<1>3. EventFine(WalkEvent(Root, e, NoEvent), I, A)
  BY <1>2, RootIsOffered
<1>4. ASSUME NEW d \in D PROVE Rank(d) \in {7, 8} /\ EventFine(d, I, A)
  <2>1. CASE d = WalkEvent(Root, e, NoEvent)
    BY <1>3, <2>1, OfWalk
  <2>2. CASE d \in {RunJumps(e), PopEvent, Retrigger}
    BY <2>2, OfLast DEF EventFine
  <2> QED
    BY <2>1, <2>2 DEF OneTake
<1>5. Quiet(c, D, I, A)
  BY <1>4 DEF Quiet
<1>6. Fine(J, st, A) /\ SamePlan(I, J, A)
  BY <1>5, QuietStep, Zenon
<1>7. \A d \in D, b \in R : Before(d, b)
  BY <1>1, <1>4, LastOfAll
<1> QED
  BY <1>6, <1>7

Lasting(c) == Rank(c) \in {3, 6, 7, 8}
Ends(I, J, st, A) == Fine(J, st, A) /\ SamePlan(I, J, A)

\* A call that makes no others.
LEMMA EndKeeps ==
    ASSUME NEW c, Lasting(c), NEW R, NEW I, I = {c} \cup R,
           NEW st, NEW A, Fine(I, st, A)
    PROVE  Ends(I, R, st, A)
<1>1. PICK D : D = {}
  OBVIOUS
<1>2. Quiet(c, D, I, A)
  BY <1>1 DEF Quiet, Lasting
<1>3. PICK J : J = D \cup R
  OBVIOUS
<1>4. Fine(J, st, A) /\ SamePlan(I, J, A)
  BY <1>2, <1>3, QuietStep, Zenon
<1>5. J = R
  BY <1>1, <1>3
<1> QED
  BY <1>4, <1>5 DEF Ends

BeforeAll(d, I) == \A b \in I : Before(d, b)
Offers(d) == \E e, last : d = WalkEvent(Root, e, last)

\* A jump walk, before the call that may ask for another one.
LEMMA JumpKeeps ==
    ASSUME NEW c, Rank(c) = 8, NEW R, NEW I, I = {c} \cup R,
           NEW st, NEW A, Fine(I, st, A), Root \in Planned(I, A), \A b \in R : Before(c, b),
           NEW d, Offers(d), NEW J, J = {d} \cup I
    PROVE  Ends(I, J, st, A) /\ BeforeAll(d, I)
<1>1. \A b \in I : Rank(b) = 8
  BY RankType DEF Before, RankOrder
<1>2. \A b \in I : Rank(b) >= 6
  BY <1>1
<1> PICK e, last : d = WalkEvent(Root, e, last)
  BY DEF Offers
<1>3. EventFine(d, I, A)
  BY <1>2, RootIsOffered
<1>4. Rank(d) = 7
  BY OfWalk
<1>5. PICK D : D = {d}
  OBVIOUS
<1>6. Quiet(c, D, I, A)
  BY <1>3, <1>4, <1>5 DEF Quiet
<1>7. I = {c} \cup I /\ J = D \cup I
  BY <1>5
<1>8. Fine(J, st, A) /\ SamePlan(I, J, A)
  BY <1>6, <1>7, QuietStep, Zenon
<1>9. \A b \in I : Before(d, b)
  BY <1>1, <1>4, LastOfAll
<1> QED
  BY <1>8, <1>9 DEF Ends, BeforeAll

--------------------------------------------------------------------------------
(* vivid_transit *)

\* The topmost node that a transition leaves.
Top(n, a, f) == IF f THEN a ELSE CHOOSE k \in Kids(a) : k \in Upward[n]

\* A transition from n to t with the ancestor a, that is drawn within regions.
Drawn(n, t, a, f) ==
    /\ n \in Node /\ t \in Node /\ ~Region(t)
    /\ \A r \in Upward[t] : Region(r) => r \in Upward[n]
    /\ a \in Common(n, t) /\ Common(n, t) \subseteq Upward[a]
    /\ f = (a = n \/ a = t)

\* A supported transition is drawn within regions.
LEMMA DrawnAs ==
    ASSUME Supported, NEW n \in Node, NEW t \in Targets(n), t \in Node
    PROVE  Drawn(n, t, Ancestor(n, t), Reenter(n, t, Ancestor(n, t)))
<1>1. Ancestor(n, t) \in Common(n, t) /\ Common(n, t) \subseteq Upward[Ancestor(n, t)]
  BY AncestorIsLowest DEF Common
<1>2. ~Region(t) /\ \A r \in Upward[t] : Region(r) => r \in Upward[n]
  BY DEF Supported
<1>3. Reenter(n, t, Ancestor(n, t)) = (Ancestor(n, t) = n \/ Ancestor(n, t) = t)
  BY DEF Reenter
<1> QED
  BY <1>1, <1>2, <1>3 DEF Drawn

\* The ends of a transition and its ancestor are nodes.
LEMMA DrawnType ==
    ASSUME NEW n, NEW t, NEW a, NEW f, Drawn(n, t, a, f)
    PROVE  /\ a \in Node /\ a \in Upward[n] /\ a \in Upward[t] /\ f \in BOOLEAN
           /\ (f # TRUE => n # a /\ t # a) /\ (n # a \/ f = TRUE) /\ (t # a \/ f = TRUE)
           /\ n \in Node /\ t \in Node
           /\ \A x \in Node : a \in Upward[x] => Upward[a] \subseteq Upward[x]
<1>1. a \in Upward[n] /\ a \in Upward[t] /\ n \in Node /\ t \in Node
  BY DEF Drawn, Common
<1>2. a \in Node
  BY <1>1, UpwardType
<1>3. \A x \in Node : a \in Upward[x] => Upward[a] \subseteq Upward[x]
  BY UpwardTransitive
<1> QED
  BY <1>1, <1>2, <1>3 DEF Drawn

\* What is above both ends is above the ancestor, or it.
LEMMA DrawnLowest ==
    ASSUME NEW n, NEW t, NEW a, NEW f, Drawn(n, t, a, f),
           NEW x \in Upward[n], x \in Upward[t]
    PROVE  x \in Upward[a]
  BY DEF Drawn, Common

\* No divided state on the way from the ancestor to the target.
LEMMA DrawnUndivided ==
    ASSUME NEW n, NEW t, NEW a, NEW f, Drawn(n, t, a, f),
           NEW x \in Upward[t] \ {t}, a \in Upward[x]
    PROVE  ~Parallel(x)
<1>1. x \in Node
  BY DrawnType, UpwardType
<1>2. PICK k \in Kids(x) : k \in Upward[t]
  BY DrawnType, KidOnTheWay
<1>3. k \in Node \ {Root} /\ parent[k] = x
  BY <1>2 DEF Kids
<1>4. k \notin Upward[x]
  BY <1>3, ParentIsAbove
<1>5. k \notin Upward[a]
  BY <1>1, <1>4, UpwardTransitive
<1>6. k \notin Upward[n]
  BY <1>2, <1>5, DrawnLowest
<1>7. ~Region(k)
  BY <1>2, <1>6 DEF Drawn
<1> QED
  BY <1>3, <1>7 DEF Region

IsTop(n, t, a, f, k) ==
    /\ k \in Upward[n] /\ k \in Node /\ a \in Upward[k]
    /\ f = TRUE => k = a
    /\ f # TRUE => k \in Kids(a) /\ k \notin Upward[t] /\ k \notin Upward[a] /\ k # a
    /\ \A m \in Node : (\E w \in Between(n, a, f) : w \in Upward[m]) <=> k \in Upward[m]

\* What it leaves is what is below the topmost node it leaves.
LEMMA DrawnTop ==
    ASSUME NEW n, NEW t, NEW a, NEW f, Drawn(n, t, a, f), NEW k, k = Top(n, a, f)
    PROVE  IsTop(n, t, a, f, k)
<1>1. /\ a \in Node /\ a \in Upward[n] /\ a \in Upward[t]
      /\ n \in Node /\ t \in Node /\ (f # TRUE => n # a)
  <2>1. /\ a \in Node /\ a \in Upward[n] /\ a \in Upward[t] /\ n \in Node /\ t \in Node
    BY DrawnType
  <2>2. f # TRUE => n # a
    BY DEF Drawn
  <2> QED
    BY <2>1, <2>2
<1>2. CASE f = TRUE
  <2>1. k = a
    BY <1>2 DEF Top
  <2>2. a \in Between(n, a, f)
    BY <1>1, <1>2, UpwardStep DEF Between
  <2>3. ASSUME NEW m \in Node, NEW w \in Between(n, a, f), w \in Upward[m]
        PROVE  a \in Upward[m]
    <3>1. a \in Upward[w]
      BY DEF Between
    <3> QED
      BY <2>3, <3>1, UpwardTransitive
  <2>4. \A m \in Node : (\E w \in Between(n, a, f) : w \in Upward[m]) <=> a \in Upward[m]
    BY <2>2, <2>3
  <2>5. k \in Upward[n] /\ k \in Node /\ a \in Upward[k]
    BY <1>1, <2>1, UpwardStep
  <2>6. \A m \in Node : (\E w \in Between(n, a, f) : w \in Upward[m]) <=> k \in Upward[m]
    BY <2>1, <2>4
  <2> QED
    BY <1>2, <2>1, <2>5, <2>6 DEF IsTop
<1>3. CASE f # TRUE
  <2>1. \E x \in Kids(a) : x \in Upward[n]
    BY <1>1, <1>3, KidOnTheWay
  <2>2. k \in Kids(a) /\ k \in Upward[n]
    BY <1>1, <1>3, <2>1 DEF Top
  <2>3. k \in Node \ {Root} /\ parent[k] = a
    BY <2>2 DEF Kids
  <2>4. a \in Upward[k] /\ k \notin Upward[a] /\ k # a
    BY <2>3, ParentIsAbove
  <2>5. k \notin Upward[t]
    BY <2>2, <2>4, DrawnLowest
  <2>6. k \in Between(n, a, f)
    BY <2>2, <2>4 DEF Between
  <2>7. ASSUME NEW m \in Node, NEW w \in Between(n, a, f), w \in Upward[m]
        PROVE  k \in Upward[m]
    <3>1. w \in Upward[n] /\ a \in Upward[w] /\ w # a
      BY <1>3 DEF Between
    <3>2. w \in Node
      BY <1>1, <3>1, UpwardType
    <3>3. PICK x \in Kids(a) : x \in Upward[w]
      BY <3>1, <3>2, KidOnTheWay
    <3>4. x \in Upward[n]
      BY <1>1, <3>1, <3>3, UpwardTransitive
    <3>5. x = k
      BY <1>1, <2>2, <2>3, <3>3, <3>4, SiblingsApart DEF Kids
    <3> QED
      BY <2>7, <3>3, <3>5, UpwardTransitive
  <2>8. \A m \in Node : (\E w \in Between(n, a, f) : w \in Upward[m]) <=> k \in Upward[m]
    BY <2>6, <2>7
  <2> QED
    BY <1>3, <2>2, <2>3, <2>4, <2>5, <2>8 DEF IsTop
<1> QED
  BY <1>2, <1>3

OnWay(n, t, a, f, x) ==
    /\ x \in Node /\ x \in Upward[t] /\ a \in Upward[x]
    /\ x = a => f = TRUE
    /\ x # a => /\ x # Root /\ parent[x] \in Upward[t] /\ a \in Upward[parent[x]]
                /\ parent[x] \in Node /\ x \notin Upward[a]
    /\ x \in Common(n, t) => x = a

\* The way to the target: all of it within the ancestor, and none of it what
\* is left, except the ancestor itself.
LEMMA DrawnWay ==
    ASSUME NEW n, NEW t, NEW a, NEW f, Drawn(n, t, a, f), NEW x \in Between(t, a, f)
    PROVE  OnWay(n, t, a, f, x)
<1>1. x \in Upward[t] /\ a \in Upward[x] /\ (x = a => f = TRUE)
  BY DEF Between
<1>2. x \in Node /\ a \in Node /\ t \in Node
  BY <1>1, DrawnType, UpwardType
<1>3. x \in Common(n, t) => x = a
  <2>1. x \in Common(n, t) => x \in Upward[a]
    BY DEF Drawn
  <2> QED
    BY <1>1, <1>2, <2>1, UpwardAntisymmetric
<1>4. x # a => /\ x # Root /\ parent[x] \in Upward[t] /\ a \in Upward[parent[x]]
               /\ parent[x] \in Node /\ x \notin Upward[a]
  <2> HAVE x # a
  <2>1. x # Root
    BY <1>1, UpwardStep
  <2>2. Upward[x] = {x} \cup Upward[parent[x]] /\ parent[x] \in Node /\ parent[x] \in Upward[x]
    BY <1>2, <2>1, UpwardStep, ParentIsAbove
  <2>3. parent[x] \in Upward[t]
    BY <1>1, <1>2, <2>2, UpwardTransitive
  <2>4. x \notin Upward[a]
    BY <1>1, <1>2, UpwardAntisymmetric
  <2> QED
    BY <1>1, <2>1, <2>2, <2>3, <2>4
<1> QED
  BY <1>1, <1>2, <1>3, <1>4 DEF OnWay

TransitSet(n, t, a, f) ==
    {ExitUp(n, a, NoNode, f), Leave, EntryUp(t, a, NoNode, f), Arrive(n, t)}

Moves(n, t, a, f, k, x, e, r) ==
    /\ Rank(x) = 2 /\ Rank(Leave) = 3 /\ Rank(e) = 4 /\ Rank(r) = 6
    /\ x.op = "exit_up" /\ Leave.op = "leave" /\ e.op = "entry_up" /\ r.op = "arrive"
    /\ Exits(x) = {m \in Node : k \in Upward[m]} /\ Clears(x) = {} /\ Outward(x)
    /\ Exits(e) = {} /\ Clears(e) = {}
    /\ Enters(e) = Between(t, a, f) /\ Tops(e) = {t} /\ Sets(e) = {}

\* What the four calls of a transition do.
LEMMA OfTransit ==
    ASSUME NEW n, NEW t, NEW a, NEW f, Drawn(n, t, a, f), NEW k, k = Top(n, a, f),
           NEW x, x = ExitUp(n, a, NoNode, f), NEW e, e = EntryUp(t, a, NoNode, f),
           NEW r, r = Arrive(n, t)
    PROVE  Moves(n, t, a, f, k, x, e, r)
<1>1. n \in Node /\ t \in Node /\ NoNode \notin Node
  BY DrawnType, RootIsNode
<1>2. x.op = "exit_up" /\ Leave.op = "leave" /\ e.op = "entry_up" /\ r.op = "arrive"
  BY DEF ExitUp, Leave, EntryUp, Arrive
<1>3. Rank(x) = 2 /\ Rank(Leave) = 3 /\ Rank(e) = 4 /\ Rank(r) = 6
  BY <1>2 DEF Rank
<1>4. /\ Outward(x) /\ Clears(x) = {}
      /\ Exits(x) = {m \in Node : NoNode \notin Upward[m] /\
                       \E w \in Between(n, a, f) : w \in Upward[m]}
  BY <1>1, OfExitUp
<1>5. Exits(x) = {m \in Node : k \in Upward[m]}
  <2>1. \A m \in Node : NoNode \notin Upward[m]
    BY <1>1, UpwardType
  <2>2. \A m \in Node : (\E w \in Between(n, a, f) : w \in Upward[m]) <=> k \in Upward[m]
    <3>1. IsTop(n, t, a, f, k)
      BY DrawnTop, Zenon
    <3> QED
      BY <3>1 DEF IsTop
  <2> QED
    BY <1>4, <2>1, <2>2
<1>6. Inward(e) /\ Enters(e) = Between(t, a, f) /\ Tops(e) = {t} /\ Sets(e) = {}
  <2>1. NoNode \in Node \cup {NoNode}
    OBVIOUS
  <2> QED
    BY <1>1, <2>1, OfEntryUp
<1> QED
  BY <1>2, <1>3, <1>4, <1>5, <1>6 DEF Inward, Moves

\* Two calls of which only the first leaves and only the last enters.
LEMMA StagesBefore ==
    ASSUME NEW a, NEW b, Rank(a) \in {2, 3, 4}, Rank(b) \in {3, 4, 6}, Rank(a) < Rank(b),
           b.op = "entry_up" => b.branch = NoNode, Sets(b) = {}, MoveOrder(a, b),
           Enters(a) = {} \/ Enters(b) = {}
    PROVE  Before(a, b)
<1>1. Exits(b) = {} /\ Clears(b) = {}
  BY RankTells
<1>2. ExitOrder(a, b) /\ EntryOrder(a, b)
  BY <1>1 DEF ExitOrder, EntryOrder
<1>3. WalkOrder(a, b)
  BY RankTells DEF WalkOrder
<1>4. RankOrder(a, b)
  BY DEF RankOrder
<1> QED
  BY <1>2, <1>3, <1>4 DEF Before

\* The four calls of a transition may be made in their order.
LEMMA TransitMakes ==
    ASSUME NEW n, NEW t, NEW a, NEW f, Drawn(n, t, a, f)
    PROVE  Makes(<<ExitUp(n, a, NoNode, f), Leave, EntryUp(t, a, NoNode, f), Arrive(n, t)>>,
                 TransitSet(n, t, a, f))
<1>a. PICK k : k = Top(n, a, f)
  OBVIOUS
<1>b. PICK x : x = ExitUp(n, a, NoNode, f)
  OBVIOUS
<1>c. PICK e : e = EntryUp(t, a, NoNode, f)
  OBVIOUS
<1>d. PICK r : r = Arrive(n, t)
  OBVIOUS
<1>m. Moves(n, t, a, f, k, x, e, r)
  BY <1>a, <1>b, <1>c, <1>d, OfTransit, Zenon
<1>t. IsTop(n, t, a, f, k)
  BY <1>a, DrawnTop, Zenon
<1>1. e.branch = NoNode /\ r.source = n /\ r.node = t
  BY <1>c, <1>d DEF EntryUp, Arrive
<1>2. /\ Rank(x) = 2 /\ Rank(Leave) = 3 /\ Rank(e) = 4 /\ Rank(r) = 6
      /\ x.op = "exit_up" /\ Leave.op = "leave" /\ e.op = "entry_up" /\ r.op = "arrive"
      /\ Exits(x) = {m \in Node : k \in Upward[m]} /\ Outward(x)
      /\ Exits(e) = {}
      /\ Enters(e) = Between(t, a, f) /\ Sets(e) = {}
  BY <1>m DEF Moves
<1>3. /\ k \in Upward[n] /\ k \in Node /\ a \in Upward[k]
      /\ f # TRUE => k \notin Upward[a]
      /\ f = TRUE => k = a
  BY <1>t DEF IsTop
<1>4. /\ a \in Node /\ n \in Node /\ t \in Node
      /\ \A y \in Node : a \in Upward[y] => Upward[a] \subseteq Upward[y]
  BY DrawnType
<1>5. Common(n, t) \subseteq Upward[a]
  BY DEF Drawn
<1>6. f = TRUE => a \in {n, t}
  BY DEF Drawn
<1>7. ASSUME NEW y \in Exits(x)
      PROVE  Common(n, t) \subseteq Upward[y] /\ (y \in Common(n, t) => y \in {n, t})
  <2>1. y \in Node /\ k \in Upward[y]
    BY <1>2
  <2>2. a \in Upward[y]
    BY <1>3, <2>1, UpwardTransitive
  <2>3. Common(n, t) \subseteq Upward[y]
    BY <1>4, <1>5, <2>1, <2>2
  <2>4. ASSUME y \in Common(n, t) PROVE y \in {n, t}
    <3>1. y \in Upward[a]
      BY <1>5, <2>4
    <3>2. y = a
      BY <1>4, <2>1, <2>2, <3>1, UpwardAntisymmetric
    <3>3. k \in Upward[a]
      BY <2>1, <3>2
    <3> QED
      BY <1>3, <1>6, <3>2, <3>3
  <2> QED
    BY <2>3, <2>4
<1>8. ASSUME NEW y \in Between(t, a, f)
      PROVE  Common(n, t) \subseteq Upward[y] /\ (y \in Common(n, t) => y \in {n, t})
  <2>1. y \in Node /\ a \in Upward[y] /\ (y \in Common(n, t) => y = a) /\ (y = a => f = TRUE)
    <3>1. OnWay(n, t, a, f, y)
      BY DrawnWay, Zenon
    <3> QED
      BY <3>1 DEF OnWay
  <2> QED
    BY <1>4, <1>5, <1>6, <2>1
<1>9. Exits(Leave) = {} /\ Enters(Leave) = {} /\ Sets(Leave) = {} /\ Enters(x) = {}
  BY <1>2, RankTells DEF Outward
<1>10. Enters(r) = {} /\ Sets(r) = {}
  BY <1>2, RankTells
<1>11. MoveOrder(x, r) /\ MoveOrder(Leave, r) /\ MoveOrder(e, r)
  BY <1>1, <1>2, <1>7, <1>8, <1>9 DEF MoveOrder
<1>12. MoveOrder(x, Leave) /\ MoveOrder(x, e) /\ MoveOrder(Leave, e)
  BY <1>2 DEF MoveOrder
<1>13. Before(x, Leave) /\ Before(x, e) /\ Before(x, r)
  BY <1>1, <1>2, <1>9, <1>10, <1>11, <1>12, StagesBefore
<1>14. Before(Leave, e) /\ Before(Leave, r) /\ Before(e, r)
  BY <1>1, <1>2, <1>9, <1>10, <1>11, <1>12, StagesBefore
<1>15. Makes(<<x, Leave, e, r>>, {x, Leave, e, r})
  BY <1>13, <1>14, MakesFour
<1> QED
  BY <1>15, <1>b, <1>c, <1>d DEF TransitSet

\* The machine as it is when no call is left that leaves or enters.
Settled(st, A) ==
    /\ A \subseteq Node
    /\ \A m \in A \ {Root} : parent[m] \in A
    /\ st \in [Node -> Node \cup {NoNode}]
    /\ \A n \in Node : Parallel(n) => st[n] = NoNode
    /\ \A n \in Node : st[n] # NoNode => st[n] \in Kids(n) /\ st[n] \in A
    /\ \A m \in A \ {Root} : ~Region(m) => st[parent[m]] = m
    /\ \A n \in Node : ~Parallel(n) => \A x, y \in Kids(n) \cap A : x = y
    /\ \A n \in A : IF Parallel(n) THEN Kids(n) \subseteq A
                    ELSE Kids(n) # {} => Kids(n) \cap A # {}

\* Nothing is left or entered any more: the machine is settled.
LEMMA SettledWhenDone ==
    ASSUME NEW I, \A b \in I : Rank(b) >= 6, NEW st, NEW A, Fine(I, st, A)
    PROVE  Settled(st, A)
<1>1. Nested(I, A) /\ Pointers(I, st, A) /\ Plan(I, A)
  BY DEF Fine
<1>2. /\ Staying(I, A) = A /\ Clearing(I) = {} /\ Again(I) = {}
      /\ Starting(I) = {} /\ Soon(I) = {} /\ Planned(I, A) = A
  BY DoneSets
<1>3. A \subseteq Node /\ \A m \in A \ {Root} : parent[m] \in A
  BY <1>1 DEF Nested
<1>4. /\ st \in [Node -> Node \cup {NoNode}]
      /\ \A n \in Node : Parallel(n) => st[n] = NoNode
      /\ \A n \in Node : st[n] # NoNode => st[n] \in Kids(n) /\ st[n] \in A
      /\ \A m \in A \ {Root} : ~Region(m) => st[parent[m]] = m
  BY <1>1, <1>2 DEF Pointers
<1>5. /\ \A n \in Node : ~Parallel(n) => \A x, y \in Kids(n) \cap A : x = y
      /\ \A n \in A : IF Parallel(n) THEN Kids(n) \subseteq A
                      ELSE Kids(n) # {} => Kids(n) \cap A # {}
  BY <1>1, <1>2 DEF Plan
<1> QED
  BY <1>3, <1>4, <1>5 DEF Settled

\* What a transition from a settled machine leaves and enters.
Underway(J, A, t, a, f, k) ==
    /\ Leaving(J, A) = {m \in A : k \in Upward[m]}
    /\ Staying(J, A) = {m \in A : k \notin Upward[m]}
    /\ Coming(J) = Between(t, a, f) /\ Starting(J) = {t} /\ Clearing(J) = {}
    /\ Planned(J, A) = Staying(J, A) \cup Between(t, a, f)

\* The sets of the invariant when a transition begins.
LEMMA TransitSets ==
    ASSUME NEW n, NEW t, NEW a, NEW f, Drawn(n, t, a, f), NEW k, k = Top(n, a, f),
           NEW R, \A b \in R : Rank(b) >= 7, NEW J, J = TransitSet(n, t, a, f) \cup R,
           NEW A, A \subseteq Node
    PROVE  Underway(J, A, t, a, f, k)
<1>1. PICK x : x = ExitUp(n, a, NoNode, f)
  OBVIOUS
<1>2. PICK e : e = EntryUp(t, a, NoNode, f)
  OBVIOUS
<1>3. PICK r : r = Arrive(n, t)
  OBVIOUS
<1>4. Moves(n, t, a, f, k, x, e, r)
  BY <1>1, <1>2, <1>3, OfTransit, Zenon
<1>5. /\ Exits(x) = {m \in Node : k \in Upward[m]} /\ Clears(x) = {}
      /\ Enters(x) = {} /\ Tops(x) = {}
      /\ Exits(e) = {} /\ Clears(e) = {}
      /\ Enters(e) = Between(t, a, f) /\ Tops(e) = {t}
  BY <1>4 DEF Moves, Outward
<1>6. Rank(Leave) = 3 /\ Rank(r) = 6
  BY <1>4 DEF Moves
<1>7. \A b \in R \cup {Leave, r} : Rank(b) = 3 \/ Rank(b) = 6 \/ Rank(b) >= 7
  BY <1>6
<1>8. \A b \in R \cup {Leave, r} :
         Exits(b) = {} /\ Clears(b) = {} /\ Enters(b) = {} /\ Tops(b) = {}
  BY <1>7, RankType, RankTells
<1>9. J = {x, e} \cup (R \cup {Leave, r})
  BY <1>1, <1>2, <1>3 DEF TransitSet
<1>10. t \in Node /\ Between(t, a, f) \subseteq Node
  <2>1. t \in Node
    BY DEF Drawn
  <2> QED
    BY <2>1, UpwardType DEF Between
<1> PICK S : S = R \cup {Leave, r}
  OBVIOUS
<1>11. Leaving(J, A) = {m \in A : k \in Upward[m]}
  BY <1>5, <1>8, <1>9 DEF Leaving
<1>12. Coming(J) = Between(t, a, f)
  BY <1>5, <1>8, <1>9, <1>10 DEF Coming
<1>13. Starting(J) = {t}
  BY <1>5, <1>8, <1>9, <1>10 DEF Starting
<1>14. Clearing(J) = {}
  BY <1>5, <1>8, <1>9 DEF Clearing
<1>15. Staying(J, A) = {m \in A : k \notin Upward[m]}
  BY <1>11 DEF Staying
<1> QED
  BY <1>11, <1>12, <1>13, <1>14, <1>15 DEF Underway, Planned

IsOut(x, f, A) == f # TRUE => x \notin A

\* None of the way to the target is in and stays.
LEMMA WayIsOut ==
    ASSUME NEW n, NEW t, NEW a, NEW f, Drawn(n, t, a, f), NEW k, k = Top(n, a, f),
           NEW st, NEW A, Settled(st, A), n \in A, NEW x \in Between(t, a, f)
    PROVE  IsOut(x, f, A)
<1> SUFFICES ASSUME f # TRUE, x \in A PROVE FALSE
  BY DEF IsOut
<1>1. x \in Node /\ x \in Upward[t] /\ a \in Upward[x] /\ x # a
  <2>1. OnWay(n, t, a, f, x)
    BY DrawnWay, Zenon
  <2> QED
    BY <2>1 DEF OnWay
<1>2. k \in Upward[n] /\ k \in Kids(a) /\ k \notin Upward[t]
  <2>1. IsTop(n, t, a, f, k)
    BY DrawnTop, Zenon
  <2> QED
    BY <2>1 DEF IsTop
<1>3. a \in Node /\ t \in Node /\ a \in Upward[t]
  BY DrawnType
<1>4. PICK y \in Kids(a) : y \in Upward[x]
  BY <1>1, <1>3, KidOnTheWay
<1>5. y \in Upward[t]
  BY <1>1, <1>3, <1>4, UpwardTransitive
<1>6. y \in A /\ k \in A
  <2>1. Upward[x] \subseteq A /\ Upward[n] \subseteq A
    BY NestedUp DEF Settled
  <2> QED
    BY <1>2, <1>4, <2>1
<1>7. a # t
  BY DEF Drawn
<1>8. ~Parallel(a)
  <2>1. a \in Upward[t] \ {t} /\ a \in Upward[a]
    BY <1>3, <1>7, UpwardStep
  <2> QED
    BY <2>1, DrawnUndivided, Zenon
<1>9. y = k
  BY <1>2, <1>3, <1>4, <1>6, <1>8 DEF Settled
<1> QED
  BY <1>2, <1>5, <1>9

\* The facts of a transition that the steps below draw on.
Going(n, t, a, f, k, A) ==
    /\ n \in Node /\ t \in Node /\ a \in Node /\ k \in Node
    /\ a \in Upward[n] /\ a \in Upward[t] /\ a \in Upward[k] /\ k \in Upward[n]
    /\ n \in A /\ k \in A /\ a \in A
    /\ (f = TRUE => k = a)
    /\ (f # TRUE => k \in Kids(a) /\ k \notin Upward[t] /\ k \notin Upward[a] /\ k # a /\ a # t)

\* The pointers when a transition begins.
LEMMA TransitGoes ==
    ASSUME NEW n, NEW t, NEW a, NEW f, Drawn(n, t, a, f), NEW k, k = Top(n, a, f),
           NEW st, NEW A, Settled(st, A), n \in A
    PROVE  Going(n, t, a, f, k, A)
<1>1. IsTop(n, t, a, f, k)
  BY DrawnTop, Zenon
<1>2. a \in Node /\ a \in Upward[n] /\ a \in Upward[t] /\ n \in Node /\ t \in Node
  BY DrawnType
<1>3. Upward[n] \subseteq A
  BY NestedUp DEF Settled
<1>4. f # TRUE => a # t
  BY DEF Drawn
<1>5. a \in A /\ k \in A
  BY <1>1, <1>2, <1>3 DEF IsTop
<1> QED
  BY <1>1, <1>2, <1>4, <1>5 DEF IsTop, Going

\* What stays when a transition begins has its parent stay.
LEMMA TransitNested ==
    ASSUME NEW J, NEW t, NEW a, NEW f, NEW k, NEW A, NEW st, Settled(st, A),
           Underway(J, A, t, a, f, k)
    PROVE  Nested(J, A)
<1>1. A \subseteq Node /\ \A m \in A \ {Root} : parent[m] \in A
  BY DEF Settled
<1>2. ASSUME NEW m \in A \ {Root}, k \notin Upward[m]
      PROVE  k \notin Upward[parent[m]]
  BY <1>1, <1>2, UpwardStep
<1> QED
  BY <1>1, <1>2 DEF Nested, Underway

\* What a node on the way has below it on the way.
LEMMA WayGoesDown ==
    ASSUME NEW n, NEW t, NEW a, NEW f, Drawn(n, t, a, f),
           NEW x \in Node, x \in Upward[t], x # t, a \in Upward[x]
    PROVE  \E y \in Kids(x) : y \in Between(t, a, f)
<1>1. t \in Node /\ a \in Node
  BY DrawnType
<1>2. PICK y \in Kids(x) : y \in Upward[t]
  BY <1>1, KidOnTheWay
<1>3. y \in Node \ {Root} /\ parent[y] = x
  BY <1>2 DEF Kids
<1>4. Upward[y] = {y} \cup Upward[x] /\ y \notin Upward[x]
  BY <1>3, UpwardStep, ParentIsAbove
<1>5. y \in Between(t, a, f)
  BY <1>2, <1>4 DEF Between
<1> QED
  BY <1>5

\* When the transition has arrived, the machine will be complete.
LEMMA TransitPlan ==
    ASSUME NEW n, NEW t, NEW a, NEW f, Drawn(n, t, a, f), NEW k, k = Top(n, a, f),
           NEW st, NEW A, Settled(st, A), n \in A,
           NEW J, Underway(J, A, t, a, f, k)
    PROVE  Plan(J, A)
<1>1. Going(n, t, a, f, k, A)
  BY TransitGoes, Zenon
<1>2. A \subseteq Node /\ \A m \in A \ {Root} : parent[m] \in A
  BY DEF Settled
<1>3. /\ \A m \in Node : ~Parallel(m) => \A x, y \in Kids(m) \cap A : x = y
      /\ \A m \in A : IF Parallel(m) THEN Kids(m) \subseteq A
                      ELSE Kids(m) # {} => Kids(m) \cap A # {}
  BY DEF Settled
<1> PICK V : V = Between(t, a, f)
  OBVIOUS
<1> PICK S : S = {m \in A : k \notin Upward[m]}
  OBVIOUS
<1>4. /\ Staying(J, A) = S /\ Coming(J) = V /\ Starting(J) = {t} /\ Planned(J, A) = S \cup V
  BY DEF Underway
<1>5. ASSUME NEW x \in V
      PROVE  /\ x \in Node /\ x \in Upward[t] /\ a \in Upward[x] /\ (x = a => f = TRUE)
             /\ x # a => /\ x # Root /\ parent[x] \in Upward[t] /\ a \in Upward[parent[x]]
                         /\ parent[x] \in Node
  <2>1. OnWay(n, t, a, f, x)
    BY DrawnWay, Zenon
  <2> QED
    BY <2>1 DEF OnWay
<1>6. f # TRUE => V \cap A = {}
  <2>1. ASSUME NEW x \in V PROVE f # TRUE => x \notin A
    <3>1. x \in Between(t, a, f)
      OBVIOUS
    <3>2. IsOut(x, f, A)
      BY <3>1, WayIsOut, Zenon
    <3> QED
      BY <3>2 DEF IsOut
  <2> QED
    BY <2>1
<1>7. \A x : x \in V <=> x \in Upward[t] /\ a \in Upward[x] /\ (x # a \/ f = TRUE)
  BY DEF Between
<1>8. ASSUME NEW x \in Upward[t], x # t, a \in Upward[x]
      PROVE  x \in Node /\ ~Parallel(x) /\ \E y \in Kids(x) : y \in V
  <2>1. x \in Node
    BY <1>1, UpwardType DEF Going
  <2>2. x \in Upward[t] \ {t}
    BY <1>8
  <2>3. ~Parallel(x)
    BY <1>8, <2>2, DrawnUndivided, Zenon
  <2>4. \E y \in Kids(x) : y \in Between(t, a, f)
    BY <1>8, <2>1, WayGoesDown, Zenon
  <2> QED
    BY <2>1, <2>3, <2>4
<1>9. V \cap S = {}
  BY <1>1, <1>5, <1>6 DEF Going
<1>10. ASSUME NEW m \in V \ {Root} PROVE parent[m] \in S \cup V
  <2>1. CASE m = a
    <3>1. f = TRUE /\ k = a
      BY <1>1, <1>5, <2>1 DEF Going
    <3>2. parent[a] \in A /\ a \notin Upward[parent[a]]
      BY <1>1, <1>2, <2>1, ParentIsAbove DEF Going
    <3> QED
      BY <2>1, <3>1, <3>2
  <2>2. CASE m # a
    <3>1. parent[m] \in Upward[t] /\ a \in Upward[parent[m]]
      BY <1>5, <2>2
    <3>2. CASE parent[m] # a \/ f = TRUE
      BY <1>7, <3>1, <3>2
    <3>3. CASE parent[m] = a /\ f # TRUE
      BY <1>1, <3>3 DEF Going
    <3> QED
      BY <3>2, <3>3
  <2> QED
    BY <2>1, <2>2
<1>11. ASSUME NEW m \in Node, ~Parallel(m), NEW x \in Kids(m), NEW y \in Kids(m),
              x \in S \cup V, y \in S \cup V
       PROVE  x = y
  <2>1. /\ x \in Node \ {Root} /\ parent[x] = m
        /\ y \in Node \ {Root} /\ parent[y] = m
    BY DEF Kids
  <2>2. ASSUME NEW u \in Kids(m), NEW v \in Kids(m), u \in S, v \in V PROVE FALSE
    <3>1. u \in Node \ {Root} /\ parent[u] = m /\ v \in Node \ {Root} /\ parent[v] = m
      BY DEF Kids
    <3>2. u \in A /\ k \notin Upward[u] /\ Upward[u] = {u} \cup Upward[m] /\ m \in A
      BY <1>2, <2>2, <3>1, UpwardStep
    <3>3. CASE v = a
      <4>1. k = a /\ a \in A /\ v \in V
        BY <1>1, <1>5, <2>2, <3>3 DEF Going
      <4>2. u = a
        BY <1>3, <1>11, <3>2, <3>3, <4>1
      <4> QED
        BY <1>1, <3>2, <4>1, <4>2, UpwardStep DEF Going
    <3>4. CASE v # a
      <4>1. a \in Upward[m] /\ m \in Upward[t]
        BY <1>5, <2>2, <3>1, <3>4
      <4>2. f # TRUE
        BY <1>1, <3>2, <4>1 DEF Going
      <4>3. m = a
        BY <1>6, <1>7, <3>2, <4>1, <4>2
      <4>4. k \in Kids(m) /\ k \in A
        BY <1>1, <4>2, <4>3 DEF Going
      <4>5. u = k
        BY <1>3, <1>11, <3>2, <4>4
      <4> QED
        BY <3>1, <3>2, <4>5, UpwardStep
    <3> QED
      BY <3>3, <3>4
  <2>3. CASE x \in S /\ y \in S
    BY <1>3, <1>11, <2>3
  <2>4. CASE x \in V /\ y \in V
    <3>1. x \in Upward[t] /\ y \in Upward[t]
      BY <1>5, <2>4
    <3> QED
      BY <1>1, <2>1, <3>1, SiblingsApart DEF Going
  <2> QED
    BY <1>11, <2>2, <2>3, <2>4
<1>12. ASSUME NEW m \in V, m # t
       PROVE  IF Parallel(m) THEN Kids(m) \subseteq S \cup V
              ELSE Kids(m) # {} => Kids(m) \cap (S \cup V) # {}
  BY <1>5, <1>8, <1>12
<1>13. ASSUME NEW m \in S
       PROVE  IF Parallel(m) THEN Kids(m) \subseteq S \cup V
              ELSE Kids(m) # {} => Kids(m) \cap (S \cup V) # {}
  <2>1. m \in A /\ m \in Node /\ k \notin Upward[m]
    BY <1>2
  <2>2. ASSUME NEW y \in Kids(m), y \in A, y \notin S PROVE y = k
    <3>1. y \in Node \ {Root} /\ parent[y] = m /\ k \in Upward[y]
      BY <2>2 DEF Kids
    <3> QED
      BY <2>1, <3>1, UpwardStep
  <2>3. f = TRUE => k \in V
    BY <1>1, <1>7, UpwardStep DEF Going
  <2>4. f # TRUE /\ k \in Kids(m) => ~Parallel(m) /\ \E y \in Kids(m) : y \in V
    <3> HAVE f # TRUE /\ k \in Kids(m)
    <3>1. m = a /\ m # t /\ m \in Upward[t] /\ a \in Upward[m]
      BY <1>1, UpwardStep DEF Going, Kids
    <3> QED
      BY <1>8, <3>1
  <2>5. CASE Parallel(m)
    <3>1. Kids(m) \subseteq A
      BY <1>3, <2>1, <2>5
    <3>2. ASSUME NEW y \in Kids(m) PROVE y \in S \cup V
      BY <2>2, <2>3, <2>4, <2>5, <3>1
    <3> QED
      BY <2>5, <3>2
  <2>6. CASE ~Parallel(m) /\ Kids(m) # {}
    <3>1. PICK y \in Kids(m) : y \in A
      BY <1>3, <2>1, <2>6
    <3> QED
      BY <2>2, <2>3, <2>4, <2>6, <3>1
  <2> QED
    BY <2>5, <2>6
<1>14. \A m \in Node : ~Parallel(m) => \A x, y \in Kids(m) \cap (S \cup V) : x = y
  BY <1>11
<1>15. \A m \in (S \cup V) \ {t} : IF Parallel(m) THEN Kids(m) \subseteq S \cup V
                                  ELSE Kids(m) # {} => Kids(m) \cap (S \cup V) # {}
  BY <1>12, <1>13
<1> QED
  BY <1>4, <1>9, <1>10, <1>14, <1>15 DEF Plan

\* A divided region that the source is inside of, beside which others wait for
\* the event, is not left.
Held(n, t) ==
    \A r \in Node :
       Region(r) /\ Parallel(r) /\ NextRegion(r) # NoNode /\ n # r /\ r \in Upward[n]
          => r \in Upward[t]

\* The walks that wait are in what stays.
LEMMA WaitersStay ==
    ASSUME NEW c, c.op = "event", NEW b, Before(c, b), b.op = "event", b.node \in Node,
           NEW n, n = c.node, NEW t, NEW a, NEW f, Drawn(n, t, a, f), Held(n, t),
           NEW k, a \in Upward[k], k \in Node
    PROVE  k \notin Upward[b.node]
<1>1. PICK r \in Node : /\ Region(r) /\ Parallel(r) /\ NextRegion(r) = b.node
                        /\ n # r /\ r \in Upward[n]
  BY DEF Before, WalkOrder
<1>2. b.node # NoNode
  BY RootIsNode
<1>3. r \in Upward[t]
  BY <1>1, <1>2 DEF Held
<1>4. r \in Upward[a]
  BY <1>1, <1>3, DrawnLowest, Zenon
<1>5. r \in Upward[k]
  BY <1>4, UpwardTransitive
<1>6. /\ r \in Kids(parent[r]) /\ parent[r] \in Node
      /\ b.node \in Kids(parent[r]) /\ b.node # r
  BY <1>1, <1>2, NextRegionIs
<1>7. r \in Node \ {Root} /\ b.node \in Node \ {Root} /\ parent[b.node] = parent[r]
  BY <1>6 DEF Kids
<1>8. b.node \in Upward[b.node]
  BY UpwardStep
<1>9. k \in Upward[b.node] => r \in Upward[b.node]
  BY <1>5, UpwardTransitive
<1> QED
  BY <1>6, <1>7, <1>8, <1>9, SiblingsApart

Transits(J, D, R, st, A) ==
    /\ Fine(J, st, A) /\ Root \in Planned(J, A)
    /\ \A d \in D, b \in R : Before(d, b)

\* A transition that begins keeps the invariant.
LEMMA TransitKeeps ==
    ASSUME NEW c, c.op = "event", NEW R, NEW I, I = {c} \cup R,
           NEW st, NEW A, Fine(I, st, A), Root \in Planned(I, A), \A b \in R : Before(c, b),
           NEW n, n = c.node, NEW t, NEW a, NEW f, Drawn(n, t, a, f), Held(n, t),
           NEW D, D = TransitSet(n, t, a, f), NEW J, J = D \cup R
    PROVE  Transits(J, D, R, st, A)
<1>1. Rank(c) = 7
  BY DEF Rank
<1>2. \A b \in R : Rank(b) >= 7 /\ Rank(b) \in {7, 8}
  BY <1>1, RankType DEF Before, RankOrder
<1>3. \A b \in I : Rank(b) >= 6
  BY <1>1, <1>2
<1>4. Settled(st, A)
  BY <1>3, SettledWhenDone, Zenon
<1>5. Nested(I, A) /\ Pointers(I, st, A) /\ Plan(I, A) /\ Each(I, st, A) /\ A \subseteq Node
  BY DEF Fine, Nested
<1>6. Staying(I, A) = A /\ Planned(I, A) = A /\ Soon(I) = {} /\ Again(I) = {}
  BY <1>3, DoneSets
<1>7. n \in A /\ Root \in A
  BY <1>5, <1>6 DEF Each, EventFine
<1>8. PICK k : k = Top(n, a, f)
  OBVIOUS
<1>9. Going(n, t, a, f, k, A)
  BY <1>4, <1>7, <1>8, TransitGoes, Zenon
<1>10. Underway(J, A, t, a, f, k)
  <2>1. J = TransitSet(n, t, a, f) \cup R /\ \A b \in R : Rank(b) >= 7
    BY <1>2
  <2> QED
    BY <1>5, <1>8, <2>1, TransitSets, Zenon
<1>11. Nested(J, A)
  BY <1>4, <1>10, TransitNested, Zenon
<1>12. Plan(J, A)
  BY <1>4, <1>7, <1>8, <1>10, TransitPlan, Zenon
<1>13. Pointers(J, st, A)
  BY <1>4 DEF Pointers, Settled
<1>14. PICK x : x = ExitUp(n, a, NoNode, f)
  OBVIOUS
<1>15. PICK e : e = EntryUp(t, a, NoNode, f)
  OBVIOUS
<1>16. PICK r : r = Arrive(n, t)
  OBVIOUS
<1>17. Moves(n, t, a, f, k, x, e, r)
  BY <1>8, <1>14, <1>15, <1>16, OfTransit, Zenon
<1>18. D = {x, Leave, e, r}
  BY <1>14, <1>15, <1>16 DEF TransitSet
<1>19. /\ x.node = n /\ x.ancestor = a /\ x.branch = NoNode /\ x.flag = f
       /\ e.node = t /\ e.ancestor = a /\ e.branch = NoNode /\ e.flag = f
       /\ r.node = t /\ r.source = n
  BY <1>14, <1>15, <1>16 DEF ExitUp, EntryUp, Arrive
<1>20. f \in BOOLEAN /\ (f # TRUE => n # a /\ t # a)
  BY DEF Drawn
<1>21. t \in Between(t, a, f)
  BY <1>9, <1>20, UpwardStep DEF Going, Between
<1>22. /\ ExitWhole(x, A) /\ ExitFine(x, J, A) /\ ExitDownFine(x, J, A)
       /\ ExitUpFine(x, J, st, A) /\ ClearFine(x, J, A) /\ SetFine(x, J)
       /\ EntryFine(x, J, st) /\ EntryDownFine(x, J, st) /\ EntryUpFine(x, J, st, A)
       /\ ArriveFine(x, J, A) /\ EventFine(x, J, A)
  <2>1. x.op = "exit_up"
    BY <1>17 DEF Moves
  <2>2. ExitWhole(x, A)
    BY <1>4 DEF ExitWhole, Settled
  <2>3. Return(x, J)
    <3>1. e \in J /\ e.op = "entry_up" /\ e.ancestor = x.ancestor /\ e.flag = x.flag
      BY <1>17, <1>18, <1>19 DEF Moves
    <3> QED
      BY <3>1 DEF Return
  <2>4. ExitUpFine(x, J, st, A)
    <3>1. /\ n \in Node /\ a \in Upward[n] /\ n \in A
      BY <1>9 DEF Going
    <3> QED
      BY <1>19, <1>20, <2>1, <2>3, <3>1 DEF ExitUpFine
  <2> QED
    BY <2>1, <2>2, <2>4 DEF ExitFine, ExitDownFine, ClearFine, SetFine,
       EntryFine, EntryDownFine, EntryUpFine, ArriveFine, EventFine
<1>23. /\ ExitWhole(Leave, A) /\ ExitFine(Leave, J, A) /\ ExitDownFine(Leave, J, A)
       /\ ExitUpFine(Leave, J, st, A) /\ ClearFine(Leave, J, A) /\ SetFine(Leave, J)
       /\ EntryFine(Leave, J, st) /\ EntryDownFine(Leave, J, st)
       /\ EntryUpFine(Leave, J, st, A)
       /\ ArriveFine(Leave, J, A) /\ EventFine(Leave, J, A)
  <2>1. Leave.op = "leave" /\ Exits(Leave) = {}
    BY <1>17, RankTells DEF Moves
  <2> QED
    BY <2>1 DEF ExitWhole, ExitFine, ExitDownFine, ExitUpFine, ClearFine, SetFine,
       EntryFine, EntryDownFine, EntryUpFine, ArriveFine, EventFine
<1>24. /\ ExitWhole(e, A) /\ ExitFine(e, J, A) /\ ExitDownFine(e, J, A)
       /\ ExitUpFine(e, J, st, A) /\ ClearFine(e, J, A) /\ SetFine(e, J)
       /\ EntryFine(e, J, st) /\ EntryDownFine(e, J, st) /\ EntryUpFine(e, J, st, A)
       /\ ArriveFine(e, J, A) /\ EventFine(e, J, A)
  <2>1. e.op = "entry_up" /\ Rank(e) >= 4
    BY <1>17 DEF Moves
  <2>2. /\ ExitWhole(e, A) /\ ExitFine(e, J, A) /\ ExitDownFine(e, J, A)
        /\ ExitUpFine(e, J, st, A) /\ ClearFine(e, J, A)
    BY <2>1, NoExits
  <2>3. f = TRUE => a = Root \/ /\ parent[a] \in Staying(J, A)
                                /\ Parallel(parent[a]) \/ st[parent[a]] = a
    <3> SUFFICES ASSUME f = TRUE, a # Root
                 PROVE  /\ parent[a] \in Staying(J, A)
                        /\ Parallel(parent[a]) \/ st[parent[a]] = a
      OBVIOUS
    <3>1. a \in Node \ {Root} /\ a \in A /\ k = a
      BY <1>9 DEF Going
    <3>2. parent[a] \in A /\ a \notin Upward[parent[a]]
      BY <1>4, <3>1, ParentIsAbove DEF Settled
    <3>3. parent[a] \in Staying(J, A)
      BY <1>10, <3>1, <3>2 DEF Underway
    <3>4. ~Region(a) => st[parent[a]] = a
      BY <1>4, <3>1 DEF Settled
    <3> QED
      BY <3>1, <3>3, <3>4 DEF Region
  <2>4. f # TRUE => a \in Staying(J, A)
    BY <1>9, <1>10 DEF Going, Underway
  <2>5. ASSUME NEW y \in Upward[t] \ {t}, a \in Upward[y] PROVE ~Parallel(y)
    BY <2>5, DrawnUndivided, Zenon
  <2>6. Kids(t) \cap Coming(J) = {}
    <3>1. ASSUME NEW y \in Kids(t) PROVE y \notin Between(t, a, f)
      <4>1. y \in Node \ {Root} /\ parent[y] = t
        BY DEF Kids
      <4> QED
        BY <4>1, ParentIsAbove DEF Between
    <3>2. Kids(t) \cap Between(t, a, f) = {}
      BY <3>1
    <3>3. Coming(J) = Between(t, a, f)
      BY <1>10 DEF Underway
    <3> QED
      BY <3>2, <3>3
  <2>7. ~Region(t)
    BY DEF Drawn
  <2>8. t \in Node /\ a \in Upward[t]
    BY <1>9 DEF Going
  <2>9. EntryUpFine(e, J, st, A)
    <3>1. t # a \/ f = TRUE
      BY <1>20
    <3>2. /\ e.flag = TRUE =>
               \/ e.ancestor = Root
               \/ /\ parent[e.ancestor] \in Staying(J, A)
                  /\ Parallel(parent[e.ancestor]) \/ st[parent[e.ancestor]] = e.ancestor
          /\ e.flag # TRUE => e.ancestor \in Staying(J, A)
      <4>1. e.flag = f /\ e.ancestor = a
        BY <1>19
      <4> QED
        BY <2>3, <2>4, <4>1
    <3>3. \A y \in Upward[e.node] \ {e.node} : e.ancestor \in Upward[y] => ~Parallel(y)
      BY <1>19, <2>5
    <3>4. /\ e.node # e.ancestor \/ e.flag = TRUE
          /\ ~Region(e.node) /\ Kids(e.node) \cap Coming(J) = {}
      BY <1>19, <2>6, <2>7, <3>1
    <3>5. e.node \in Node /\ e.ancestor \in Upward[e.node] /\ e.flag \in BOOLEAN /\ e.branch = NoNode
      BY <1>19, <1>20, <2>8
    <3> QED
      BY <3>2, <3>3, <3>4, <3>5 DEF EntryUpFine
  <2> QED
    BY <2>1, <2>2, <2>9 DEF SetFine, EntryFine, EntryDownFine, ArriveFine, EventFine
<1>25. /\ ExitWhole(r, A) /\ ExitFine(r, J, A) /\ ExitDownFine(r, J, A)
       /\ ExitUpFine(r, J, st, A) /\ ClearFine(r, J, A) /\ SetFine(r, J)
       /\ EntryFine(r, J, st) /\ EntryDownFine(r, J, st) /\ EntryUpFine(r, J, st, A)
       /\ ArriveFine(r, J, A) /\ EventFine(r, J, A)
  <2>1. r.op = "arrive" /\ Rank(r) >= 4
    BY <1>17 DEF Moves
  <2>2. /\ ExitWhole(r, A) /\ ExitFine(r, J, A) /\ ExitDownFine(r, J, A)
        /\ ExitUpFine(r, J, st, A) /\ ClearFine(r, J, A)
    BY <2>1, NoExits
  <2>3. t \in Planned(J, A)
    BY <1>10, <1>21 DEF Underway
  <2> QED
    BY <1>19, <2>1, <2>2, <2>3 DEF SetFine, EntryFine, EntryDownFine, EntryUpFine,
       ArriveFine, EventFine
<1>26. ASSUME NEW b \in R
       PROVE  /\ ExitWhole(b, A) /\ ExitFine(b, J, A) /\ ExitDownFine(b, J, A)
              /\ ExitUpFine(b, J, st, A) /\ ClearFine(b, J, A) /\ SetFine(b, J)
              /\ EntryFine(b, J, st) /\ EntryDownFine(b, J, st) /\ EntryUpFine(b, J, st, A)
              /\ ArriveFine(b, J, A) /\ EventFine(b, J, A)
  <2>1. Rank(b) >= 4 /\ Rank(b) >= 7
    BY <1>2
  <2>2. /\ ExitWhole(b, A) /\ ExitFine(b, J, A) /\ ExitDownFine(b, J, A)
        /\ ExitUpFine(b, J, st, A) /\ ClearFine(b, J, A)
    BY <2>1, NoExits
  <2>3. b.op \notin {"entry", "entry_down", "entry_up", "arrive", "set_state"}
    BY <2>1 DEF Rank
  <2>4. EventFine(b, I, A)
    BY <1>5 DEF Each
  <2>5. EventFine(b, J, A)
    <3>1. b.op = "descend" => b.node \in Node
      BY <2>4 DEF EventFine
    <3>2. ASSUME b.op = "event" PROVE b.node \in Node /\ b.node \in Staying(J, A)
      <4>1. b.node \in Node /\ b.node \in A
        BY <1>6, <2>4, <3>2 DEF EventFine
      <4>2. Before(c, b) /\ a \in Upward[k] /\ k \in Node
        BY <1>9 DEF Going
      <4>3. k \notin Upward[b.node]
        BY <3>2, <4>1, <4>2, WaitersStay, Zenon
      <4> QED
        BY <1>10, <4>1, <4>3 DEF Underway
    <3> QED
      BY <3>1, <3>2 DEF EventFine
  <2> QED
    BY <2>2, <2>3, <2>5 DEF SetFine, EntryFine, EntryDownFine, EntryUpFine, ArriveFine
<1>27. Each(J, st, A)
  <2> SUFFICES ASSUME NEW d \in J
               PROVE  /\ ExitWhole(d, A)
                      /\ ExitFine(d, J, A) /\ ExitDownFine(d, J, A) /\ ExitUpFine(d, J, st, A)
                      /\ ClearFine(d, J, A) /\ SetFine(d, J)
                      /\ EntryFine(d, J, st) /\ EntryDownFine(d, J, st) /\ EntryUpFine(d, J, st, A)
                      /\ ArriveFine(d, J, A) /\ EventFine(d, J, A)
    BY DEF Each
  <2>1. d = x \/ d = Leave \/ d = e \/ d = r \/ d \in R
    BY <1>18
  <2> QED
    BY <1>22, <1>23, <1>24, <1>25, <1>26, <2>1
<1>28. Fine(J, st, A)
  BY <1>11, <1>12, <1>13, <1>27 DEF Fine
<1>29. Root \in Planned(J, A)
  <2>1. CASE k = Root
    <3>1. a = Root
      BY <1>9, <2>1, UpwardStep DEF Going
    <3>2. f = TRUE
      BY <1>9, <2>1, <3>1 DEF Going
    <3>3. Root \in Between(t, a, f)
      BY <1>9, <3>1, <3>2, UpwardStep DEF Going, Between
    <3> QED
      BY <1>10, <3>3 DEF Underway
  <2>2. CASE k # Root
    <3>1. k \notin Upward[Root]
      BY <2>2, UpwardStep
    <3> QED
      BY <1>7, <1>10, <3>1 DEF Underway
  <2> QED
    BY <2>1, <2>2
<1>30. ASSUME NEW d \in D, NEW b \in R PROVE Before(d, b)
  <2>1. Rank(d) \in {2, 3, 4, 6}
    BY <1>17, <1>18 DEF Moves
  <2>2. WalkOrder(d, b)
    BY <2>1, RankTells DEF WalkOrder
  <2>3. Rank(b) \in {7, 8} /\ Rank(d) <= Rank(b)
    BY <1>2, <2>1
  <2> QED
    BY <2>2, <2>3, LastBefore
<1> QED
  BY <1>28, <1>29, <1>30 DEF Transits

--------------------------------------------------------------------------------
(* The steps of the engine *)

\* What the calls of s will make of the machine.
Good(s, st, A) ==
    /\ IsList(s) /\ Ordered(s)
    /\ Fine(Items(s), st, A) /\ Root \in Planned(Items(s), A)

Opens(c, R, I, st, A) ==
    /\ I = {c} \cup R /\ \A b \in R : Before(c, b)
    /\ Fine(I, st, A) /\ Root \in Planned(I, A)

\* The first call, the calls that wait, and what holds of them.
LEMMA GoodOpens ==
    ASSUME NEW s, NEW st, NEW A, Good(s, st, A), s # <<>>
    PROVE  Opens(Head(s), Items(Tail(s)), Items(s), st, A)
  BY MakesFirst DEF Good, Opens

\* The first call is replaced by those it makes.
LEMMA GoodGoesOn ==
    ASSUME NEW s, IsList(s), Ordered(s), s # <<>>, NEW R, R = Items(Tail(s)),
           NEW calls, NEW D, Makes(calls, D), \A d \in D, b \in R : Before(d, b),
           NEW J, J = D \cup R, NEW st, NEW A, Fine(J, st, A), Root \in Planned(J, A)
    PROVE  Good(calls \o Tail(s), st, A)
<1>1. Makes(Tail(s), R)
  BY MakesFirst
<1>2. Makes(calls \o Tail(s), D \cup R)
  BY <1>1, MakesJoin
<1>3. Makes(calls \o Tail(s), J)
  BY <1>2
<1> QED
  BY <1>3 DEF Makes, Good

\* The first call returns.
LEMMA GoodEnds ==
    ASSUME NEW s, IsList(s), Ordered(s), s # <<>>, NEW R, R = Items(Tail(s)),
           NEW st, NEW A, Fine(R, st, A), Root \in Planned(R, A)
    PROVE  Good(<<>> \o Tail(s), st, A)
<1>1. PICK D : D = {}
  OBVIOUS
<1>2. R = D \cup R /\ \A d \in D, b \in R : Before(d, b)
  BY <1>1
<1>3. Makes(<<>>, D)
  BY <1>1, MakesNone
<1> QED
  BY <1>2, <1>3, GoodGoesOn

\* One transition at a time.
LEMMA SingleTransition ==
    ASSUME NEW s, IsList(s), Ordered(s)
    PROVE  Single(Items(s))
<1> SUFFICES ASSUME NEW i \in DOMAIN s, NEW j \in DOMAIN s,
                    s[i].op = "entry_up", s[j].op = "entry_up"
             PROVE  s[i] = s[j]
  BY DEF Single, Items
<1>1. Rank(s[i]) = 4 /\ Rank(s[j]) = 4
  BY RankTells
<1>2. ~Before(s[i], s[j]) /\ ~Before(s[j], s[i])
  BY <1>1 DEF Before, RankOrder
<1>3. i \in Int /\ j \in Int
  BY DEF IsList
<1> QED
  BY <1>2, <1>3 DEF Ordered

\* When u is what is to be done after s, what was to leave, to come or to be in
\* still is, and the calls that waited still wait.
Kept(s, u, A) ==
    /\ Planned(Items(s), A) \subseteq Planned(Items(u), A)
    /\ Leaving(Items(s), A) \subseteq Leaving(Items(u), A)
    /\ Coming(Items(s)) \subseteq Coming(Items(u))
    /\ Items(Tail(s)) \subseteq Items(u)

\* A step of a walk, from the calls to the list of them.
LEMMA OnwardIsGood ==
    ASSUME NEW s, NEW st, NEW A, Good(s, st, A), s # <<>>,
           NEW R, R = Items(Tail(s)), NEW I, I = Items(s), NEW D, NEW J, J = D \cup R,
           Onward(I, J, D, R, st, A), NEW calls, Makes(calls, D)
    PROVE  /\ Good(calls \o Tail(s), st, A) /\ Kept(s, calls \o Tail(s), A)
           /\ Items(calls \o Tail(s)) = D \cup Items(Tail(s))
<1>1. /\ IsList(s) /\ Ordered(s) /\ Root \in Planned(I, A)
      /\ Fine(J, st, A) /\ Root \in Planned(J, A)
      /\ Planned(I, A) \subseteq Planned(J, A)
      /\ Leaving(I, A) \subseteq Leaving(J, A) /\ Coming(I) \subseteq Coming(J)
      /\ \A d \in D, b \in R : Before(d, b)
  BY DEF Good, Onward
<1>2. Good(calls \o Tail(s), st, A)
  BY <1>1, GoodGoesOn
<1>3. Items(calls \o Tail(s)) = J
  BY <1>1, MakesFirst, ItemsJoin DEF Makes
<1> QED
  BY <1>1, <1>2, <1>3 DEF Kept

\* The first call becomes the calls D.
Replaced(calls, D) ==
    /\ todo' = calls \o Tail(todo) /\ Makes(calls, D)
    /\ Onward(Items(todo), D \cup Items(Tail(todo)), D, Items(Tail(todo)), state, active)
Becoming(op, D) == todo # <<>> /\ call.op = op /\ \E calls : Replaced(calls, D)

\* What walk_exit_down becomes.
LEMMA ExitDownIs ==
    ASSUME Good(todo, state, active), WalkExitDown
    PROVE  /\ Becoming("exit_down", ExitDownSet(call.node, state[call.node], call.except))
           /\ PointsDown(call.node, state[call.node])
<1>1. PICK c : c = Head(todo)
  OBVIOUS
<1>2. PICK R : R = Items(Tail(todo))
  OBVIOUS
<1>3. PICK I : I = Items(todo)
  OBVIOUS
<1>4. c.op = "exit_down" /\ todo # <<>>
  BY <1>1 DEF WalkExitDown, Calling, call
<1>5. /\ I = {c} \cup R /\ \A b \in R : Before(c, b)
      /\ Fine(I, state, active) /\ IsList(todo) /\ Ordered(todo)
  BY <1>1, <1>2, <1>3, <1>4, GoodOpens DEF Opens, Good
<1>6. PICK D : D = ExitDownSet(c.node, state[c.node], c.except)
  OBVIOUS
<1>7. PICK J : J = D \cup R
  OBVIOUS
<1>8. Onward(I, J, D, R, state, active) /\ PointsDown(c.node, state[c.node])
  BY <1>4, <1>5, <1>6, <1>7, ExitDownKeeps, Zenon
<1>9. Makes(ExitDownCalls(c.node, state[c.node], c.except), D)
  BY <1>6, <1>8, ExitDownMakes DEF PointsDown
<1>10. todo' = ExitDownCalls(c.node, state[c.node], c.except) \o Tail(todo)
  BY <1>1 DEF WalkExitDown, Becomes, call, ExitDownCalls
<1>11. Replaced(ExitDownCalls(c.node, state[c.node], c.except), D)
  BY <1>2, <1>3, <1>7, <1>8, <1>9, <1>10 DEF Replaced
<1> QED
  BY <1>1, <1>4, <1>6, <1>8, <1>11 DEF Becoming, call

\* What walk_exit_up becomes.
LEMMA ExitUpIs ==
    ASSUME Good(todo, state, active), WalkExitUp
    PROVE  /\ Becoming("exit_up",
                       ExitUpSet(call.node, call.ancestor, call.branch, call.flag, state[call.node]))
           /\ PointsDown(call.node, state[call.node])
<1>1. PICK c : c = Head(todo)
  OBVIOUS
<1>2. PICK R : R = Items(Tail(todo))
  OBVIOUS
<1>3. PICK I : I = Items(todo)
  OBVIOUS
<1>4. c.op = "exit_up" /\ todo # <<>>
  BY <1>1 DEF WalkExitUp, Calling, call
<1>5. /\ I = {c} \cup R /\ \A b \in R : Before(c, b)
      /\ Fine(I, state, active) /\ IsList(todo) /\ Ordered(todo)
  BY <1>1, <1>2, <1>3, <1>4, GoodOpens DEF Opens, Good
<1>6. PICK D : D = ExitUpSet(c.node, c.ancestor, c.branch, c.flag, state[c.node])
  OBVIOUS
<1>7. PICK J : J = D \cup R
  OBVIOUS
<1>8. /\ Onward(I, J, D, R, state, active) /\ PointsDown(c.node, state[c.node])
      /\ c.flag \in BOOLEAN
  BY <1>4, <1>5, <1>6, <1>7, ExitUpKeeps, Zenon
<1>9. Makes(ExitUpCalls(c.node, c.ancestor, c.branch, c.flag, state[c.node]), D)
  BY <1>6, <1>8, ExitUpMakes DEF PointsDown
<1>10. todo' = ExitUpCalls(c.node, c.ancestor, c.branch, c.flag, state[c.node]) \o Tail(todo)
  BY <1>1 DEF WalkExitUp, Becomes, call, ExitUpCalls
<1>11. Replaced(ExitUpCalls(c.node, c.ancestor, c.branch, c.flag, state[c.node]), D)
  BY <1>2, <1>3, <1>7, <1>8, <1>9, <1>10 DEF Replaced
<1> QED
  BY <1>1, <1>4, <1>6, <1>8, <1>11 DEF Becoming, call

\* What walk_entry_down becomes.
LEMMA EntryDownIs ==
    ASSUME Good(todo, state, active), WalkEntryDown
    PROVE  /\ Becoming("entry_down", EntryDownSet(call.node, DefaultChild[call.node]))
           /\ PointsDown(call.node, DefaultChild[call.node])
<1>1. PICK c : c = Head(todo)
  OBVIOUS
<1>2. PICK R : R = Items(Tail(todo))
  OBVIOUS
<1>3. PICK I : I = Items(todo)
  OBVIOUS
<1>4. c.op = "entry_down" /\ todo # <<>>
  BY <1>1 DEF WalkEntryDown, Calling, call
<1>5. /\ I = {c} \cup R /\ \A b \in R : Before(c, b)
      /\ Fine(I, state, active) /\ IsList(todo) /\ Ordered(todo)
  BY <1>1, <1>2, <1>3, <1>4, GoodOpens DEF Opens, Good
<1>6. PICK D : D = EntryDownSet(c.node, DefaultChild[c.node])
  OBVIOUS
<1>7. PICK J : J = D \cup R
  OBVIOUS
<1>8. /\ Onward(I, J, D, R, state, active)
      /\ PointsDown(c.node, DefaultChild[c.node]) /\ NoException(c)
  BY <1>4, <1>5, <1>6, <1>7, EntryDownKeeps, Zenon
<1>9. Makes(EntryDownCalls(c.node, DefaultChild[c.node]), D)
  BY <1>6, <1>8, EntryDownMakes DEF PointsDown
<1>10. todo' = EntryDownCalls(c.node, DefaultChild[c.node]) \o Tail(todo)
  <2>1. c.except = NoNode /\ c.node # NoNode
    BY <1>8, RootIsNode DEF NoException, PointsDown
  <2>2. todo' = When(TRUE, <<CallEntry(c.node)>>
                   \o When(DefaultChild[c.node] # NoNode,
                           <<SetState(c.node, DefaultChild[c.node]), EntryDown(DefaultChild[c.node], NoNode)>>)
                   \o When(Parallel(c.node), <<EntryDown(children[c.node], NoNode)>>))
            \o When(NextRegion(c.node) # NoNode, <<EntryDown(NextRegion(c.node), NoNode)>>)
            \o Tail(todo)
    BY <1>1, <2>1 DEF WalkEntryDown, Becomes, call
  <2> QED
    BY <2>2 DEF EntryDownCalls, When
<1>11. Replaced(EntryDownCalls(c.node, DefaultChild[c.node]), D)
  BY <1>2, <1>3, <1>7, <1>8, <1>9, <1>10 DEF Replaced
<1> QED
  BY <1>1, <1>4, <1>6, <1>8, <1>11 DEF Becoming, call

\* What walk_entry_up becomes.
LEMMA EntryUpIs ==
    ASSUME Good(todo, state, active), WalkEntryUp
    PROVE  /\ Becoming("entry_up", EntryUpSet(call.node, call.ancestor, call.branch, call.flag))
           /\ GoesUp(call) /\ (call.branch = NoNode => call.node # call.ancestor \/ call.flag = TRUE)
<1>1. PICK c : c = Head(todo)
  OBVIOUS
<1>2. PICK R : R = Items(Tail(todo))
  OBVIOUS
<1>3. PICK I : I = Items(todo)
  OBVIOUS
<1>4. c.op = "entry_up" /\ todo # <<>>
  BY <1>1 DEF WalkEntryUp, Calling, call
<1>5. /\ I = {c} \cup R /\ \A b \in R : Before(c, b)
      /\ Fine(I, state, active) /\ IsList(todo) /\ Ordered(todo)
  BY <1>1, <1>2, <1>3, <1>4, GoodOpens DEF Opens, Good
<1>6. PICK D : D = EntryUpSet(c.node, c.ancestor, c.branch, c.flag)
  OBVIOUS
<1>7. PICK J : J = D \cup R
  OBVIOUS
<1>8. Onward(I, J, D, R, state, active) /\ GoesUp(c)
  BY <1>4, <1>5, <1>6, <1>7, EntryUpKeeps, Zenon
<1>9. Makes(EntryUpCalls(c.node, c.ancestor, c.branch, c.flag), D)
  BY <1>6, <1>8, EntryUpMakes DEF GoesUp
<1>10. todo' = EntryUpCalls(c.node, c.ancestor, c.branch, c.flag) \o Tail(todo)
  BY <1>1 DEF WalkEntryUp, Becomes, call, EntryUpCalls
<1>11. Replaced(EntryUpCalls(c.node, c.ancestor, c.branch, c.flag), D)
  BY <1>2, <1>3, <1>7, <1>8, <1>9, <1>10 DEF Replaced
<1>12. c.branch = NoNode => c.node # c.ancestor \/ c.flag = TRUE
  BY <1>4, <1>5 DEF Fine, Each, EntryUpFine
<1> QED
  BY <1>1, <1>4, <1>6, <1>8, <1>11, <1>12 DEF Becoming, call

\* A walk that leaves or enters makes a good list of a good one.
LEMMA WalksGood ==
    ASSUME Good(todo, state, active),
           WalkExitDown \/ WalkExitUp \/ WalkEntryDown \/ WalkEntryUp
    PROVE  Good(todo', state, active) /\ Kept(todo, todo', active)
<1>1. todo # <<>> /\ \E calls, D : Replaced(calls, D)
  BY ExitDownIs, ExitUpIs, EntryDownIs, EntryUpIs DEF Becoming
<1>2. PICK calls, D : Replaced(calls, D)
  BY <1>1
<1>3. /\ todo' = calls \o Tail(todo) /\ Makes(calls, D)
      /\ Onward(Items(todo), D \cup Items(Tail(todo)), D, Items(Tail(todo)), state, active)
  BY <1>2 DEF Replaced
<1> QED
  BY <1>1, <1>3, OnwardIsGood

\* walk_event makes a good list of a good one when the event goes on.
LEMMA PassOnGood ==
    ASSUME Good(todo, state, active), PassOn
    PROVE  /\ Good(todo', state, active) /\ Kept(todo, todo', active)
           /\ Items(todo') = OthersSet(call.node, call.event, call.last) \cup Items(Tail(todo))
           /\ call.node \in Node
<1>1. PICK c : c = Head(todo)
  OBVIOUS
<1>2. PICK R : R = Items(Tail(todo))
  OBVIOUS
<1>3. PICK I : I = Items(todo)
  OBVIOUS
<1>4. c.op = "event" /\ todo # <<>>
  BY <1>1 DEF PassOn, Calling, call
<1>5. /\ I = {c} \cup R /\ \A b \in R : Before(c, b)
      /\ Fine(I, state, active) /\ Root \in Planned(I, active)
      /\ IsList(todo) /\ Ordered(todo)
  BY <1>1, <1>2, <1>3, <1>4, GoodOpens DEF Opens, Good
<1>6. PICK D : D = OthersSet(c.node, c.event, c.last)
  OBVIOUS
<1>7. PICK J : J = D \cup R
  OBVIOUS
<1>8. Onward(I, J, D, R, state, active) /\ c.node \in Node
  BY <1>4, <1>5, <1>6, <1>7, PassOnKeeps, Zenon
<1>9. Makes(Others(c.node, c.event, c.last), D)
  BY <1>6, <1>8, OthersMakes
<1>10. todo' = Others(c.node, c.event, c.last) \o Tail(todo) /\ c = call
  BY <1>1 DEF PassOn, Becomes, call
<1>11. /\ Good(todo', state, active) /\ Kept(todo, todo', active)
       /\ Items(todo') = D \cup Items(Tail(todo))
  BY <1>2, <1>3, <1>4, <1>7, <1>8, <1>9, <1>10, OnwardIsGood
<1> QED
  BY <1>6, <1>8, <1>10, <1>11

DescendCalls(s, e, last) == When(s # NoNode, <<WalkEvent(s, e, last)>>)

\* The same where it follows the current sub-state.
LEMMA DescendGood ==
    ASSUME Good(todo, state, active), Descend
    PROVE  /\ Good(todo', state, active) /\ Kept(todo, todo', active)
           /\ Items(todo') = DescendSet(call.node, state[call.node], call.event, call.last)
                               \cup Items(Tail(todo))
<1>1. PICK c : c = Head(todo)
  OBVIOUS
<1>2. PICK R : R = Items(Tail(todo))
  OBVIOUS
<1>3. PICK I : I = Items(todo)
  OBVIOUS
<1>4. c.op = "descend" /\ todo # <<>>
  BY <1>1 DEF Descend, Calling, call
<1>5. /\ I = {c} \cup R /\ \A b \in R : Before(c, b)
      /\ Fine(I, state, active) /\ Root \in Planned(I, active)
      /\ IsList(todo) /\ Ordered(todo)
  BY <1>1, <1>2, <1>3, <1>4, GoodOpens DEF Opens, Good
<1>6. PICK D : D = DescendSet(c.node, state[c.node], c.event, c.last)
  OBVIOUS
<1>7. PICK J : J = D \cup R
  OBVIOUS
<1>8. Onward(I, J, D, R, state, active)
  BY <1>4, <1>5, <1>6, <1>7, DescendKeeps, Zenon
<1>9. Makes(DescendCalls(state[c.node], c.event, c.last), D)
  BY <1>6, MakesOne, MakesNone DEF DescendCalls, DescendSet, When
<1>10. todo' = DescendCalls(state[c.node], c.event, c.last) \o Tail(todo) /\ c = call
  BY <1>1 DEF Descend, Becomes, call, DescendCalls
<1>11. /\ Good(todo', state, active) /\ Kept(todo, todo', active)
       /\ Items(todo') = D \cup Items(Tail(todo))
  BY <1>2, <1>3, <1>4, <1>7, <1>8, <1>9, <1>10, OnwardIsGood
<1> QED
  BY <1>6, <1>10, <1>11

\* set_state leaves a good list.
LEMMA AssignStateGood ==
    ASSUME Good(todo, state, active), AssignState
    PROVE  Good(todo', state', active)
<1>1. PICK c : c = Head(todo)
  OBVIOUS
<1>2. PICK R : R = Items(Tail(todo))
  OBVIOUS
<1>3. PICK I : I = Items(todo)
  OBVIOUS
<1>4. c.op = "set_state" /\ todo # <<>>
  BY <1>1 DEF AssignState, Calling, call
<1>5. /\ I = {c} \cup R /\ \A b \in R : Before(c, b)
      /\ Fine(I, state, active) /\ Root \in Planned(I, active)
      /\ IsList(todo) /\ Ordered(todo)
  BY <1>1, <1>2, <1>3, <1>4, GoodOpens DEF Opens, Good
<1>6. PICK su : su = [state EXCEPT ![c.node] = c.value]
  OBVIOUS
<1>7. Single(I)
  BY <1>3, <1>5, SingleTransition
<1>8. Fine(R, su, active) /\ SamePlan(I, R, active)
  <2>1. CASE c.value = NoNode
    <3>1. su = [state EXCEPT ![c.node] = NoNode]
      BY <1>6, <2>1
    <3> QED
      BY <1>4, <1>5, <1>7, <2>1, <3>1, ClearKeeps, Zenon
  <2>2. CASE c.value # NoNode
    BY <1>4, <1>5, <1>6, <2>2, SetKeeps, Zenon
  <2> QED
    BY <2>1, <2>2
<1>9. todo' = <<>> \o Tail(todo) /\ state' = su
  BY <1>1, <1>6 DEF AssignState, Assigned, Becomes, call
<1>10. Root \in Planned(R, active)
  BY <1>5, <1>8 DEF SamePlan
<1> QED
  BY <1>2, <1>4, <1>5, <1>8, <1>9, <1>10, GoodEnds

\* A call with exit leaves a good list.
LEMMA RunExitGood ==
    ASSUME Good(todo, state, active), RunExit, NEW B, B = active \ {call.node}
    PROVE  Good(todo', state, B) /\ call.node \in active
<1>1. PICK c : c = Head(todo)
  OBVIOUS
<1>2. PICK R : R = Items(Tail(todo))
  OBVIOUS
<1>3. PICK I : I = Items(todo)
  OBVIOUS
<1>4. c.op = "exit" /\ todo # <<>>
  BY <1>1 DEF RunExit, Calling, call
<1>5. /\ I = {c} \cup R /\ \A b \in R : Before(c, b)
      /\ Fine(I, state, active) /\ Root \in Planned(I, active)
      /\ IsList(todo) /\ Ordered(todo)
  BY <1>1, <1>2, <1>3, <1>4, GoodOpens DEF Opens, Good
<1>6. B = active \ {c.node} /\ c = call
  BY <1>1 DEF call
<1>7. Fine(R, state, B) /\ PlanStays(I, active, R, B) /\ c.node \in active
  BY <1>4, <1>5, <1>6, CallExitKeeps, Zenon
<1>8. todo' = <<>> \o Tail(todo)
  BY DEF RunExit, Becomes
<1>9. Root \in Planned(R, B)
  BY <1>5, <1>7 DEF PlanStays
<1>10. Good(<<>> \o Tail(todo), state, B)
  BY <1>2, <1>4, <1>5, <1>7, <1>9, GoodEnds
<1> QED
  BY <1>6, <1>7, <1>8, <1>10

\* A call with entry leaves a good list.
LEMMA RunEntryGood ==
    ASSUME Good(todo, state, active), RunEntry, NEW B, B = active \cup {call.node}
    PROVE  Good(todo', state, B) /\ MayEnter(call.node, active)
<1>1. PICK c : c = Head(todo)
  OBVIOUS
<1>2. PICK R : R = Items(Tail(todo))
  OBVIOUS
<1>3. PICK I : I = Items(todo)
  OBVIOUS
<1>4. c.op = "entry" /\ todo # <<>>
  BY <1>1 DEF RunEntry, Calling, call
<1>5. /\ I = {c} \cup R /\ \A b \in R : Before(c, b)
      /\ Fine(I, state, active) /\ Root \in Planned(I, active)
      /\ IsList(todo) /\ Ordered(todo)
  BY <1>1, <1>2, <1>3, <1>4, GoodOpens DEF Opens, Good
<1>6. B = active \cup {c.node} /\ c = call
  BY <1>1 DEF call
<1>7. Fine(R, state, B) /\ PlanStays(I, active, R, B) /\ MayEnter(c.node, active)
  BY <1>4, <1>5, <1>6, CallEntryKeeps, Zenon
<1>8. todo' = <<>> \o Tail(todo)
  BY DEF RunEntry, Becomes
<1>9. Root \in Planned(R, B)
  BY <1>5, <1>7 DEF PlanStays
<1>10. Good(<<>> \o Tail(todo), state, B)
  BY <1>2, <1>4, <1>5, <1>7, <1>9, GoodEnds
<1> QED
  BY <1>6, <1>7, <1>8, <1>10

\* A call that makes no others and that neither leaves nor enters.
LEMMA EndGood ==
    ASSUME Good(todo, state, active), todo # <<>>, NEW c, c = Head(todo),
           Rank(c) \in {3, 6, 7, 8}
    PROVE  Good(<<>> \o Tail(todo), state, active)
<1>1. PICK R : R = Items(Tail(todo))
  OBVIOUS
<1>2. PICK I : I = Items(todo)
  OBVIOUS
<1>3. /\ I = {c} \cup R /\ Fine(I, state, active) /\ Root \in Planned(I, active)
      /\ IsList(todo) /\ Ordered(todo)
  BY <1>1, <1>2, GoodOpens DEF Opens, Good
<1>4. Ends(I, R, state, active)
  <2>1. Lasting(c)
    BY DEF Lasting
  <2> QED
    BY <1>3, <2>1, EndKeeps, Zenon
<1>5. Fine(R, state, active) /\ Root \in Planned(R, active)
  BY <1>3, <1>4 DEF Ends, SamePlan
<1> QED
  BY <1>1, <1>3, <1>5, GoodEnds

\* The other calls that return leave a good list.
LEMMA EndsGood ==
    ASSUME Good(todo, state, active),
           LeaveDone \/ ArriveDone \/ JumpsDone \/ Pop \/ TriggerAgain
    PROVE  Good(todo', state, active)
<1>1. PICK c : c = Head(todo)
  OBVIOUS
<1>2. c.op \in {"leave", "arrive", "jump", "pop", "retrigger"} /\ todo # <<>>
  BY <1>1 DEF LeaveDone, ArriveDone, JumpsDone, Pop, TriggerAgain, Calling
<1>3. Rank(c) \in {3, 6, 7, 8}
  BY <1>2 DEF Rank
<1>4. todo' = <<>> \o Tail(todo)
  BY DEF LeaveDone, ArriveDone, JumpsDone, Pop, TriggerAgain, Becomes
<1> QED
  BY <1>1, <1>2, <1>3, <1>4, EndGood

\* vivid_queue_front with an event makes a good list of a good one.
LEMMA TakeEventGood ==
    ASSUME Good(todo, state, active), TakeEvent
    PROVE  Good(todo', state, active)
<1>1. PICK c : c = Head(todo)
  OBVIOUS
<1>2. PICK R : R = Items(Tail(todo))
  OBVIOUS
<1>3. PICK I : I = Items(todo)
  OBVIOUS
<1>4. c.op = "take" /\ todo # <<>>
  BY <1>1 DEF TakeEvent, Calling, call
<1>5. /\ I = {c} \cup R /\ \A b \in R : Before(c, b)
      /\ Fine(I, state, active) /\ Root \in Planned(I, active)
      /\ IsList(todo) /\ Ordered(todo)
  BY <1>1, <1>2, <1>3, <1>4, GoodOpens DEF Opens, Good
<1>6. Rank(c) = 8
  BY <1>4 DEF Rank
<1>7. CASE queue = <<>>
  <2>1. todo' = <<>> \o Tail(todo)
    BY <1>7 DEF TakeEvent, Becomes, When
  <2> QED
    BY <1>1, <1>4, <1>6, <2>1, EndGood
<1>8. CASE queue # <<>>
  <2>1. PICK e : e = Head(queue)
    OBVIOUS
  <2>2. PICK D : D = OneTake(e)
    OBVIOUS
  <2>3. PICK J : J = D \cup R
    OBVIOUS
  <2>4. Fine(J, state, active) /\ SamePlan(I, J, active) /\ \A d \in D, b \in R : Before(d, b)
    BY <1>5, <1>6, <2>2, <2>3, TakeKeeps, Zenon
  <2>5. PICK calls : calls = <<WalkEvent(Root, e, NoEvent), RunJumps(e), PopEvent, Retrigger>>
    OBVIOUS
  <2>6. Makes(calls, D)
    BY <2>2, <2>5, TakeMakes
  <2>7. todo' = calls \o Tail(todo)
    BY <1>8, <2>1, <2>5 DEF TakeEvent, Becomes, When
  <2>8. Root \in Planned(J, active)
    BY <1>5, <2>4 DEF SamePlan
  <2> QED
    BY <1>2, <1>4, <1>5, <2>3, <2>4, <2>6, <2>7, <2>8, GoodGoesOn
<1> QED
  BY <1>7, <1>8

\* A jump walk makes a good list of a good one.
LEMMA JumpAgainGood ==
    ASSUME Good(todo, state, active), JumpAgain
    PROVE  Good(todo', state, active)
<1>1. PICK c : c = Head(todo)
  OBVIOUS
<1>2. PICK R : R = Items(Tail(todo))
  OBVIOUS
<1>3. PICK I : I = Items(todo)
  OBVIOUS
<1>4. c.op = "jump" /\ todo # <<>>
  BY <1>1 DEF JumpAgain, Calling, call
<1>5. /\ I = {c} \cup R /\ \A b \in R : Before(c, b)
      /\ Fine(I, state, active) /\ Root \in Planned(I, active)
      /\ IsList(todo) /\ Ordered(todo)
  BY <1>1, <1>2, <1>3, <1>4, GoodOpens DEF Opens, Good
<1>6. Rank(c) = 8
  BY <1>4 DEF Rank
<1>7. PICK d : d = WalkEvent(Root, Jump, c.last)
  OBVIOUS
<1>8. PICK J : J = {d} \cup I
  OBVIOUS
<1>9. Ends(I, J, state, active) /\ BeforeAll(d, I)
  <2>1. Offers(d)
    BY <1>7 DEF Offers
  <2> QED
    BY <1>5, <1>6, <1>8, <2>1, JumpKeeps, Zenon
<1>10. Makes(todo, I) /\ Makes(<<d>>, {d})
  BY <1>3, <1>5, MakesOne DEF Makes
<1>11. \A b \in {d}, g \in I : Before(b, g)
  BY <1>9 DEF BeforeAll
<1>12. Makes(<<d>> \o todo, {d} \cup I)
  BY <1>10, <1>11, MakesJoin
<1>13. todo' = <<d>> \o todo
  BY <1>1, <1>7 DEF JumpAgain, call
<1>14. Root \in Planned(J, active)
  BY <1>5, <1>9 DEF Ends, SamePlan
<1> QED
  BY <1>8, <1>9, <1>12, <1>13, <1>14 DEF Makes, Good, Ends

\* The clauses are what TreeAssumption says.
LEMMA ClauseType ==
    ASSUME NEW n \in Node, NEW i \in DOMAIN Clauses[n]
    PROVE  Clauses[n][i] \in Clause
<1>1. Clauses[n] \in Seq(Clause)
  BY TreeAssumption
<1> QED
  BY <1>1

\* The transition that a clause of the node called asks for.
TransitCalls(n, t, a, f) ==
    <<ExitUp(n, a, NoNode, f), Leave, EntryUp(t, a, NoNode, f), Arrive(n, t)>>
Asked(t, a, f) ==
    /\ Drawn(call.node, t, a, f) /\ Held(call.node, t) /\ t \in Targets(call.node)
    /\ todo' = TransitCalls(call.node, t, a, f) \o Tail(todo)
    /\ \E i \in DOMAIN Clauses[call.node] : Clauses[call.node][i].on = call.event

\* The step of a transition makes the four calls of a drawn one.
LEMMA MakeTransitionIs ==
    ASSUME Supported, Good(todo, state, active), MakeTransition
    PROVE  \E t, a, f : Asked(t, a, f)
<1>1. PICK c : c = Head(todo)
  OBVIOUS
<1>2. c.op = "event" /\ todo # <<>> /\ c = call
  BY <1>1 DEF MakeTransition, Calling, call
<1>3. PICK I : I = Items(todo)
  OBVIOUS
<1>4. c \in I /\ Fine(I, state, active)
  BY <1>1, <1>2, <1>3, GoodOpens DEF Opens
<1>5. PICK n : n = c.node
  OBVIOUS
<1>6. n \in Node
  BY <1>2, <1>4, <1>5 DEF Fine, Each, EventFine
<1>7. PICK i \in Taken(n, c.event, c.last) :
         Clauses[n][i].target # NoNode /\ Transit(n, Clauses[n][i].target)
  BY <1>2, <1>5 DEF MakeTransition
<1>8. PICK t : t = Clauses[n][i].target
  OBVIOUS
<1>9. i \in DOMAIN Clauses[n] /\ Clauses[n][i].on = c.event
  BY DEF Taken, Matching
<1>10. t \in Targets(n) /\ t \in Node
  <2>1. Clauses[n][i] \in Clause
    BY <1>6, <1>9, ClauseType
  <2> QED
    BY <1>7, <1>8, <1>9, <2>1 DEF Targets, Clause
<1>11. PICK a : a = Ancestor(n, t)
  OBVIOUS
<1>12. PICK f : f = Reenter(n, t, a)
  OBVIOUS
<1>13. Drawn(n, t, a, f)
  BY <1>6, <1>10, <1>11, <1>12, DrawnAs
<1>14. Held(n, t)
  BY <1>6, <1>10 DEF Supported, Held
<1>15. todo' = TransitCalls(n, t, a, f) \o Tail(todo)
  BY <1>7, <1>8, <1>11, <1>12 DEF Transit, Becomes, TransitCalls
<1>16. Asked(t, a, f)
  BY <1>2, <1>5, <1>9, <1>10, <1>13, <1>14, <1>15 DEF Asked
<1> QED
  BY <1>16

\* A transition makes a good list of a good one.
LEMMA MakeTransitionGood ==
    ASSUME Supported, Good(todo, state, active), MakeTransition
    PROVE  Good(todo', state, active)
<1>1. PICK c : c = Head(todo)
  OBVIOUS
<1>2. PICK R : R = Items(Tail(todo))
  OBVIOUS
<1>3. PICK I : I = Items(todo)
  OBVIOUS
<1>4. c.op = "event" /\ todo # <<>> /\ c = call
  BY <1>1 DEF MakeTransition, Calling, call
<1>5. /\ I = {c} \cup R /\ \A b \in R : Before(c, b)
      /\ Fine(I, state, active) /\ Root \in Planned(I, active)
      /\ IsList(todo) /\ Ordered(todo)
  BY <1>1, <1>2, <1>3, <1>4, GoodOpens DEF Opens, Good
<1>6. PICK n : n = c.node
  OBVIOUS
<1>7. PICK t, a, f : Asked(t, a, f)
  BY MakeTransitionIs
<1>8. Drawn(n, t, a, f) /\ Held(n, t) /\ todo' = TransitCalls(n, t, a, f) \o Tail(todo)
  BY <1>4, <1>6, <1>7 DEF Asked
<1>9. PICK D : D = TransitSet(n, t, a, f)
  OBVIOUS
<1>10. PICK J : J = D \cup R
  OBVIOUS
<1>11. Transits(J, D, R, state, active)
  BY <1>4, <1>5, <1>6, <1>8, <1>9, <1>10, TransitKeeps, Zenon
<1>12. Makes(TransitCalls(n, t, a, f), D)
  BY <1>8, <1>9, TransitMakes DEF TransitCalls
<1> QED
  BY <1>2, <1>4, <1>5, <1>8, <1>10, <1>11, <1>12, GoodGoesOn DEF Transits

\* Calls that neither leave nor enter, and that no walk is among, ask nothing
\* more of a settled machine.
LEMMA SettledIsFine ==
    ASSUME NEW st, NEW A, Settled(st, A), NEW J, \A b \in J : Rank(b) = 8
    PROVE  Fine(J, st, A) /\ Planned(J, A) = A
<1>1. \A b \in J : Rank(b) >= 6
  OBVIOUS
<1>2. /\ Staying(J, A) = A /\ Clearing(J) = {} /\ Again(J) = {}
      /\ Coming(J) = {} /\ Starting(J) = {} /\ Soon(J) = {} /\ Planned(J, A) = A
  BY <1>1, DoneSets
<1>3. Nested(J, A)
  BY <1>2 DEF Nested, Settled
<1>4. Pointers(J, st, A)
  BY <1>2 DEF Pointers, Settled
<1>5. Plan(J, A)
  BY <1>2 DEF Plan, Settled
<1>6. ASSUME NEW b \in J
      PROVE  /\ ExitWhole(b, A)
             /\ ExitFine(b, J, A) /\ ExitDownFine(b, J, A) /\ ExitUpFine(b, J, st, A)
             /\ ClearFine(b, J, A) /\ SetFine(b, J)
             /\ EntryFine(b, J, st) /\ EntryDownFine(b, J, st) /\ EntryUpFine(b, J, st, A)
             /\ ArriveFine(b, J, A) /\ EventFine(b, J, A)
  <2>1. Rank(b) = 8 /\ Rank(b) >= 4
    OBVIOUS
  <2>2. /\ ExitWhole(b, A) /\ ExitFine(b, J, A) /\ ExitDownFine(b, J, A)
        /\ ExitUpFine(b, J, st, A) /\ ClearFine(b, J, A)
    BY <2>1, NoExits
  <2>3. b.op \notin {"entry", "entry_down", "entry_up", "arrive", "set_state", "event", "descend"}
    BY <2>1 DEF Rank
  <2> QED
    BY <2>2, <2>3 DEF SetFine, EntryFine, EntryDownFine, EntryUpFine, ArriveFine, EventFine
<1>7. Each(J, st, A)
  BY <1>6 DEF Each
<1> QED
  BY <1>2, <1>3, <1>4, <1>5, <1>7 DEF Fine

FirstSet == {EntryDown(Root, NoNode), RunJumps(NoEvent), Take}

\* The first callback enters the root, with everything closed.
LEMMA FirstWalk ==
    ASSUME NEW st, NEW A, A = {}, Settled(st, A), NEW J, J = FirstSet
    PROVE  Fine(J, st, A) /\ Root \in Planned(J, A)
<1> PICK d : d = EntryDown(Root, NoNode)
  OBVIOUS
<1> PICK L : L = {RunJumps(NoEvent), Take}
  OBVIOUS
<1>1. J = {d} \cup L
  BY DEF FirstSet
<1>2. \A b \in L : Rank(b) = 8
  BY OfLast
<1>3. Root \in Node /\ NoNode \notin Node /\ ~Region(Root)
  BY RootIsNode DEF Region
<1>4. Chain(Root) = {Root}
  BY <1>3, ChainAlone
<1>5. Rank(d) = 5 /\ Inward(d) /\ Sets(d) = {} /\ Enters(d) = {Root} /\ Tops(d) = {Root}
  BY <1>3, <1>4, OfEntryDown
<1>6. d.op = "entry_down" /\ d.node = Root /\ d.except = NoNode
  BY DEF EntryDown
<1>7. \A b \in L : Exits(b) = {} /\ Clears(b) = {} /\ Enters(b) = {} /\ Tops(b) = {}
  BY <1>2, RankTells
<1>8. Leaving(J, A) = {} /\ Staying(J, A) = {}
  BY DEF Leaving, Staying
<1>9. Coming(J) = {Root} /\ Starting(J) = {Root} /\ Clearing(J) = {}
  BY <1>1, <1>3, <1>5, <1>7 DEF Coming, Starting, Clearing, Inward
<1>10. Planned(J, A) = {Root}
  BY <1>8, <1>9 DEF Planned
<1>11. Nested(J, A)
  BY <1>8 DEF Nested
<1>12. Pointers(J, st, A)
  BY DEF Pointers, Settled
<1>13. \A n \in Node : Kids(n) \cap {Root} = {}
  BY DEF Kids
<1>14. Plan(J, A)
  BY <1>8, <1>9, <1>10, <1>13 DEF Plan
<1>15. ASSUME NEW b \in J
       PROVE  /\ ExitWhole(b, A)
              /\ ExitFine(b, J, A) /\ ExitDownFine(b, J, A) /\ ExitUpFine(b, J, st, A)
              /\ ClearFine(b, J, A) /\ SetFine(b, J)
              /\ EntryFine(b, J, st) /\ EntryDownFine(b, J, st) /\ EntryUpFine(b, J, st, A)
              /\ ArriveFine(b, J, A) /\ EventFine(b, J, A)
  <2>1. Rank(b) >= 4
    BY <1>1, <1>2, <1>5
  <2>2. /\ ExitWhole(b, A) /\ ExitFine(b, J, A) /\ ExitDownFine(b, J, A)
        /\ ExitUpFine(b, J, st, A) /\ ClearFine(b, J, A)
    BY <2>1, NoExits
  <2>3. CASE b \in L
    <3>1. b.op \notin {"entry", "entry_down", "entry_up", "arrive", "set_state", "event", "descend"}
      BY <1>2, <2>3 DEF Rank
    <3> QED
      BY <2>2, <3>1 DEF SetFine, EntryFine, EntryDownFine, EntryUpFine, ArriveFine, EventFine
  <2>4. CASE b = d
    <3>1. Kids(Root) \cap Coming(J) = {} /\ PointerSet(Root, J, st)
      BY <1>3, <1>9, <1>13 DEF PointerSet
    <3>2. EntryDownFine(b, J, st)
      BY <1>3, <1>4, <1>6, <2>4, <3>1 DEF EntryDownFine
    <3> QED
      BY <1>6, <2>2, <2>4, <3>2 DEF SetFine, EntryFine, EntryUpFine, ArriveFine, EventFine
  <2> QED
    BY <1>1, <2>3, <2>4
<1>16. Each(J, st, A)
  BY <1>15 DEF Each
<1> QED
  BY <1>10, <1>11, <1>12, <1>14, <1>16 DEF Fine

\* The calls of the first callback.
LEMMA FirstMakes == Makes(InitialWalk \o <<Take>>, FirstSet)
<1> PICK d : d = EntryDown(Root, NoNode)
  OBVIOUS
<1> PICK j : j = RunJumps(NoEvent)
  OBVIOUS
<1>1. Rank(d) \in 1 .. 8 /\ Rank(j) \in 1 .. 8 /\ Rank(j) = 8 /\ Rank(Take) = 8
  BY RankType, OfLast
<1>2. Before(d, j) /\ Before(d, Take) /\ Before(j, Take)
  BY <1>1, LastOfAll
<1>3. Makes(<<d, j>>, {d, j}) /\ Makes(<<Take>>, {Take})
  BY <1>2, MakesTwo, MakesOne
<1>4. \A a \in {d, j}, b \in {Take} : Before(a, b)
  BY <1>2
<1>5. Makes(<<d, j>> \o <<Take>>, {d, j} \cup {Take})
  BY <1>3, <1>4, MakesJoin
<1> QED
  BY <1>5 DEF InitialWalk, FirstSet

\* Between two callbacks the machine is settled.
LEMMA AtRest ==
    ASSUME EngineInv, todo = <<>>
    PROVE  Settled(state, active) /\ (init => active = {}) /\ (~init => Root \in active)
<1>1. PICK I : I = Items(todo)
  OBVIOUS
<1>2. I = {}
  BY <1>1 DEF Items
<1>3. \A b \in I : Rank(b) >= 6
  BY <1>2
<1>4. Fine(I, state, active)
  BY <1>1 DEF EngineInv
<1>5. Settled(state, active)
  BY <1>3, <1>4, SettledWhenDone
<1>6. Planned(I, active) = active
  BY <1>3, DoneSets
<1> QED
  BY <1>1, <1>5, <1>6 DEF EngineInv

\* The callback begins with a good list.
LEMMA EventCallbackGood ==
    ASSUME EngineInv, EventCallback
    PROVE  Good(todo', state, active)
<1>1. todo = <<>>
  BY DEF EventCallback
<1>2. Settled(state, active) /\ (init => active = {}) /\ (~init => Root \in active)
  BY <1>1, AtRest
<1>3. CASE init
  <2>1. todo' = InitialWalk \o <<Take>>
    BY <1>3 DEF EventCallback, When
  <2>2. PICK J : J = FirstSet
    OBVIOUS
  <2>3. PICK A : A = active
    OBVIOUS
  <2>4. Fine(J, state, A) /\ Root \in Planned(J, A)
    BY <1>2, <1>3, <2>2, <2>3, FirstWalk
  <2>5. Makes(todo', J)
    BY <2>1, <2>2, FirstMakes
  <2> QED
    BY <2>3, <2>4, <2>5 DEF Good, Makes
<1>4. CASE ~init
  <2>1. todo' = <<>> \o <<Take>>
    BY <1>4 DEF EventCallback, When
  <2>2. <<>> \o <<Take>> = <<Take>>
    OBVIOUS
  <2>3. PICK J : J = {Take}
    OBVIOUS
  <2>4. Makes(todo', J)
    BY <2>1, <2>2, <2>3, MakesOne
  <2>5. \A b \in J : Rank(b) = 8
    BY <2>3, OfLast
  <2>6. Fine(J, state, active) /\ Planned(J, active) = active
    BY <1>2, <2>5, SettledIsFine
  <2> QED
    BY <1>2, <1>4, <2>4, <2>6 DEF Good, Makes
<1> QED
  BY <1>3, <1>4

--------------------------------------------------------------------------------
(* The invariant *)

\* The invariant holds at first.
LEMMA InitGood == Init => EngineInv
<1> SUFFICES ASSUME Init PROVE EngineInv
  OBVIOUS
<1>1. stays \in [Node -> {0, 1}] /\ active = {} /\ todo = <<>> /\ init
      /\ state = [n \in Node |-> NoNode]
  BY DEF Init, active
<1>2. Settled(state, active)
  BY <1>1, RootIsNode DEF Settled
<1>3. Makes(todo, {})
  BY <1>1, MakesNone
<1>4. PICK J : J = {}
  OBVIOUS
<1>5. \A b \in J : Rank(b) = 8
  BY <1>4
<1>6. Fine(J, state, active)
  BY <1>2, <1>5, SettledIsFine
<1> QED
  BY <1>1, <1>3, <1>4, <1>6 DEF EngineInv, Makes

\* The invariant from its parts.
LEMMA GoodIsInv ==
    ASSUME Good(todo', state', active'), stays' \in [Node -> {0, 1}], ~init'
    PROVE  EngineInv'
  BY DEF EngineInv, Good

\* The parts of the invariant while the callback runs.
LEMMA InvIsGood ==
    ASSUME EngineInv, todo # <<>>
    PROVE  Good(todo, state, active) /\ ~init
  BY DEF EngineInv, Good

\* Nothing the calls depend on has changed.
LEMMA InvStays ==
    ASSUME EngineInv, todo' = todo, state' = state, stays' = stays, init' = init
    PROVE  EngineInv'
<1>1. active' = active
  BY DEF active
<1> QED
  BY <1>1 DEF EngineInv

\* Who is in depends on the count of stays.
LEMMA ActiveStays ==
    ASSUME stays' = stays
    PROVE  active' = active
  BY DEF active

\* A step of a walk.
WalkStep ==
    \/ WalkEntryDown \/ WalkEntryUp \/ WalkExitDown \/ WalkExitUp
    \/ PassOn \/ Descend \/ MakeTransition
    \/ LeaveDone \/ ArriveDone \/ TakeEvent \/ JumpAgain \/ JumpsDone \/ Pop \/ TriggerAgain

\* The steps of the walks move nobody and no pointer.
LEMMA WalkStepIs ==
    ASSUME WalkStep
    PROVE  todo # <<>> /\ stays' = stays /\ state' = state /\ init' = init
<1>1. CASE WalkEntryDown \/ WalkEntryUp \/ WalkExitDown \/ WalkExitUp
  BY <1>1 DEF WalkEntryDown, WalkEntryUp, WalkExitDown, WalkExitUp, Calling, engine, history
<1>2. CASE PassOn \/ Descend \/ MakeTransition
  BY <1>2 DEF PassOn, Descend, MakeTransition, Calling, engine, history
<1>3. CASE LeaveDone \/ ArriveDone \/ TakeEvent \/ JumpAgain
  BY <1>3 DEF LeaveDone, ArriveDone, TakeEvent, JumpAgain, Calling, engine, history
<1>4. CASE JumpsDone \/ Pop \/ TriggerAgain
  BY <1>4 DEF JumpsDone, Pop, TriggerAgain, Calling, engine, history
<1> QED
  BY <1>1, <1>2, <1>3, <1>4 DEF WalkStep

\* The steps of the walks make a good list of a good one.
LEMMA WalkStepGood ==
    ASSUME Supported, Good(todo, state, active), WalkStep
    PROVE  Good(todo', state, active)
<1>1. CASE WalkExitDown \/ WalkExitUp \/ WalkEntryDown \/ WalkEntryUp
  BY <1>1, WalksGood
<1>2. CASE PassOn
  BY <1>2, PassOnGood
<1>3. CASE Descend
  BY <1>3, DescendGood
<1>4. CASE MakeTransition
  BY <1>4, MakeTransitionGood
<1>5. CASE LeaveDone \/ ArriveDone \/ JumpsDone \/ Pop \/ TriggerAgain
  BY <1>5, EndsGood
<1>6. CASE TakeEvent
  BY <1>6, TakeEventGood
<1>7. CASE JumpAgain
  BY <1>7, JumpAgainGood
<1> QED
  BY <1>1, <1>2, <1>3, <1>4, <1>5, <1>6, <1>7 DEF WalkStep

\* What the calls with entry and exit do to the count of stays.
LEMMA RunExitIs ==
    ASSUME EngineInv, RunExit
    PROVE  /\ todo # <<>> /\ state' = state /\ init' = init
           /\ call.node \in active /\ active' = active \ {call.node}
           /\ stays' \in [Node -> {0, 1}]
           /\ Good(todo', state', active')
<1>1. todo # <<>> /\ state' = state /\ init' = init /\ stays' = [stays EXCEPT ![call.node] = @ - 1]
  BY DEF RunExit, Calling
<1>2. Good(todo, state, active)
  BY <1>1, InvIsGood
<1> PICK B : B = active \ {call.node}
  OBVIOUS
<1>3. Good(todo', state, B) /\ call.node \in active
  BY <1>2, RunExitGood
<1>4. PICK x : x = call.node
  OBVIOUS
<1>5. stays \in [Node -> {0, 1}]
  BY DEF EngineInv
<1>6. x \in Node /\ stays[x] = 1
  BY <1>3, <1>4, <1>5 DEF active
<1>7. stays' = [stays EXCEPT ![x] = 0]
  BY <1>1, <1>4, <1>5, <1>6
<1>8. stays' \in [Node -> {0, 1}]
  BY <1>5, <1>7
<1>9. active' = active \ {x}
  <2>1. \A n \in Node : stays'[n] = IF n = x THEN 0 ELSE stays[n]
    BY <1>5, <1>7
  <2> QED
    BY <2>1 DEF active
<1> QED
  BY <1>1, <1>3, <1>4, <1>8, <1>9

\* The same for the call with entry.
LEMMA RunEntryIs ==
    ASSUME EngineInv, RunEntry
    PROVE  /\ todo # <<>> /\ state' = state /\ init' = init
           /\ MayEnter(call.node, active) /\ active' = active \cup {call.node}
           /\ stays' \in [Node -> {0, 1}]
           /\ Good(todo', state', active')
<1>1. todo # <<>> /\ state' = state /\ init' = init /\ stays' = [stays EXCEPT ![call.node] = @ + 1]
  BY DEF RunEntry, Calling
<1>2. Good(todo, state, active)
  BY <1>1, InvIsGood
<1> PICK B : B = active \cup {call.node}
  OBVIOUS
<1>3. Good(todo', state, B) /\ MayEnter(call.node, active)
  BY <1>2, RunEntryGood
<1>4. PICK x : x = call.node
  OBVIOUS
<1>5. stays \in [Node -> {0, 1}]
  BY DEF EngineInv
<1>6. x \in Node /\ stays[x] = 0
  BY <1>3, <1>4, <1>5 DEF active, MayEnter
<1>7. stays' = [stays EXCEPT ![x] = 1]
  BY <1>1, <1>4, <1>5, <1>6
<1>8. stays' \in [Node -> {0, 1}]
  BY <1>5, <1>7
<1>9. active' = active \cup {x}
  <2>1. \A n \in Node : stays'[n] = IF n = x THEN 1 ELSE stays[n]
    BY <1>5, <1>7
  <2> QED
    BY <1>6, <2>1 DEF active
<1> QED
  BY <1>1, <1>3, <1>4, <1>8, <1>9

\* The invariant of the engine, for every tree in which the transitions are
\* supported ones: each call that waits may be made when its turn comes.
THEOREM EngineStep == Supported /\ EngineInv /\ [Next]_vars => EngineInv'
<1> SUFFICES ASSUME Supported, EngineInv, [Next]_vars PROVE EngineInv'
  OBVIOUS
<1>1. CASE WalkStep
  <2>1. todo # <<>> /\ stays' = stays /\ state' = state /\ init' = init
    BY <1>1, WalkStepIs
  <2>2. Good(todo, state, active) /\ ~init
    BY <2>1, InvIsGood
  <2>3. Good(todo', state, active) /\ active' = active
    BY <1>1, <2>1, <2>2, WalkStepGood, ActiveStays
  <2>4. stays \in [Node -> {0, 1}]
    BY DEF EngineInv
  <2>5. Good(todo', state', active') /\ stays' \in [Node -> {0, 1}] /\ ~init'
    BY <2>1, <2>2, <2>3, <2>4
  <2> QED
    BY <2>5, GoodIsInv
<1>2. CASE AssignState
  <2>1. todo # <<>> /\ stays' = stays /\ init' = init
    BY <1>2 DEF AssignState, Calling, history
  <2>2. Good(todo, state, active) /\ ~init
    BY <2>1, InvIsGood
  <2>3. Good(todo', state', active) /\ active' = active
    BY <1>2, <2>1, <2>2, AssignStateGood, ActiveStays
  <2>4. Good(todo', state', active') /\ stays' \in [Node -> {0, 1}] /\ ~init'
    BY <2>1, <2>2, <2>3 DEF EngineInv
  <2> QED
    BY <2>4, GoodIsInv
<1>3. CASE RunEntry
  <2>1. Good(todo', state', active') /\ stays' \in [Node -> {0, 1}] /\ todo # <<>> /\ init' = init
    BY <1>3, RunEntryIs
  <2>2. ~init'
    BY <2>1, InvIsGood
  <2> QED
    BY <2>1, <2>2, GoodIsInv
<1>4. CASE RunExit
  <2>1. Good(todo', state', active') /\ stays' \in [Node -> {0, 1}] /\ todo # <<>> /\ init' = init
    BY <1>4, RunExitIs
  <2>2. ~init'
    BY <2>1, InvIsGood
  <2> QED
    BY <2>1, <2>2, GoodIsInv
<1>5. CASE EventCallback
  <2>1. stays' = stays /\ state' = state /\ ~init'
    BY <1>5 DEF EventCallback, history
  <2>2. Good(todo', state, active) /\ active' = active
    BY <1>5, <2>1, EventCallbackGood, ActiveStays
  <2>3. Good(todo', state', active') /\ stays' \in [Node -> {0, 1}]
    BY <2>1, <2>2 DEF EngineInv
  <2> QED
    BY <2>1, <2>3, GoodIsInv
<1>6. CASE Environment
  <2>1. todo' = todo /\ state' = state /\ stays' = stays /\ init' = init
    BY <1>6 DEF Environment, QueueEvent, TimeComes, TimerFires, TimerCallback, history
  <2> QED
    BY <2>1, InvStays
<1>7. CASE UNCHANGED vars
  <2>1. todo' = todo /\ state' = state /\ stays' = stays /\ init' = init
    BY <1>7 DEF vars, engine, history
  <2> QED
    BY <2>1, InvStays
<1> QED
  BY <1>1, <1>2, <1>3, <1>4, <1>5, <1>6, <1>7 DEF Next, Engine, WalkStep

\* The invariant of the engine holds always: it is what all that follows rests
\* on.
THEOREM EngineHolds == Supported => (Spec => []EngineInv)
<1> SUFFICES ASSUME Supported PROVE Spec => []EngineInv
  OBVIOUS
<1>1. Init => EngineInv
  BY InitGood
<1>2. EngineInv /\ [Next]_vars => EngineInv'
  BY EngineStep
<1> QED
  BY <1>1, <1>2, PTL DEF Spec

--------------------------------------------------------------------------------
(* What follows from the invariant *)

\* Only the calls with entry and exit change who is in.
LEMMA OnlyCallsMove ==
    ASSUME [Next]_vars, ~RunEntry, ~RunExit
    PROVE  stays' = stays /\ running' = running
<1>1. CASE WalkStep
  <2>1. CASE WalkEntryDown \/ WalkEntryUp \/ WalkExitDown \/ WalkExitUp
    BY <2>1 DEF WalkEntryDown, WalkEntryUp, WalkExitDown, WalkExitUp, engine, history
  <2>2. CASE PassOn \/ Descend \/ MakeTransition
    BY <2>2 DEF PassOn, Descend, MakeTransition, engine, history
  <2>3. CASE LeaveDone \/ ArriveDone \/ TakeEvent \/ JumpAgain
    BY <2>3 DEF LeaveDone, ArriveDone, TakeEvent, JumpAgain, engine, history
  <2>4. CASE JumpsDone \/ Pop \/ TriggerAgain
    BY <2>4 DEF JumpsDone, Pop, TriggerAgain, engine, history
  <2> QED
    BY <1>1, <2>1, <2>2, <2>3, <2>4 DEF WalkStep
<1>2. CASE AssignState \/ EventCallback
  BY <1>2 DEF AssignState, EventCallback, history
<1>3. CASE Environment
  BY <1>3 DEF Environment, QueueEvent, TimeComes, TimerFires, TimerCallback, history
<1>4. CASE UNCHANGED vars
  BY <1>4 DEF vars, engine, history
<1> QED
  BY <1>1, <1>2, <1>3, <1>4 DEF Next, Engine, WalkStep

\* StateConfig is about the same tree,
LEMMA ConfigTree ==
    /\ Config!parent = parent
    /\ \A n : Config!Parallel(n) = Parallel(n)
  BY DEF Config!parent, parent, Config!Parallel, Parallel

\* and about the same states that are in.
LEMMA ConfigActive ==
    ASSUME EngineInv
    PROVE  Config!active = active
  BY DEF EngineInv, Config!active, active

\* A step of the engine is a step of the machine as an application sees it.
LEMMA EntryIsEnter ==
    ASSUME EngineInv, EngineInv', RunEntry
    PROVE  Config!Enter(call.node)
<1> PICK n : n = call.node
  OBVIOUS
<1>1. MayEnter(n, active) /\ active' = active \cup {n}
  BY RunEntryIs
<1>2. n \in Node /\ n \notin active /\ (n = Root \/ parent[n] \in active)
  BY <1>1 DEF MayEnter
<1>3. stays \in [Node -> {0, 1}] /\ stays' = [stays EXCEPT ![n] = @ + 1]
  BY DEF EngineInv, RunEntry
<1>4. stays[n] = 0
  BY <1>2, <1>3 DEF active
<1>5. stays' = [stays EXCEPT ![n] = 1]
  BY <1>2, <1>3, <1>4
<1>6. ASSUME NEW m \in active, m # Root, n # Root, parent[m] = parent[n], ~Parallel(parent[n])
      PROVE  FALSE
  <2>1. state' = state /\ m \in active' /\ n \in active'
    BY <1>1, RunEntryIs
  <2>2. Pointers(Items(todo'), state', active')
    BY DEF EngineInv, Fine
  <2>3. ~Region(m) /\ ~Region(n)
    BY <1>6 DEF Region
  <2>4. state'[parent[m]] = m /\ state'[parent[n]] = n
    BY <1>6, <2>1, <2>2, <2>3 DEF Pointers
  <2>5. m = n
    BY <1>6, <2>4
  <2> QED
    BY <1>2, <2>5
<1>7. Config!active = active
  BY ConfigActive
<1>8. n # Root => parent[n] \in Config!active
  BY <1>2, <1>7
<1>9. \A m \in Config!active : m # Root /\ n # Root /\ parent[m] = parent[n] => Parallel(parent[n])
  BY <1>6, <1>7
<1>10. Config!Enter(n)
  BY <1>4, <1>5, <1>8, <1>9, ConfigTree DEF Config!Enter
<1> QED
  BY <1>10

\* A call with exit is a step of that machine, too.
LEMMA ExitIsExit ==
    ASSUME EngineInv, EngineInv', RunExit
    PROVE  Config!Exit(call.node)
<1> PICK n : n = call.node
  OBVIOUS
<1>1. n \in active /\ active' = active \ {n}
  BY RunExitIs
<1>2. stays \in [Node -> {0, 1}] /\ stays' = [stays EXCEPT ![n] = @ - 1]
  BY DEF EngineInv, RunExit
<1>3. n \in Node /\ stays[n] = 1
  BY <1>1, <1>2 DEF active
<1>4. stays' = [stays EXCEPT ![n] = 0]
  BY <1>2, <1>3
<1>5. ASSUME NEW m \in active, m # Root, parent[m] = n PROVE FALSE
  <2>1. m \in Node \ {Root}
    BY <1>5 DEF active
  <2>2. m # n
    BY <1>5, <2>1, ParentIsAbove
  <2>3. Nested(Items(todo'), active')
    BY DEF EngineInv, Fine
  <2>4. parent[m] \in active'
    BY <1>1, <1>5, <2>2, <2>3 DEF Nested
  <2> QED
    BY <1>1, <1>5, <2>4
<1>6. Config!active = active
  BY ConfigActive
<1>7. \A m \in Config!active : m # Root => parent[m] # n
  BY <1>5, <1>6
<1>8. Config!Exit(n)
  BY <1>3, <1>4, <1>7, ConfigTree DEF Config!Exit
<1> QED
  BY <1>8

\* Every step is one of that machine, or none.
LEMMA EngineStepIsConfig ==
    EngineInv /\ EngineInv' /\ [Next]_vars => [Config!Next]_stays
<1> SUFFICES ASSUME EngineInv, EngineInv', [Next]_vars PROVE [Config!Next]_stays
  OBVIOUS
<1>1. CASE RunEntry
  <2>1. call.node \in Node
    BY <1>1, RunEntryIs DEF MayEnter
  <2> QED
    BY <1>1, <2>1, EntryIsEnter DEF Config!Next
<1>2. CASE RunExit
  <2>1. call.node \in Node
    BY <1>2, RunExitIs DEF active
  <2> QED
    BY <1>2, <2>1, ExitIsExit DEF Config!Next
<1>3. CASE ~RunEntry /\ ~RunExit
  BY <1>3, OnlyCallsMove
<1> QED
  BY <1>1, <1>2, <1>3

\* Entry code runs from the outside in and exit code from the inside out, once
\* per stay, in every tree in which the transitions are supported ones: the
\* walks of vivid_sm.c implement the machine that StateConfig describes.
THEOREM EngineImplementsConfig == Supported => (Spec => ImplementsConfig)
<1> SUFFICES ASSUME Supported PROVE Spec => ImplementsConfig
  OBVIOUS
<1>1. Init => Config!Init
  BY DEF Init, Config!Init
<1>2. Spec => []EngineInv
  BY EngineHolds
<1>3. EngineInv /\ EngineInv' /\ [Next]_vars => [Config!Next]_stays
  BY EngineStepIsConfig
<1> QED
  BY <1>1, <1>2, <1>3, PTL DEF Spec, ImplementsConfig, Config!Spec

\* When the machine rests, vivid_is_in answers what the entry and exit code has
\* been told, whatever has happened before.
THEOREM EngineAgrees == Supported => (Spec => []IsInAgrees)
<1> SUFFICES ASSUME Supported PROVE Spec => []IsInAgrees
  OBVIOUS
<1>1. EngineInv => IsInAgrees
  <2> SUFFICES ASSUME EngineInv, todo = <<>>, ~init, NEW n \in Node, ~Region(n)
               PROVE  IsIn(n) <=> n \in active
    BY DEF IsInAgrees, Resting
  <2>1. Settled(state, active) /\ Root \in active
    BY AtRest
  <2>2. CASE n = Root
    BY <2>1, <2>2 DEF IsIn
  <2>3. CASE n # Root
    <3>1. parent[n] \in Node
      BY <2>3, ParentIsAbove
    <3>2. n # NoNode
      BY RootIsNode
    <3> QED
      BY <2>1, <2>3, <3>1, <3>2 DEF IsIn, Settled
  <2> QED
    BY <2>2, <2>3
<1>2. Spec => []EngineInv
  BY EngineHolds
<1> QED
  BY <1>1, <1>2, PTL

\* Until a transition arrives, nothing above or beside the deepest state around
\* both its ends is left or entered, and that state only if it is one of them.
THEOREM EngineMovesBelow == Supported => (Spec => MovesBelowAncestor)
<1> SUFFICES ASSUME Supported PROVE Spec => MovesBelowAncestor
  OBVIOUS
<1> DEFINE Move ==
      \A m \in Node, i \in DOMAIN todo :
          stays'[m] # stays[m] /\ todo[i].op = "arrive" =>
             LET ends == {todo[i].source, todo[i].node}
                 common == Upward[todo[i].source] \cap Upward[todo[i].node]
             IN  common \subseteq Upward[m] /\ (m \in common => m \in ends)
<1>1. EngineInv /\ [Next]_vars => [Move]_vars
  <2> SUFFICES ASSUME EngineInv, [Next]_vars,
                      NEW m \in Node, NEW i \in DOMAIN todo,
                      stays'[m] # stays[m], todo[i].op = "arrive"
               PROVE  /\ Common(todo[i].source, todo[i].node) \subseteq Upward[m]
                      /\ m \in Common(todo[i].source, todo[i].node) =>
                            m \in {todo[i].source, todo[i].node}
    BY DEF Common
  <2>1. RunEntry \/ RunExit
    BY OnlyCallsMove
  <2>2. todo # <<>> /\ call.op \in {"entry", "exit"}
    BY <2>1 DEF RunEntry, RunExit, Calling, call
  <2>3. m = call.node
    <3>1. stays \in [Node -> {0, 1}]
      BY DEF EngineInv
    <3> QED
      BY <2>1, <3>1 DEF RunEntry, RunExit
  <2>4. m \in Exits(call) \cup Enters(call)
    BY <2>2, <2>3 DEF Exits, Enters
  <2>5. IsList(todo) /\ Ordered(todo)
    BY DEF EngineInv
  <2>6. 1 \in DOMAIN todo /\ todo[1] = call /\ i \in Int /\ i >= 1
    BY <2>2, <2>5 DEF IsList, call
  <2>7. i # 1
    BY <2>2, <2>6
  <2>8. Before(call, todo[i])
    BY <2>5, <2>6, <2>7 DEF Ordered
  <2> QED
    BY <2>4, <2>8 DEF Before, MoveOrder
<1>2. Spec => []EngineInv
  BY EngineHolds
<1> QED
  BY <1>1, <1>2, PTL DEF Spec, MovesBelowAncestor

--------------------------------------------------------------------------------
(* The timers *)

\* A timer belongs to one state.
LEMMA OneOwner ==
    ASSUME NEW m \in Node, NEW n \in Node, NEW t \in TimersOf(m), t \in TimersOf(n)
    PROVE  m = n /\ t \in Timer
<1>1. t \in Timer
  BY DEF TimersOf
<1>2. PICK i \in DOMAIN Clauses[m] : Clauses[m][i].on = t
  BY DEF TimersOf
<1>3. PICK j \in DOMAIN Clauses[n] : Clauses[n][j].on = t
  BY DEF TimersOf
<1> QED
  BY <1>1, <1>2, <1>3, TreeAssumption

\* Every step keeps the timers with their states.
LEMMA TimersStep == EngineInv /\ TimersInv /\ [Next]_vars => TimersInv'
<1> SUFFICES ASSUME EngineInv, TimersInv, [Next]_vars PROVE TimersInv'
  OBVIOUS
<1>1. CASE RunEntry
  <2> PICK n : n = call.node
    OBVIOUS
  <2>1. active' = active \cup {n} /\ n \in Node
    BY <1>1, RunEntryIs DEF MayEnter
  <2>2. running' = [t \in Timer |-> t \in TimersOf(n) \/ running[t]]
    BY <1>1 DEF RunEntry
  <2>3. running' \in [Timer -> BOOLEAN]
    BY <2>2 DEF TimersInv
  <2>4. ASSUME NEW m \in Node, NEW t \in TimersOf(m) PROVE running'[t] <=> m \in active'
    <3>1. t \in Timer /\ (t \in TimersOf(n) => m = n) /\ (m = n => t \in TimersOf(n))
      BY <2>1, OneOwner
    <3>2. running'[t] = (t \in TimersOf(n) \/ running[t])
      BY <2>2, <3>1
    <3>3. running[t] <=> m \in active
      BY DEF TimersInv
    <3> QED
      BY <2>1, <3>1, <3>2, <3>3
  <2> QED
    BY <2>3, <2>4 DEF TimersInv
<1>2. CASE RunExit
  <2> PICK n : n = call.node
    OBVIOUS
  <2>1. active' = active \ {n} /\ n \in Node
    BY <1>2, RunExitIs DEF active
  <2>2. running' = [t \in Timer |-> t \notin TimersOf(n) /\ running[t]]
    BY <1>2 DEF RunExit, Stopped
  <2>3. running' \in [Timer -> BOOLEAN]
    BY <2>2 DEF TimersInv
  <2>4. ASSUME NEW m \in Node, NEW t \in TimersOf(m) PROVE running'[t] <=> m \in active'
    <3>1. t \in Timer /\ (t \in TimersOf(n) => m = n) /\ (m = n => t \in TimersOf(n))
      BY <2>1, OneOwner
    <3>2. running'[t] = (t \notin TimersOf(n) /\ running[t])
      BY <2>2, <3>1
    <3>3. running[t] <=> m \in active
      BY DEF TimersInv
    <3> QED
      BY <2>1, <3>1, <3>2, <3>3
  <2> QED
    BY <2>3, <2>4 DEF TimersInv
<1>3. CASE ~RunEntry /\ ~RunExit
  <2>1. running' = running /\ active' = active
    BY <1>3, OnlyCallsMove, ActiveStays
  <2> QED
    BY <2>1 DEF TimersInv
<1> QED
  BY <1>1, <1>2, <1>3

\* No state that is not in has its timer running, and none that is in has not:
\* not only at rest, but between any two calls of a walk.
THEOREM EngineTimers == Supported => (Spec => []TimersInv /\ []TimersFollowStates)
<1> SUFFICES ASSUME Supported PROVE Spec => []TimersInv /\ []TimersFollowStates
  OBVIOUS
<1>1. Init => TimersInv
  BY DEF Init, TimersInv, active, TimersOf
<1>2. EngineInv /\ TimersInv /\ [Next]_vars => TimersInv'
  BY TimersStep
<1>3. TimersInv => TimersFollowStates
  BY DEF TimersInv, TimersFollowStates
<1>4. Spec => []EngineInv
  BY EngineHolds
<1> QED
  BY <1>1, <1>2, <1>3, <1>4, PTL DEF Spec

--------------------------------------------------------------------------------
(* The jumps *)

\* The first call and the calls that wait.
LEMMA FirstItems ==
    ASSUME Good(todo, state, active), todo # <<>>
    PROVE  Items(todo) = {call} \cup Items(Tail(todo)) /\ IsList(Tail(todo)) /\ IsList(todo)
  BY MakesFirst DEF Good, Makes, call

\* A step that keeps what leaves and comes, and the calls that wait.
LEMMA KeptMoves ==
    ASSUME Good(todo, state, active), todo # <<>>, Kept(todo, todo', active),
           NEW q \in active, Moved(q, Items(todo)), ~Reaches(call, q)
    PROVE  Moved(q, Items(todo'))
<1>1. PICK b \in Items(todo) : Settles(b, q)
  BY DEF Moved
<1>2. CASE q \in Exits(b)
  <2>1. q \in Leaving(Items(todo), active)
    BY <1>2 DEF Leaving
  <2>2. q \in Leaving(Items(todo'), active)
    BY <2>1 DEF Kept
  <2> QED
    BY <2>2 DEF Leaving, Moved, Settles
<1>3. CASE \E h \in Enters(b) : HasJump(h)
  <2>1. PICK h \in Enters(b) : HasJump(h)
    BY <1>3
  <2>2. h \in Coming(Items(todo))
    BY <2>1 DEF Coming, Enters
  <2>3. h \in Coming(Items(todo'))
    BY <2>2 DEF Kept
  <2> QED
    BY <2>1, <2>3 DEF Coming, Moved, Settles
<1>4. CASE Reaches(b, q)
  <2>1. b \in Items(Tail(todo))
    BY <1>4, FirstItems
  <2>2. b \in Items(todo')
    BY <2>1 DEF Kept
  <2> QED
    BY <1>4, <2>2 DEF Moved, Settles
<1> QED
  BY <1>1, <1>2, <1>3, <1>4 DEF Settles

\* A walk of entry or exit calls.
LEMMA WalkMoves ==
    ASSUME Good(todo, state, active), WalkEntryDown \/ WalkEntryUp \/ WalkExitDown \/ WalkExitUp,
           NEW q \in active, Moved(q, Items(todo))
    PROVE  Moved(q, Items(todo'))
<1>1. todo # <<>> /\ call.op \in {"entry_down", "entry_up", "exit_down", "exit_up"}
  BY DEF WalkEntryDown, WalkEntryUp, WalkExitDown, WalkExitUp, Calling, call
<1>2. Kept(todo, todo', active)
  BY WalksGood
<1>3. ~Reaches(call, q)
  BY <1>1 DEF Reaches
<1> QED
  BY <1>1, <1>2, <1>3, KeptMoves

\* A condition or junction that is offered a jump takes one.
LEMMA TakesJump ==
    ASSUME LeadsOn, NEW n \in Node, Pseudo(n), NEW last
    PROVE  /\ ~(\A i \in Matching(n, Jump, last) : Clauses[n][i].app)
           /\ \A i \in Taken(n, Jump, last) : Clauses[n][i].target # NoNode
<1>1. PICK jumps : jumps = {i \in DOMAIN Clauses[n] : Clauses[n][i].on = Jump}
  OBVIOUS
<1>2. /\ \A i \in jumps : Clauses[n][i].target # NoNode
      /\ \E i \in jumps : ~Clauses[n][i].app /\ Clauses[n][i].param = NoEvent
  BY <1>1 DEF LeadsOn
<1>3. \A i \in jumps : (Jump \in Timer => FALSE) /\ Clauses[n][i].on = Jump
  BY <1>1, TreeAssumption
<1>4. PICK i \in jumps : ~Clauses[n][i].app /\ Clauses[n][i].param = NoEvent
  BY <1>2
<1>5. i \in Matching(n, Jump, last)
  BY <1>1, <1>3, <1>4 DEF Matching
<1> QED
  BY <1>1, <1>2, <1>4, <1>5 DEF Taken, Matching

\* A jump that goes on reaches the same nodes.
LEMMA PassOnMoves ==
    ASSUME Good(todo, state, active), PassOn, LeadsOn,
           NEW q \in active, Pseudo(q), Moved(q, Items(todo))
    PROVE  Moved(q, Items(todo'))
<1>1. todo # <<>> /\ call.op = "event"
  BY DEF PassOn, Calling, call
<1>2. PICK n : n = call.node
  OBVIOUS
<1>3. PICK e : e = call.event
  OBVIOUS
<1>4. PICK last : last = call.last
  OBVIOUS
<1>5. /\ Kept(todo, todo', active) /\ n \in Node
      /\ Items(todo') = OthersSet(n, e, last) \cup Items(Tail(todo))
  BY <1>2, <1>3, <1>4, PassOnGood
<1>6. CASE ~Reaches(call, q)
  BY <1>1, <1>5, <1>6, KeptMoves
<1>7. CASE Reaches(call, q)
  <2>1. e = Jump /\ \E r \in Chain(n) : r \in Upward[q]
    BY <1>1, <1>2, <1>3, <1>7 DEF Reaches
  <2>2. PICK r \in Chain(n) : r \in Upward[q]
    BY <2>1
  <2>3. q \in Node
    BY DEF active
  <2>4. CASE r # n
    <3>1. NextRegion(n) # NoNode /\ r \in Chain(NextRegion(n))
      BY <1>5, <2>4, ChainGoesOn
    <3>2. PICK d : d = WalkEvent(NextRegion(n), e, last)
      OBVIOUS
    <3>3. d \in Items(todo')
      BY <1>5, <3>1, <3>2 DEF OthersSet
    <3>4. Reaches(d, q)
      BY <2>1, <2>2, <3>1, <3>2 DEF Reaches, WalkEvent
    <3> QED
      BY <3>3, <3>4 DEF Moved, Settles
  <2>5. CASE r = n /\ q = n
    <3>1. \/ \A i \in Matching(n, Jump, last) : Clauses[n][i].app
          \/ \E i \in Taken(n, Jump, last) : Clauses[n][i].target = NoNode
      BY <1>2, <1>3, <1>4, <2>1 DEF PassOn
    <3> QED
      BY <1>5, <2>5, <3>1, TakesJump
  <2>6. CASE r = n /\ q # n
    <3>1. PICK k \in Kids(n) : k \in Upward[q]
      BY <1>5, <2>2, <2>3, <2>6, BelowByKid
    <3>2. CASE Parallel(n)
      <4>1. PICK d : d = WalkEvent(children[n], e, last)
        OBVIOUS
      <4>2. d \in Items(todo')
        BY <1>5, <3>2, <4>1 DEF OthersSet
      <4>3. k \in Chain(children[n])
        BY <1>5, <3>2, ChainOfAll
      <4>4. Reaches(d, q)
        BY <2>1, <3>1, <4>1, <4>3 DEF Reaches, WalkEvent
      <4> QED
        BY <4>2, <4>4 DEF Moved, Settles
    <3>3. CASE ~Parallel(n)
      <4>1. PICK d : d = WalkState(n, e, last)
        OBVIOUS
      <4>2. d \in Items(todo')
        BY <1>5, <4>1 DEF OthersSet
      <4>3. Reaches(d, q)
        BY <2>1, <2>2, <2>6, <3>3, <4>1 DEF Reaches, WalkState
      <4> QED
        BY <4>2, <4>3 DEF Moved, Settles
    <3> QED
      BY <3>2, <3>3
  <2> QED
    BY <2>4, <2>5, <2>6
<1> QED
  BY <1>6, <1>7

\* And so it does where it follows the current sub-state.
LEMMA DescendMoves ==
    ASSUME Good(todo, state, active), Descend, NEW q \in active, Moved(q, Items(todo))
    PROVE  Moved(q, Items(todo'))
<1>1. todo # <<>> /\ call.op = "descend"
  BY DEF Descend, Calling, call
<1>2. PICK n : n = call.node
  OBVIOUS
<1>3. PICK e : e = call.event
  OBVIOUS
<1>4. PICK last : last = call.last
  OBVIOUS
<1>5. /\ Kept(todo, todo', active)
      /\ Items(todo') = DescendSet(n, state[n], e, last) \cup Items(Tail(todo))
  BY <1>2, <1>3, <1>4, DescendGood
<1>6. CASE ~Reaches(call, q)
  BY <1>1, <1>5, <1>6, KeptMoves
<1>7. CASE Reaches(call, q)
  <2>1. e = Jump /\ n \in Upward[q] /\ q # n /\ ~Parallel(n)
    BY <1>1, <1>2, <1>3, <1>7 DEF Reaches
  <2>2. PICK I : I = Items(todo)
    OBVIOUS
  <2>3. call \in I /\ Fine(I, state, active)
    BY <1>1, <2>2, FirstItems DEF Good
  <2>4. Nested(I, active) /\ Pointers(I, state, active) /\ n \in Node
    BY <1>1, <1>2, <2>3 DEF Fine, Each, EventFine
  <2>5. PICK k \in Kids(n) \cap active : k \in Upward[q] /\ k = state[n]
    BY <2>1, <2>4, WayDown
  <2>6. k # NoNode /\ k \in Node
    BY RootIsNode DEF Kids
  <2>7. PICK d : d = WalkEvent(k, e, last)
    OBVIOUS
  <2>8. d \in Items(todo')
    BY <1>5, <2>5, <2>6, <2>7 DEF DescendSet
  <2>9. k \in Chain(k)
    BY DEF Chain
  <2>10. Reaches(d, q)
    BY <2>1, <2>5, <2>7, <2>9 DEF Reaches, WalkEvent
  <2> QED
    BY <2>8, <2>10 DEF Moved, Settles
<1> QED
  BY <1>6, <1>7

\* The calls of a transition, before those that wait.
LEMMA MakeTransitionCalls ==
    ASSUME Supported, Good(todo, state, active), MakeTransition
    PROVE  \E t, a, f :
              /\ Asked(t, a, f)
              /\ Items(todo') = TransitSet(call.node, t, a, f) \cup Items(Tail(todo))
<1>1. todo # <<>>
  BY DEF MakeTransition, Calling
<1>2. PICK t, a, f : Asked(t, a, f)
  BY MakeTransitionIs
<1>3. PICK n : n = call.node
  OBVIOUS
<1>4. Drawn(n, t, a, f) /\ todo' = TransitCalls(n, t, a, f) \o Tail(todo)
  BY <1>2, <1>3 DEF Asked
<1>5. Makes(TransitCalls(n, t, a, f), TransitSet(n, t, a, f))
  BY <1>4, TransitMakes DEF TransitCalls
<1>6. IsList(Tail(todo))
  BY <1>1, FirstItems
<1>7. Items(todo') = TransitSet(n, t, a, f) \cup Items(Tail(todo))
  BY <1>4, <1>5, <1>6, ItemsJoin DEF Makes
<1> QED
  BY <1>2, <1>3, <1>7

\* What is left goes with all that is below it, or, where it was a region and
\* the regions beside it wait for the jump, a node that has a jump is entered.
LEMMA MakeTransitionMoves ==
    ASSUME Supported, Good(todo, state, active), MakeTransition,
           NEW q \in active, Moved(q, Items(todo))
    PROVE  Moved(q, Items(todo'))
<1>1. todo # <<>> /\ call.op = "event" /\ Rank(call) = 7
  BY DEF MakeTransition, Calling, call, Rank
<1>2. PICK n : n = call.node
  OBVIOUS
<1>3. PICK t, a, f : /\ Asked(t, a, f)
                     /\ Items(todo') = TransitSet(n, t, a, f) \cup Items(Tail(todo))
  BY <1>2, MakeTransitionCalls
<1>4. Drawn(n, t, a, f) /\ \E i \in DOMAIN Clauses[n] : Clauses[n][i].on = call.event
  BY <1>2, <1>3 DEF Asked
<1>6. Items(todo) = {call} \cup Items(Tail(todo))
  BY <1>1, FirstItems
<1>7. Items(todo') = TransitSet(n, t, a, f) \cup Items(Tail(todo))
  BY <1>3
<1>8. CASE ~Reaches(call, q)
  <2>1. PICK b \in Items(todo) : Settles(b, q)
    BY DEF Moved
  <2>2. Exits(call) = {} /\ Enters(call) = {}
    BY <1>1, RankTells
  <2>3. b # call
    BY <1>8, <2>1, <2>2 DEF Settles
  <2>4. b \in Items(todo')
    BY <1>6, <1>7, <2>3
  <2> QED
    BY <2>1, <2>4 DEF Moved
<1>9. CASE Reaches(call, q)
  <2>1. PICK r \in Chain(n) : r \in Upward[q]
    BY <1>1, <1>2, <1>9 DEF Reaches
  <2>2. HasJump(n)
    BY <1>4, <1>9 DEF Reaches, HasJump
  <2>3. PICK k : k = Top(n, a, f)
    OBVIOUS
  <2>4. PICK x : x = ExitUp(n, a, NoNode, f)
    OBVIOUS
  <2>5. PICK e : e = EntryUp(t, a, NoNode, f)
    OBVIOUS
  <2>6. PICK z : z = Arrive(n, t)
    OBVIOUS
  <2>7. Moves(n, t, a, f, k, x, e, z)
    BY <1>4, <2>3, <2>4, <2>5, <2>6, OfTransit, Zenon
  <2>8. IsTop(n, t, a, f, k)
    BY <1>4, <2>3, DrawnTop, Zenon
  <2>9. Exits(x) = {m \in Node : k \in Upward[m]} /\ Enters(e) = Between(t, a, f)
    BY <2>7 DEF Moves
  <2>10. k \in Upward[n] /\ k \in Node
    BY <2>8 DEF IsTop
  <2>11. x \in Items(todo') /\ e \in Items(todo')
    BY <1>7, <2>4, <2>5 DEF TransitSet
  <2>12. /\ n \in Node /\ q \in Node /\ a \in Node /\ a \in Upward[t] /\ f \in BOOLEAN
         /\ a \in Upward[a] /\ (f # TRUE => t # a)
    <3>1. n \in Node /\ a \in Node /\ a \in Upward[t] /\ f \in BOOLEAN
      BY <1>4, DrawnType
    <3>2. f # TRUE => t # a
      BY <1>4 DEF Drawn
    <3>3. q \in Node /\ a \in Upward[a]
      BY <3>1, UpwardStep DEF active
    <3> QED
      BY <3>1, <3>2, <3>3
  <2>13. CASE k \in Upward[q]
    <3>1. q \in Exits(x)
      BY <2>9, <2>12, <2>13
    <3> QED
      BY <2>11, <3>1 DEF Moved, Settles
  <2>14. CASE r = n
    BY <2>1, <2>10, <2>12, <2>13, <2>14, UpwardTransitive
  <2>15. CASE r # n
    <3>1. /\ n \in Node \ {Root} /\ r \in Node \ {Root} /\ parent[r] = parent[n] /\ Region(n)
      BY <2>1, <2>12, <2>15, ChainType
    <3>2. CASE k # n
      <4>1. k \in Upward[parent[n]]
        BY <2>10, <3>1, <3>2, UpwardStep
      <4>2. parent[n] \in Upward[q]
        BY <2>1, <2>12, <3>1, ParentIsAbove, UpwardTransitive
      <4> QED
        BY <2>12, <2>13, <4>1, <4>2, UpwardTransitive
    <3>3. CASE k = n /\ f = TRUE
      <4>1. n = a
        BY <2>8, <3>3 DEF IsTop
      <4>2. n \in Between(t, a, f)
        BY <2>12, <3>3, <4>1 DEF Between
      <4> QED
        BY <2>2, <2>9, <2>11, <4>2 DEF Moved, Settles
    <3>4. CASE k = n /\ f # TRUE
      <4>1. parent[n] = a
        BY <2>8, <3>4 DEF IsTop, Kids
      <4>2. a \in Upward[t] \ {t}
        BY <2>12, <3>4
      <4>3. ~Parallel(a)
        BY <1>4, <2>12, <4>2, DrawnUndivided
      <4> QED
        BY <3>1, <4>1, <4>3 DEF Region
    <3> QED
      BY <3>2, <3>3, <3>4
  <2> QED
    BY <2>14, <2>15
<1> QED
  BY <1>8, <1>9

\* A call returns.
LEMMA ReturnItems ==
    ASSUME Good(todo, state, active), todo # <<>>, todo' = <<>> \o Tail(todo)
    PROVE  Items(todo') = Items(Tail(todo))
<1>1. IsList(<<>>) /\ Items(<<>>) = {} /\ IsList(Tail(todo))
  BY MakesNone, FirstItems DEF Makes
<1> QED
  BY <1>1, ItemsJoin

\* A call that settles nothing for q returns.
LEMMA ReturnMoves ==
    ASSUME Good(todo, state, active), todo # <<>>, todo' = <<>> \o Tail(todo),
           NEW q, ~Settles(call, q), Moved(q, Items(todo))
    PROVE  Moved(q, Items(todo'))
  BY ReturnItems, FirstItems DEF Moved

\* A call before the jumps is made: the jumps are still to come.
LEMMA StillRuns ==
    ASSUME Good(todo, state, active), todo # <<>>, JumpInv, Rank(call) <= 7,
           Items(Tail(todo)) \subseteq Items(todo')
    PROVE  RunsJumps(Items(todo'))
<1>1. Items(todo) = {call} \cup Items(Tail(todo))
  BY FirstItems
<1>2. PICK b \in Items(todo) : b.op = "jump"
  BY <1>1 DEF JumpInv, Asks, RunsJumps
<1>3. b # call
  BY <1>2 DEF Rank
<1> QED
  BY <1>1, <1>2, <1>3 DEF RunsJumps

\* The calls that follow the walks settle nothing.
LEMMA LastSettles ==
    ASSUME NEW b, Rank(b) = 8, NEW q
    PROVE  ~Settles(b, q)
<1>1. Exits(b) = {} /\ Enters(b) = {}
  BY RankTells
<1>2. b.op \notin {"event", "descend"}
  BY DEF Rank
<1> QED
  BY <1>1, <1>2 DEF Settles, Reaches

\* After the walks, a condition that is in has asked for a jump walk.
LEMMA AllLast ==
    ASSUME Good(todo, state, active), todo # <<>>, Rank(call) = 8, JumpInv
    PROVE  /\ \A b \in Items(todo) : Rank(b) = 8
           /\ \A q \in active : Pseudo(q) => jump = TRUE
<1>1. /\ Items(todo) = {call} \cup Items(Tail(todo))
      /\ \A b \in Items(Tail(todo)) : Before(call, b)
  BY MakesFirst DEF Good, call
<1>2. \A b \in Items(todo) : Rank(b) = 8
  BY <1>1, RankType DEF Before, RankOrder
<1> QED
  BY <1>2, LastSettles DEF JumpInv, Moved


\* The invariant from its parts.
LEMMA JumpSafeIs ==
    ASSUME jump' \in BOOLEAN,
           \A q \in active' : Pseudo(q) => jump' = TRUE \/ Moved(q, Items(todo')),
           jump' = TRUE \/ Asks(Items(todo')) => RunsJumps(Items(todo'))
    PROVE  JumpInv'
  BY DEF JumpInv

\* The walks, and the ends of a transition.
LEMMA WalksJump ==
    ASSUME Supported, LeadsOn, Good(todo, state, active), JumpInv,
           \/ WalkEntryDown \/ WalkEntryUp \/ WalkExitDown \/ WalkExitUp
           \/ MakeTransition \/ PassOn \/ Descend \/ LeaveDone \/ ArriveDone
    PROVE  JumpInv'
<1>1. WalkStep
  BY DEF WalkStep
<1>2. todo # <<>> /\ stays' = stays
  BY <1>1, WalkStepIs
<1>3. active' = active
  BY <1>2, ActiveStays
<1>4. jump' = jump
  <2>1. CASE WalkEntryDown \/ WalkEntryUp \/ WalkExitDown \/ WalkExitUp
    BY <2>1 DEF WalkEntryDown, WalkEntryUp, WalkExitDown, WalkExitUp, engine
  <2>2. CASE PassOn \/ Descend \/ MakeTransition
    BY <2>2 DEF PassOn, Descend, MakeTransition, engine
  <2>3. CASE LeaveDone \/ ArriveDone
    BY <2>3 DEF LeaveDone, ArriveDone, engine
  <2> QED
    BY <2>1, <2>2, <2>3
<1>5. Rank(call) <= 7
  <2>1. CASE WalkEntryDown \/ WalkEntryUp \/ WalkExitDown \/ WalkExitUp
    BY <2>1 DEF WalkEntryDown, WalkEntryUp, WalkExitDown, WalkExitUp, Calling, call, Rank
  <2>2. CASE PassOn \/ Descend \/ MakeTransition
    <3>1. call.op \in {"event", "descend"}
      BY <2>2 DEF PassOn, Descend, MakeTransition, Calling, call
    <3> QED
      BY <3>1 DEF Rank
  <2>3. CASE LeaveDone \/ ArriveDone
    BY <2>3 DEF LeaveDone, ArriveDone, Calling, call, Rank
  <2> QED
    BY <2>1, <2>2, <2>3
<1>6. Items(Tail(todo)) \subseteq Items(todo')
  <2>1. CASE WalkEntryDown \/ WalkEntryUp \/ WalkExitDown \/ WalkExitUp
    <3>1. Kept(todo, todo', active)
      BY <2>1, WalksGood
    <3> QED
      BY <3>1 DEF Kept
  <2>2. CASE PassOn \/ Descend
    <3>1. Kept(todo, todo', active)
      BY <2>2, PassOnGood, DescendGood
    <3> QED
      BY <3>1 DEF Kept
  <2>3. CASE MakeTransition
    BY <2>3, MakeTransitionCalls
  <2>4. CASE LeaveDone \/ ArriveDone
    <3>1. todo' = <<>> \o Tail(todo)
      BY <2>4 DEF LeaveDone, ArriveDone, Becomes
    <3> QED
      BY <1>2, <3>1, ReturnItems
  <2> QED
    BY <2>1, <2>2, <2>3, <2>4
<1>7. RunsJumps(Items(todo'))
  BY <1>2, <1>5, <1>6, StillRuns
<1>8. ASSUME NEW q \in active, Pseudo(q), Moved(q, Items(todo)) PROVE Moved(q, Items(todo'))
  <2>1. CASE WalkEntryDown \/ WalkEntryUp \/ WalkExitDown \/ WalkExitUp
    BY <1>8, <2>1, WalkMoves
  <2>2. CASE PassOn
    BY <1>8, <2>2, PassOnMoves
  <2>3. CASE Descend
    BY <1>8, <2>3, DescendMoves
  <2>4. CASE MakeTransition
    BY <1>8, <2>4, MakeTransitionMoves
  <2>5. CASE LeaveDone \/ ArriveDone
    <3>1. todo' = <<>> \o Tail(todo) /\ call.op \in {"leave", "arrive"}
      BY <2>5 DEF LeaveDone, ArriveDone, Becomes, Calling, call
    <3>2. Exits(call) = {} /\ Enters(call) = {}
      BY <3>1 DEF Exits, Enters
    <3>3. ~Settles(call, q)
      BY <3>1, <3>2 DEF Settles, Reaches
    <3> QED
      BY <1>2, <1>8, <3>1, <3>3, ReturnMoves
  <2> QED
    BY <2>1, <2>2, <2>3, <2>4, <2>5
<1>9. \A q \in active' : Pseudo(q) => jump' = TRUE \/ Moved(q, Items(todo'))
  BY <1>3, <1>4, <1>8 DEF JumpInv
<1>10. jump' \in BOOLEAN
  BY <1>4 DEF JumpInv
<1> QED
  BY <1>7, <1>9, <1>10, JumpSafeIs

\* The calls with entry and exit, and set_state.
LEMMA CallsJump ==
    ASSUME Supported, LeadsOn, EngineInv, JumpInv, AssignState \/ RunEntry \/ RunExit
    PROVE  JumpInv'
<1>1. todo # <<>> /\ call.op \in {"set_state", "entry", "exit"} /\ todo' = <<>> \o Tail(todo)
  BY DEF AssignState, RunEntry, RunExit, Calling, call, Becomes
<1>2. Good(todo, state, active)
  BY <1>1, InvIsGood
<1>3. Rank(call) <= 7
  BY <1>1 DEF Rank
<1>4. RunsJumps(Items(todo'))
  BY <1>1, <1>2, <1>3, ReturnItems, StillRuns
<1>5. ~Reaches(call, call.node) /\ \A q : ~Reaches(call, q)
  BY <1>1 DEF Reaches
<1>6. CASE AssignState
  <2>1. active' = active /\ jump' = jump
    BY <1>6, ActiveStays DEF AssignState, history
  <2>2. Exits(call) = {} /\ Enters(call) = {}
    BY <1>6 DEF AssignState, Calling, call, Exits, Enters
  <2>3. \A q : ~Settles(call, q)
    BY <1>5, <2>2 DEF Settles
  <2>4. \A q \in active' : Pseudo(q) => jump' = TRUE \/ Moved(q, Items(todo'))
    BY <1>1, <1>2, <2>1, <2>3, ReturnMoves DEF JumpInv
  <2>5. jump' \in BOOLEAN
    BY <2>1 DEF JumpInv
  <2> QED
    BY <1>4, <2>4, <2>5, JumpSafeIs
<1>7. CASE RunEntry
  <2>1. PICK n : n = call.node
    OBVIOUS
  <2>2. active' = active \cup {n} /\ n \in Node
    BY <1>7, <2>1, RunEntryIs DEF MayEnter
  <2>3. jump' = (jump \/ HasJump(n)) /\ jump \in BOOLEAN
    BY <1>7, <2>1 DEF RunEntry, JumpInv
  <2>4. Exits(call) = {} /\ Enters(call) = {n}
    BY <1>7, <2>1, <2>2 DEF RunEntry, Calling, call, Exits, Enters
  <2>5. HasJump(n) \in BOOLEAN
    BY DEF HasJump
  <2>6. CASE HasJump(n)
    <3>1. jump' = TRUE
      BY <2>3, <2>6
    <3> QED
      BY <1>4, <3>1, JumpSafeIs
  <2>7. CASE ~HasJump(n)
    <3>1. jump' = jump
      BY <2>3, <2>5, <2>7
    <3>2. ~Pseudo(n)
      BY <2>2, <2>7 DEF LeadsOn, HasJump
    <3>3. \A q : ~Settles(call, q)
      BY <1>5, <2>4, <2>7 DEF Settles
    <3>4. \A q \in active' : Pseudo(q) => jump' = TRUE \/ Moved(q, Items(todo'))
      BY <1>1, <1>2, <2>2, <3>1, <3>2, <3>3, ReturnMoves DEF JumpInv
    <3> QED
      BY <1>4, <2>3, <3>1, <3>4, JumpSafeIs
  <2> QED
    BY <2>6, <2>7
<1>8. CASE RunExit
  <2>1. PICK n : n = call.node
    OBVIOUS
  <2>2. active' = active \ {n} /\ n \in active
    BY <1>8, <2>1, RunExitIs
  <2>3. jump' = jump
    BY <1>8 DEF RunExit
  <2>4. Exits(call) \subseteq {n} /\ Enters(call) = {}
    BY <1>8, <2>1 DEF RunExit, Calling, call, Exits, Enters
  <2>5. \A q \in active' : ~Settles(call, q)
    BY <1>5, <2>2, <2>4 DEF Settles
  <2>6. \A q \in active' : Pseudo(q) => jump' = TRUE \/ Moved(q, Items(todo'))
    BY <1>1, <1>2, <2>2, <2>3, <2>5, ReturnMoves DEF JumpInv
  <2>7. jump' \in BOOLEAN
    BY <2>3 DEF JumpInv
  <2> QED
    BY <1>4, <2>6, <2>7, JumpSafeIs
<1> QED
  BY <1>6, <1>7, <1>8

\* The root is above every node.
LEMMA RootIsAbove ==
    ASSUME NEW n \in Node
    PROVE  Root \in Upward[n]
<1>1. 0 \in Nat /\ 0 <= depth[n]
  BY DepthOfParent
<1>2. PICK m \in Upward[n] : depth[m] = 0
  BY <1>1, EveryDepth
<1>3. m \in Node
  BY UpwardType
<1>4. m # Root => depth[m] # 0
  BY <1>3, DepthOfParent
<1> QED
  BY <1>2, <1>4

\* What follows the walks of an event.
LEMMA LastJump ==
    ASSUME EngineInv, JumpInv, JumpsDone \/ Pop \/ TriggerAgain \/ TakeEvent
    PROVE  JumpInv'
<1>1. /\ todo # <<>> /\ call.op \in {"jump", "pop", "retrigger", "take"}
      /\ stays' = stays /\ jump' = jump
  BY DEF JumpsDone, Pop, TriggerAgain, TakeEvent, Calling, call, engine, history
<1>2. Good(todo, state, active) /\ active' = active /\ Rank(call) = 8
  <2>1. Rank(call) = 8
    BY <1>1 DEF Rank
  <2> QED
    BY <1>1, <2>1, InvIsGood, ActiveStays
<1>3. /\ \A b \in Items(todo) : Rank(b) = 8
      /\ \A q \in active : Pseudo(q) => jump = TRUE
  BY <1>1, <1>2, AllLast
<1>4. Items(todo) = {call} \cup Items(Tail(todo)) /\ IsList(Tail(todo))
  BY <1>1, <1>2, FirstItems
<1>5. jump' \in BOOLEAN /\ \A q \in active' : Pseudo(q) => jump' = TRUE
  BY <1>1, <1>2, <1>3 DEF JumpInv
<1>6. CASE todo' = <<>> \o Tail(todo)
  <2>1. Items(todo') = Items(Tail(todo))
    BY <1>1, <1>2, <1>6, ReturnItems
  <2>2. ~Asks(Items(todo'))
    BY <1>3, <1>4, <2>1 DEF Asks
  <2>3. jump' = TRUE => RunsJumps(Items(todo'))
    <3> SUFFICES ASSUME jump' = TRUE PROVE RunsJumps(Items(todo'))
      OBVIOUS
    <3>1. PICK b \in Items(todo) : b.op = "jump"
      BY <1>1 DEF JumpInv, RunsJumps
    <3>2. call.op # "jump"
      BY <1>1 DEF JumpsDone, Pop, TriggerAgain, TakeEvent, Calling, call
    <3> QED
      BY <1>4, <2>1, <3>1, <3>2 DEF RunsJumps
  <2> QED
    BY <1>5, <2>2, <2>3, JumpSafeIs
<1>7. CASE TakeEvent /\ queue # <<>>
  <2>1. PICK e : e = Head(queue)
    OBVIOUS
  <2>2. PICK calls : calls = <<WalkEvent(Root, e, NoEvent), RunJumps(e), PopEvent, Retrigger>>
    OBVIOUS
  <2>3. Makes(calls, OneTake(e))
    BY <2>2, TakeMakes
  <2>4. todo' = calls \o Tail(todo)
    BY <1>7, <2>1, <2>2 DEF TakeEvent, Becomes, When
  <2>5. Items(todo') = OneTake(e) \cup Items(Tail(todo))
    BY <1>4, <2>3, <2>4, ItemsJoin DEF Makes
  <2>6. RunsJumps(Items(todo'))
    BY <2>5, OfLast DEF RunsJumps, OneTake
  <2> QED
    BY <1>5, <2>6, JumpSafeIs
<1>8. CASE TakeEvent /\ queue = <<>>
  BY <1>6, <1>8 DEF TakeEvent, Becomes, When
<1>9. CASE JumpsDone \/ Pop \/ TriggerAgain
  BY <1>6, <1>9 DEF JumpsDone, Pop, TriggerAgain, Becomes
<1> QED
  BY <1>7, <1>8, <1>9

\* A jump walk is offered to all that is in.
LEMMA AgainJump ==
    ASSUME EngineInv, JumpInv, JumpAgain
    PROVE  JumpInv'
<1>1. /\ todo # <<>> /\ call.op = "jump" /\ stays' = stays /\ jump' = FALSE
      /\ todo' = <<WalkEvent(Root, Jump, call.last)>> \o todo
  BY DEF JumpAgain, Calling, call
<1>2. Good(todo, state, active) /\ active' = active
  BY <1>1, InvIsGood, ActiveStays
<1>3. PICK d : d = WalkEvent(Root, Jump, call.last)
  OBVIOUS
<1>4. Items(todo) = {call} \cup Items(Tail(todo)) /\ IsList(todo)
  BY <1>1, <1>2, FirstItems
<1>5. Makes(<<d>>, {d})
  BY MakesOne
<1>6. Items(todo') = {d} \cup Items(todo)
  BY <1>1, <1>3, <1>4, <1>5, ItemsJoin DEF Makes
<1>7. RunsJumps(Items(todo'))
  BY <1>1, <1>4, <1>6 DEF RunsJumps
<1>8. ASSUME NEW q \in active' PROVE Moved(q, Items(todo'))
  <2>1. q \in Node
    BY <1>2 DEF active
  <2>2. Root \in Upward[q] /\ Root \in Chain(Root)
    BY <2>1, RootIsAbove DEF Chain
  <2>3. Reaches(d, q)
    BY <1>3, <2>2 DEF Reaches, WalkEvent
  <2> QED
    BY <1>6, <2>3 DEF Moved, Settles
<1> QED
  BY <1>1, <1>7, <1>8, JumpSafeIs

\* The handler starts: nothing was left to do.
LEMMA CallbackJump ==
    ASSUME EngineInv, JumpInv, EventCallback
    PROVE  JumpInv'
<1>1. todo = <<>> /\ stays' = stays /\ jump' = jump
  BY DEF EventCallback, history
<1>2. active' = active /\ Items(todo) = {}
  BY <1>1, ActiveStays, MakesNone DEF Makes
<1>3. jump' \in BOOLEAN /\ jump' # TRUE /\ \A q \in active' : ~Pseudo(q)
  BY <1>1, <1>2 DEF JumpInv, RunsJumps, Moved
<1>4. CASE init
  <2>1. todo' = InitialWalk \o <<Take>>
    BY <1>4 DEF EventCallback, When
  <2>2. Items(todo') = FirstSet
    BY <2>1, FirstMakes DEF Makes
  <2>3. RunsJumps(Items(todo'))
    BY <2>2, OfLast DEF FirstSet, RunsJumps
  <2> QED
    BY <1>3, <2>3, JumpSafeIs
<1>5. CASE ~init
  <2>1. todo' = <<>> \o <<Take>> /\ <<>> \o <<Take>> = <<Take>>
    BY <1>5 DEF EventCallback, When
  <2>2. Items(todo') = {Take}
    BY <2>1, MakesOne DEF Makes
  <2>3. ~Asks(Items(todo'))
    BY <2>2, OfLast DEF Asks
  <2> QED
    BY <1>3, <2>3, JumpSafeIs
<1> QED
  BY <1>4, <1>5

\* Every step keeps the invariant of the jumps.
LEMMA JumpStep == Supported /\ LeadsOn /\ EngineInv /\ JumpInv /\ [Next]_vars => JumpInv'
<1> SUFFICES ASSUME Supported, LeadsOn, EngineInv, JumpInv, [Next]_vars PROVE JumpInv'
  OBVIOUS
<1>1. CASE \/ WalkEntryDown \/ WalkEntryUp \/ WalkExitDown \/ WalkExitUp
           \/ MakeTransition \/ PassOn \/ Descend \/ LeaveDone \/ ArriveDone
  <2>1. WalkStep
    BY <1>1 DEF WalkStep
  <2>2. Good(todo, state, active)
    BY <2>1, WalkStepIs, InvIsGood
  <2> QED
    BY <1>1, <2>2, WalksJump
<1>2. CASE AssignState \/ RunEntry \/ RunExit
  BY <1>2, CallsJump
<1>3. CASE JumpsDone \/ Pop \/ TriggerAgain \/ TakeEvent
  BY <1>3, LastJump
<1>4. CASE JumpAgain
  BY <1>4, AgainJump
<1>5. CASE EventCallback
  BY <1>5, CallbackJump
<1>6. CASE Environment \/ UNCHANGED vars
  <2>1. todo' = todo /\ stays' = stays /\ jump' = jump
    <3>1. CASE Environment
      BY <3>1 DEF Environment, QueueEvent, TimeComes, TimerFires, TimerCallback, history
    <3>2. CASE UNCHANGED vars
      BY <3>2 DEF vars, engine, history
    <3> QED
      BY <1>6, <3>1, <3>2
  <2>2. active' = active
    BY <2>1, ActiveStays
  <2> QED
    BY <2>1, <2>2 DEF JumpInv
<1> QED
  BY <1>1, <1>2, <1>3, <1>4, <1>5, <1>6 DEF Next, Engine

\* A settled machine is complete.
LEMMA SettledComplete ==
    ASSUME EngineInv, Settled(state, active), Root \in active
    PROVE  Config!Complete
<1>1. /\ active \subseteq Node /\ \A n \in active \ {Root} : parent[n] \in active
      /\ \A n \in Node : ~Parallel(n) => \A x, y \in Kids(n) \cap active : x = y
      /\ \A n \in active : IF Parallel(n) THEN Kids(n) \subseteq active
                           ELSE Kids(n) # {} => Kids(n) \cap active # {}
  BY DEF Settled
<1>2. ASSUME NEW n \in active, NEW subs, subs = {SubNodes[n][i] : i \in DOMAIN SubNodes[n]}
      PROVE  IF Parallel(n) THEN subs \subseteq active
             ELSE subs # {} => \E m \in subs : subs \cap active = {m}
  <2>1. subs = Kids(n)
    BY <1>1, <1>2, KidsDeclared
  <2>2. CASE Parallel(n)
    BY <1>1, <2>1, <2>2
  <2>3. CASE ~Parallel(n) /\ subs # {}
    <3>1. PICK m : m \in Kids(n) \cap active
      BY <1>1, <2>1, <2>3
    <3>2. Kids(n) \cap active = {m}
      BY <1>1, <2>3, <3>1
    <3> QED
      BY <2>1, <2>3, <3>1, <3>2
  <2> QED
    BY <2>2, <2>3
<1>3. \A n \in active :
         LET subs == {SubNodes[n][i] : i \in DOMAIN SubNodes[n]}
         IN  IF Parallel(n) THEN subs \subseteq active
             ELSE subs # {} => \E m \in subs : subs \cap active = {m}
  BY <1>2
<1>4. /\ Config!active = active /\ Config!parent = parent
      /\ \A n : Config!Parallel(n) = Parallel(n)
  BY ConfigTree, ConfigActive
<1>5. Root \in Config!active /\ \A n \in Config!active \ {Root} : Config!parent[n] \in Config!active
  BY <1>1, <1>4
<1>6. \A n \in Config!active :
         LET subs == {SubNodes[n][i] : i \in DOMAIN SubNodes[n]}
         IN  IF Config!Parallel(n) THEN subs \subseteq Config!active
             ELSE subs # {} => \E m \in subs : subs \cap Config!active = {m}
  BY <1>3, <1>4
<1> QED
  BY <1>5, <1>6, Zenon DEF Config!Complete

\* The application never sees the machine half way: whenever the handler returns
\* or a transition arrives, every state that is in has its sub-states in, and no
\* condition or junction is in when the handler returns, where each leads on.
THEOREM EngineComplete == Supported /\ LeadsOn => (Spec => []CompleteWhenSeen)
<1> SUFFICES ASSUME Supported, LeadsOn PROVE Spec => []CompleteWhenSeen
  OBVIOUS
<1>1. EngineInv /\ JumpInv => CompleteAtRest
  <2> SUFFICES ASSUME EngineInv, JumpInv, todo = <<>>, ~init
               PROVE  Config!Complete /\ \A n \in active : ~Pseudo(n)
    BY DEF CompleteAtRest, Resting
  <2>1. Settled(state, active) /\ Root \in active
    BY AtRest
  <2>2. Items(todo) = {}
    BY MakesNone DEF Makes
  <2>3. \A n \in active : ~Pseudo(n)
    BY <2>2 DEF JumpInv, RunsJumps, Moved
  <2> QED
    BY <2>1, <2>3, SettledComplete
<1>2. EngineInv => TransitionLands
  <2> SUFFICES ASSUME EngineInv, todo # <<>>, call.op = "arrive"
               PROVE  call.node \in active /\ Config!Complete
    BY DEF TransitionLands, Calling, call
  <2>1. PICK I : I = Items(todo)
    OBVIOUS
  <2>2. Good(todo, state, active)
    BY InvIsGood
  <2>3. /\ I = {call} \cup Items(Tail(todo)) /\ Fine(I, state, active)
        /\ Root \in Planned(I, active)
        /\ \A b \in Items(Tail(todo)) : Before(call, b)
    BY <2>1, <2>2, GoodOpens DEF Opens, call
  <2>4. \A b \in I : Rank(b) >= 6
    BY <2>3, RankType DEF Before, RankOrder, Rank
  <2>5. Settled(state, active) /\ Planned(I, active) = active
    BY <2>3, <2>4, SettledWhenDone, DoneSets
  <2>6. call.node \in Planned(I, active)
    BY <2>3 DEF Fine, Each, ArriveFine
  <2> QED
    BY <2>3, <2>5, <2>6, SettledComplete
<1>3. Init => JumpInv
  <2> SUFFICES ASSUME Init PROVE JumpInv
    OBVIOUS
  <2>1. jump = FALSE /\ active = {} /\ todo = <<>>
    BY DEF Init, active
  <2>2. Items(todo) = {}
    BY <2>1, MakesNone DEF Makes
  <2> QED
    BY <2>1, <2>2 DEF JumpInv, Asks
<1>4. EngineInv /\ JumpInv /\ [Next]_vars => JumpInv'
  BY JumpStep
<1>5. Spec => []EngineInv
  BY EngineHolds
<1>6. EngineInv /\ JumpInv => CompleteWhenSeen
  BY <1>1, <1>2 DEF CompleteWhenSeen
<1> QED
  BY <1>3, <1>4, <1>5, <1>6, PTL DEF Spec

--------------------------------------------------------------------------------
(* What is entered by default *)

\* A node enters itself, and with a node what it enters by default.
LEMMA DefaultStart ==
    ASSUME NEW t \in Node
    PROVE  ByDefault(t, t)
  BY UpwardStep, UpwardAntisymmetric, UpwardType DEF ByDefault

\* Seen from the top: by way of the default or, if there are regions, of each.
LEMMA DefaultDown ==
    ASSUME NEW n \in Node, NEW m \in Node
    PROVE  ByDefault(n, m) <=>
              m = n \/ \E k \in Kids(n) : (Region(k) \/ DefaultChild[n] = k) /\ ByDefault(k, m)
<1>1. ASSUME ByDefault(n, m), m # n
      PROVE  \E k \in Kids(n) : (Region(k) \/ DefaultChild[n] = k) /\ ByDefault(k, m)
  <2>1. PICK k \in Kids(n) : k \in Upward[m]
    BY <1>1, KidOnTheWay DEF ByDefault
  <2>2. k \in Node /\ parent[k] = n /\ n \in Upward[k] /\ k # n
    BY <2>1, ParentIsAbove DEF Kids
  <2>3. Region(k) \/ DefaultChild[n] = k
    BY <1>1, <2>1, <2>2 DEF ByDefault
  <2>4. ASSUME NEW x \in Upward[m] \ {k}, k \in Upward[x]
        PROVE  Region(x) \/ DefaultChild[parent[x]] = x
    <3>1. x \in Node
      BY UpwardType
    <3>2. n \in Upward[x] /\ x # n
      BY <2>1, <2>4, <3>1, KidAbove
    <3> QED
      BY <1>1, <3>2 DEF ByDefault
  <2> QED
    BY <2>1, <2>3, <2>4 DEF ByDefault
<1>2. ASSUME NEW k \in Kids(n), Region(k) \/ DefaultChild[n] = k, ByDefault(k, m)
      PROVE  ByDefault(n, m)
  <2>1. k \in Upward[m] /\ n \in Upward[m] /\ k \in Node \ {Root} /\ parent[k] = n
    BY <1>2, KidAbove DEF ByDefault, Kids
  <2>2. ASSUME NEW x \in Upward[m] \ {n}, n \in Upward[x]
        PROVE  Region(x) \/ DefaultChild[parent[x]] = x
    <3>1. x \in Node
      BY UpwardType
    <3>2. CASE k \in Upward[x]
      BY <1>2, <2>1, <3>2 DEF ByDefault
    <3>3. CASE x \in Upward[k] /\ x # k
      BY <2>1, <2>2, <3>1, <3>3, UpwardStep, UpwardAntisymmetric
    <3>4. x = k \/ k \in Upward[x] \/ x \in Upward[k]
      BY <2>1, UpwardIsLine
    <3> QED
      BY <1>2, <2>1, <3>2, <3>3, <3>4
  <2> QED
    BY <2>1, <2>2 DEF ByDefault
<1> QED
  BY <1>1, <1>2, DefaultStart

\* Seen from the end.
LEMMA DefaultUp ==
    ASSUME NEW t \in Node, NEW m \in Node, m # t
    PROVE  ByDefault(t, m) <=>
              /\ m # Root /\ ByDefault(t, parent[m])
              /\ Region(m) \/ DefaultChild[parent[m]] = m
<1>1. ASSUME ByDefault(t, m)
      PROVE  /\ m # Root /\ ByDefault(t, parent[m])
             /\ Region(m) \/ DefaultChild[parent[m]] = m
  <2>1. t \in Upward[m] /\ m \in Upward[m]
    BY <1>1, UpwardStep DEF ByDefault
  <2>2. m # Root
    BY <2>1, UpwardStep
  <2>3. Upward[m] = {m} \cup Upward[parent[m]] /\ parent[m] \in Node
    BY <2>2, UpwardStep, ParentIsAbove
  <2> QED
    BY <1>1, <2>1, <2>2, <2>3 DEF ByDefault
<1>2. ASSUME m # Root, ByDefault(t, parent[m]), Region(m) \/ DefaultChild[parent[m]] = m
      PROVE  ByDefault(t, m)
  <2>1. Upward[m] = {m} \cup Upward[parent[m]]
    BY <1>2, UpwardStep
  <2> QED
    BY <1>2, <2>1 DEF ByDefault
<1> QED
  BY <1>1, <1>2

\* A call that does not enter.
LEMMA BringsNone ==
    ASSUME NEW c, Rank(c) <= 3 \/ Rank(c) >= 6
    PROVE  Brings(c) = {}
  BY RankTells DEF Brings

\* What the calls of an entry walk will enter.
LEMMA OfBrings ==
    ASSUME NEW n \in Node
    PROVE  /\ Brings(CallEntry(n)) = {n}
           /\ \A v \in Node : Brings(SetState(n, v)) = {}
           /\ Brings(EntryDown(n, NoNode)) = {m \in Node : \E r \in Chain(n) : ByDefault(r, m)}
           /\ \A a, f : /\ Brings(EntryUp(n, a, NoNode, f))
                              = Between(n, a, f) \cup {m \in Node : ByDefault(n, m)}
                        /\ \A b \in Node : Brings(EntryUp(n, a, b, f)) = Between(n, a, f)
<1>1. Brings(CallEntry(n)) = {n}
  BY OfEntry DEF Brings
<1>2. ASSUME NEW v \in Node PROVE Brings(SetState(n, v)) = {}
  BY OfSet DEF Brings
<1>3. Brings(EntryDown(n, NoNode)) = {m \in Node : \E r \in Chain(n) : ByDefault(r, m)}
  <2>1. \A r \in Chain(n) : r \in Node /\ ByDefault(r, r)
    BY ChainType, DefaultStart
  <2>2. /\ Enters(EntryDown(n, NoNode)) = Chain(n)
        /\ Tops(EntryDown(n, NoNode)) = Chain(n)
    BY OfEntryDown
  <2> QED
    BY <2>1, <2>2 DEF Brings
<1>4. ASSUME NEW a, NEW f
      PROVE  Brings(EntryUp(n, a, NoNode, f)) = Between(n, a, f) \cup {m \in Node : ByDefault(n, m)}
  <2>1. /\ Enters(EntryUp(n, a, NoNode, f)) = Between(n, a, f)
        /\ Tops(EntryUp(n, a, NoNode, f)) = {n}
    BY OfEntryUp
  <2> QED
    BY <2>1 DEF Brings
<1>5. ASSUME NEW a, NEW f, NEW b \in Node
      PROVE  Brings(EntryUp(n, a, b, f)) = Between(n, a, f)
  <2>1. /\ Enters(EntryUp(n, a, b, f)) = Between(n, a, f)
        /\ Tops(EntryUp(n, a, b, f)) = {}
    BY OfEntryUp, RootIsNode
  <2> QED
    BY <2>1 DEF Brings
<1> QED
  BY <1>1, <1>2, <1>3, <1>4, <1>5

\* The calls of walk_entry_down enter what it promised to.
LEMMA BringsDown ==
    ASSUME NEW n \in Node
    PROVE  Brought(EntryDownSet(n, DefaultChild[n])) = Brings(EntryDown(n, NoNode))
<1>1. PICK k : k = DefaultChild[n]
  OBVIOUS
<1>2. PICK D : D = EntryDownSet(n, k)
  OBVIOUS
<1>3. NoNode \notin Node
  BY RootIsNode
<1>4. /\ Parallel(n) => k = NoNode
      /\ k # NoNode => k \in Kids(n) /\ k \in Node \ {Root} /\ parent[k] = n /\ ~Region(k)
  BY <1>1, DefaultIsKid DEF Kids, Region
<1>5. /\ Parallel(n) => children[n] \in Kids(n) /\ Chain(children[n]) = Kids(n)
      /\ NextRegion(n) = NoNode => Chain(n) = {n}
      /\ NextRegion(n) # NoNode => /\ NextRegion(n) \in Node
                                   /\ Chain(n) = {n} \cup Chain(NextRegion(n))
  BY ChainOfAll, ChainGoesOn, NextRegionIs DEF Kids
<1>6. \A m \in Kids(n) : m \in Node /\ (Region(m) <=> Parallel(n))
  BY DEF Kids, Region
<1>7. \A m \in Brings(EntryDown(n, NoNode)) :
         m \in Node /\ (ByDefault(n, m) \/ \E r \in Chain(n) \ {n} : ByDefault(r, m))
  BY OfBrings
<1>8. ASSUME NEW m \in Node, ByDefault(n, m) PROVE \E d \in D : m \in Brings(d)
  <2>1. CASE m = n
    BY <1>2, <2>1, OfBrings DEF EntryDownSet
  <2>2. CASE m # n
    <3>1. PICK x \in Kids(n) : (Region(x) \/ k = x) /\ ByDefault(x, m)
      BY <1>1, <1>8, <2>2, DefaultDown
    <3>2. CASE Parallel(n)
      <4>1. x \in Chain(children[n]) /\ children[n] \in Node
        BY <1>5, <1>6, <3>2
      <4>2. m \in Brings(EntryDown(children[n], NoNode))
        BY <3>1, <4>1, OfBrings
      <4> QED
        BY <1>2, <3>2, <4>2 DEF EntryDownSet
    <3>3. CASE ~Parallel(n)
      <4>1. k = x /\ k # NoNode /\ k \in Chain(k)
        BY <1>3, <1>6, <3>1, <3>3 DEF Chain
      <4>2. m \in Brings(EntryDown(k, NoNode))
        BY <1>6, <3>1, <4>1, OfBrings
      <4> QED
        BY <1>2, <4>1, <4>2 DEF EntryDownSet
    <3> QED
      BY <3>2, <3>3
  <2> QED
    BY <2>1, <2>2
<1>9. ASSUME NEW m \in Node, NEW r \in Chain(n) \ {n}, ByDefault(r, m)
      PROVE  \E d \in D : m \in Brings(d)
  <2>1. NextRegion(n) # NoNode /\ NextRegion(n) \in Node /\ r \in Chain(NextRegion(n))
    BY <1>5, <1>9
  <2>2. m \in Brings(EntryDown(NextRegion(n), NoNode))
    BY <1>9, <2>1, OfBrings
  <2> QED
    BY <1>2, <2>1, <2>2 DEF EntryDownSet
<1>10. ASSUME NEW d \in D, NEW m \in Brings(d), m \in Node
       PROVE  \E r \in Chain(n) : ByDefault(r, m)
  <2>0. n \in Chain(n)
    BY DEF Chain
  <2>1. CASE d = CallEntry(n)
    BY <2>0, <2>1, OfBrings, DefaultStart
  <2>2. CASE d = SetState(n, k) /\ k # NoNode
    BY <1>4, <2>2, OfBrings
  <2>3. CASE d = EntryDown(k, NoNode) /\ k # NoNode
    <3>1. k \in Kids(n) /\ k \in Node /\ Chain(k) = {k}
      BY <1>4, <2>3, ChainAlone
    <3>2. ByDefault(k, m)
      BY <2>3, <3>1, OfBrings
    <3>3. ByDefault(n, m)
      BY <1>1, <1>10, <3>1, <3>2, DefaultDown
    <3> QED
      BY <2>0, <3>3
  <2>4. CASE d = EntryDown(children[n], NoNode) /\ Parallel(n)
    <3>1. children[n] \in Node /\ Chain(children[n]) = Kids(n)
      BY <1>5, <1>6, <2>4
    <3>2. PICK r \in Kids(n) : ByDefault(r, m)
      BY <2>4, <3>1, OfBrings
    <3>3. ByDefault(n, m)
      BY <1>6, <1>10, <2>4, <3>2, DefaultDown
    <3> QED
      BY <2>0, <3>3
  <2>5. CASE d = EntryDown(NextRegion(n), NoNode) /\ NextRegion(n) # NoNode
    <3>1. PICK r \in Chain(NextRegion(n)) : ByDefault(r, m)
      BY <1>5, <2>5, OfBrings
    <3> QED
      BY <1>5, <2>5, <3>1
  <2> QED
    BY <1>2, <2>1, <2>2, <2>3, <2>4, <2>5 DEF EntryDownSet
<1>11. \A m \in Node : m \in Brings(EntryDown(n, NoNode)) <=> \E r \in Chain(n) : ByDefault(r, m)
  BY OfBrings
<1>12. \A m \in Node : (\E d \in D : m \in Brings(d)) <=> m \in Brings(EntryDown(n, NoNode))
  BY <1>8, <1>9, <1>10, <1>11
<1>13. Brings(EntryDown(n, NoNode)) \subseteq Node
  BY <1>7
<1> QED
  BY <1>1, <1>2, <1>12, <1>13 DEF Brought

\* The calls of walk_entry_up enter what it promised to.
LEMMA BringsUp ==
    ASSUME NEW n \in Node, NEW a \in Upward[n], NEW f \in BOOLEAN, NEW b,
           b = NoNode => ~Region(n) /\ (n # a \/ f = TRUE), b # NoNode => b \in Kids(n)
    PROVE  Brought(EntryUpSet(n, a, b, f)) = Brings(EntryUp(n, a, b, f))
<1>1. PICK D : D = EntryUpSet(n, a, b, f)
  OBVIOUS
<1>2. NoNode \notin Node /\ a \in Node /\ n \in Upward[n] /\ (b # NoNode => b \in Node)
  BY RootIsNode, UpwardType, UpwardStep DEF Kids
<1>3. Chain(n) = {n} \/ b # NoNode
  BY ChainAlone
<1>4. n # a => n # Root
  BY UpwardStep
<1>5. n # a => /\ parent[n] \in Node /\ n \in Node
               /\ \A m : m \in Between(n, a, f) <=> m = n \/ m \in Between(parent[n], a, f)
  <2> HAVE n # a
  <2>1. Upward[n] = {n} \cup Upward[parent[n]] /\ parent[n] \in Node
    BY <1>4, UpwardStep, ParentIsAbove
  <2> QED
    BY <2>1 DEF Between
<1>6. n = a => \A m : m \in Between(n, a, f) <=> m = n /\ f = TRUE
  <2> HAVE n = a
  <2>1. \A m \in Upward[a] : a \in Upward[m] => m = a
    BY <1>2, UpwardAntisymmetric, UpwardType
  <2> QED
    BY <1>2, <2>1 DEF Between
<1>7. \A m \in Brings(EntryUp(n, a, b, f)) : m \in Node
  BY DEF Brings, Enters
<1>8. ASSUME NEW m \in Node, m \in Between(n, a, f) PROVE \E d \in D : m \in Brings(d)
  <2>1. CASE m = n
    <3>1. n # a \/ f = TRUE
      BY <1>6, <1>8, <2>1
    <3>2. CASE b = NoNode
      <4>1. n \in Brings(EntryDown(n, NoNode))
        BY <1>3, <3>2, OfBrings, DefaultStart
      <4> QED
        BY <1>1, <2>1, <3>2, <4>1 DEF EntryUpSet
    <3>3. CASE b # NoNode
      BY <1>1, <2>1, <3>1, <3>3, OfBrings DEF EntryUpSet
    <3> QED
      BY <3>2, <3>3
  <2>2. CASE m # n
    <3>1. n # a /\ n # Root /\ parent[n] \in Node /\ m \in Between(parent[n], a, f)
      BY <1>4, <1>5, <1>6, <1>8, <2>2
    <3>2. m \in Brings(EntryUp(parent[n], a, n, f))
      BY <3>1, OfBrings
    <3> QED
      BY <1>1, <3>1, <3>2 DEF EntryUpSet
  <2> QED
    BY <2>1, <2>2
<1>9. ASSUME NEW m \in Node, ByDefault(n, m), b = NoNode PROVE \E d \in D : m \in Brings(d)
  <2>1. m \in Brings(EntryDown(n, NoNode))
    BY <1>3, <1>9, OfBrings
  <2> QED
    BY <1>1, <1>9, <2>1 DEF EntryUpSet
<1>10. ASSUME NEW d \in D, NEW m \in Brings(d), m \in Node
       PROVE  m \in Between(n, a, f) \/ (b = NoNode /\ ByDefault(n, m))
  <2>1. CASE n # Root /\ n # a /\ d = EntryUp(parent[n], a, n, f)
    BY <1>5, <2>1, OfBrings
  <2>2. CASE b = NoNode /\ d = EntryDown(n, NoNode)
    BY <1>3, <2>2, OfBrings
  <2>3. CASE b # NoNode /\ d = SetState(n, b)
    BY <1>2, <2>3, OfBrings
  <2>4. CASE b # NoNode /\ d = CallEntry(n) /\ (n # a \/ f = TRUE)
    BY <1>5, <1>6, <2>4, OfBrings
  <2> QED
    BY <1>1, <2>1, <2>2, <2>3, <2>4 DEF EntryUpSet
<1>11. \A m \in Node : m \in Brings(EntryUp(n, a, b, f)) <=>
                          m \in Between(n, a, f) \/ (b = NoNode /\ ByDefault(n, m))
  BY <1>2, OfBrings
<1> QED
  BY <1>1, <1>7, <1>8, <1>9, <1>10, <1>11 DEF Brought

--------------------------------------------------------------------------------
(* The states that pointers will be moved to *)

\* A region is no state proper.
LEMMA RegionType ==
    ASSUME NEW m \in Node
    PROVE  /\ Region(m) <=> NodeType[m] = "parallel"
           /\ Region(m) => m \notin Real
<1>1. ASSUME Region(m) PROVE NodeType[m] = "parallel"
  <2>1. m \in Node \ {Root} /\ Parallel(parent[m])
    BY <1>1 DEF Region
  <2>2. /\ parent[m] \in Node
        /\ \E i \in DOMAIN SubNodes[parent[m]] : SubNodes[parent[m]][i] = m
    BY <2>1, Declared
  <2> QED
    BY <2>1, <2>2, TreeAssumption
<1>2. ASSUME NodeType[m] = "parallel" PROVE Region(m)
  <2>1. m \in Node \ {Root}
    BY <1>2, NodeAssumption
  <2>2. \E i \in DOMAIN SubNodes[parent[m]] : SubNodes[parent[m]][i] = m
    BY <2>1, Declared
  <2> QED
    BY <1>2, <2>1, <2>2 DEF Region, Parallel
<1> QED
  BY <1>1, <1>2 DEF Real

\* A call that does not enter.
LEMMA CountedNone ==
    ASSUME NEW c, Rank(c) <= 3 \/ Rank(c) >= 6
    PROVE  Counted(c) = {}
<1>1. Sets(c) = {} /\ Tops(c) = {} /\ c.op # "entry_up"
  BY RankTells
<1> QED
  BY <1>1 DEF Counted

\* What the calls of an entry walk will move pointers to.
LEMMA OfCounted ==
    ASSUME NEW n \in Node, NEW m \in Real
    PROVE  /\ \A v \in Node : m \in Counted(SetState(n, v)) <=> m = v
           /\ m \in Counted(EntryDown(n, NoNode))
                 <=> \E r \in Chain(n) : m # r /\ ByDefault(r, m)
<1>1. ASSUME NEW v \in Node PROVE m \in Counted(SetState(n, v)) <=> m = v
  <2>1. PICK c : c = SetState(n, v)
    OBVIOUS
  <2>2. Tops(c) = {} /\ Sets(c) = {v} /\ c.op # "entry_up"
    BY <2>1, OfSet DEF SetState
  <2> QED
    BY <2>1, <2>2 DEF Counted
<1>2. m \in Counted(EntryDown(n, NoNode)) <=> \E r \in Chain(n) : m # r /\ ByDefault(r, m)
  <2>1. PICK c : c = EntryDown(n, NoNode)
    OBVIOUS
  <2>2. Tops(c) = Chain(n) /\ Sets(c) = {} /\ c.op # "entry_up"
    BY <2>1, OfEntryDown DEF EntryDown
  <2> QED
    BY <2>1, <2>2 DEF Counted
<1> QED
  BY <1>1, <1>2

\* Whether m is one of those, for a call of walk_entry_up.
UpCounts(n, a, b, m) ==
    m = b \/ (b = NoNode /\ IF m = n THEN m # a ELSE ByDefault(n, m))

LEMMA OfCountedUp ==
    ASSUME NEW n \in Node, NEW a \in Node, NEW b \in Node \cup {NoNode}, NEW f, NEW m \in Real
    PROVE  m \in Counted(EntryUp(n, a, b, f)) <=> UpCounts(n, a, b, m)
<1>1. PICK c : c = EntryUp(n, a, b, f)
  OBVIOUS
<1>2. c.op = "entry_up" /\ c.node = n /\ c.ancestor = a /\ c.branch = b
  BY <1>1 DEF EntryUp
<1>3. m \in Node /\ m # NoNode
  BY RootIsNode DEF Real
<1>4. m \in Sets(c) <=> m = b
  BY <1>2, <1>3 DEF Sets
<1>5. \A x : x \in Tops(c) <=> b = NoNode /\ x = n
  BY <1>2 DEF Tops
<1> QED
  BY <1>1, <1>2, <1>4, <1>5 DEF Counted, UpCounts

\* The calls of walk_entry_down move the pointers that it promised to.
LEMMA CountedDown ==
    ASSUME NEW n \in Node, NEW m \in Counted(EntryDown(n, NoNode))
    PROVE  \E d \in EntryDownSet(n, DefaultChild[n]) : m \in Counted(d)
<1>1. PICK k : k = DefaultChild[n]
  OBVIOUS
<1>2. PICK D : D = EntryDownSet(n, k)
  OBVIOUS
<1>3. m \in Real /\ m \in Node /\ ~Region(m)
  BY RegionType DEF Real, Counted
<1>4. PICK r \in Chain(n) : m # r /\ ByDefault(r, m)
  BY <1>3, OfCounted
<1>5. CASE r # n
  <2>1. NextRegion(n) # NoNode /\ NextRegion(n) \in Node /\ r \in Chain(NextRegion(n))
    BY <1>4, <1>5, ChainGoesOn, NextRegionIs DEF Kids
  <2>2. m \in Counted(EntryDown(NextRegion(n), NoNode))
    BY <1>3, <1>4, <2>1, OfCounted
  <2> QED
    BY <1>1, <1>2, <2>1, <2>2 DEF EntryDownSet
<1>6. CASE r = n
  <2>1. PICK x \in Kids(n) : (Region(x) \/ k = x) /\ ByDefault(x, m)
    BY <1>1, <1>3, <1>4, <1>6, DefaultDown
  <2>2. x \in Node /\ parent[x] = n /\ x # Root
    BY DEF Kids
  <2>3. CASE Parallel(n)
    <3>1. x \in Chain(children[n]) /\ children[n] \in Node /\ Region(x)
      BY <2>2, <2>3, ChainOfAll DEF Kids, Region
    <3>2. m \in Counted(EntryDown(children[n], NoNode))
      BY <1>3, <2>1, <3>1, OfCounted
    <3> QED
      BY <1>1, <1>2, <2>3, <3>2 DEF EntryDownSet
  <2>4. CASE ~Parallel(n)
    <3>1. k = x /\ k # NoNode /\ k \in Chain(k)
      BY <2>1, <2>2, <2>4, RootIsNode DEF Chain, Region
    <3>2. CASE m = k
      BY <1>1, <1>2, <1>3, <2>2, <3>1, <3>2, OfCounted DEF EntryDownSet
    <3>3. CASE m # k
      <4>1. m \in Counted(EntryDown(k, NoNode))
        BY <1>3, <2>1, <2>2, <3>1, <3>3, OfCounted
      <4> QED
        BY <1>1, <1>2, <3>1, <4>1 DEF EntryDownSet
    <3> QED
      BY <3>2, <3>3
  <2> QED
    BY <2>3, <2>4
<1> QED
  BY <1>5, <1>6

\* The calls of walk_entry_up move the pointers that it promised to.
LEMMA CountedUp ==
    ASSUME NEW n \in Node, NEW a \in Upward[n], NEW b, b # NoNode => b \in Kids(n),
           NEW f, NEW m \in Counted(EntryUp(n, a, b, f))
    PROVE  \E d \in EntryUpSet(n, a, b, f) : m \in Counted(d)
<1>1. /\ b \in Node \cup {NoNode} /\ a \in Node /\ m \in Real /\ m # NoNode
      /\ \A x : x \in Upward[Root] => x = Root
  BY UpwardType, UpwardStep, RootIsNode DEF Kids, Real, Counted
<1>2. UpCounts(n, a, b, m)
  BY <1>1, OfCountedUp
<1>3. CASE m = b
  <2>1. b # NoNode /\ m \in Counted(SetState(n, b))
    BY <1>1, <1>3, OfCounted
  <2> QED
    BY <2>1 DEF EntryUpSet
<1>4. CASE b = NoNode /\ m # n /\ ByDefault(n, m)
  <2>1. n \in Chain(n)
    BY DEF Chain
  <2>2. m \in Counted(EntryDown(n, NoNode))
    BY <1>1, <1>4, <2>1, OfCounted
  <2> QED
    BY <1>4, <2>2 DEF EntryUpSet
<1>5. CASE m = n /\ n # a
  <2>1. n # Root /\ parent[n] \in Node
    BY <1>1, <1>5, ParentIsAbove
  <2>2. m \in Counted(EntryUp(parent[n], a, n, f))
    BY <1>1, <1>5, <2>1, OfCountedUp DEF UpCounts
  <2> QED
    BY <1>5, <2>1, <2>2 DEF EntryUpSet
<1> QED
  BY <1>2, <1>3, <1>4, <1>5 DEF UpCounts

--------------------------------------------------------------------------------
(* Who is still offered the event *)

\* Only walks have an event to offer.
LEMMA AheadNone ==
    ASSUME NEW c, Rank(c) # 7
    PROVE  Ahead(c) = {}
  BY RankTells DEF Ahead

\* A list in which no walk waits.
LEMMA SpacedNone ==
    ASSUME NEW s, \A b \in Items(s) : Ahead(b) = {}
    PROVE  Spaced(s)
  BY DEF Spaced, Items, Apart, Beside

\* A list with one call at the most.
LEMMA SpacedOne ==
    ASSUME NEW a, NEW p \in BOOLEAN
    PROVE  Spaced(When(p, <<a>>)) /\ Spaced(<<a>>)
<1>1. DOMAIN <<a>> = {1} /\ DOMAIN <<>> = {}
  OBVIOUS
<1>2. Spaced(<<a>>) /\ Spaced(<<>>)
  BY <1>1 DEF Spaced
<1> QED
  BY <1>2 DEF When

\* One list after the other.
LEMMA SpacedJoin ==
    ASSUME NEW s, NEW D, IsList(s), D = Items(s), Spaced(s),
           NEW t, NEW E, IsList(t), E = Items(t), Spaced(t),
           \A a \in D, b \in E : Apart(a, b)
    PROVE  Spaced(s \o t)
<1>1. s \in Seq(D) /\ t \in Seq(E) /\ s \in Seq(D \cup E) /\ t \in Seq(D \cup E)
  BY DEF IsList
<1>2. /\ Len(s) \in Nat /\ Len(t) \in Nat
      /\ DOMAIN s = 1 .. Len(s) /\ DOMAIN t = 1 .. Len(t)
      /\ DOMAIN (s \o t) = 1 .. Len(s) + Len(t)
      /\ \A i \in 1 .. Len(s) + Len(t) :
            (s \o t)[i] = IF i <= Len(s) THEN s[i] ELSE t[i - Len(s)]
  BY <1>1
<1>3. /\ \A i \in DOMAIN s : s[i] \in D
      /\ \A i \in DOMAIN t : t[i] \in E
  BY <1>1
<1> SUFFICES ASSUME NEW i \in 1 .. Len(s) + Len(t), NEW j \in 1 .. Len(s) + Len(t), i < j
             PROVE  Apart((s \o t)[i], (s \o t)[j])
  BY <1>2 DEF Spaced
<1>4. CASE j <= Len(s)
  <2>1. i \in DOMAIN s /\ j \in DOMAIN s /\ (s \o t)[i] = s[i] /\ (s \o t)[j] = s[j]
    BY <1>2, <1>4
  <2> QED
    BY <2>1 DEF Spaced
<1>5. CASE i > Len(s)
  <2>1. /\ i - Len(s) \in DOMAIN t /\ j - Len(s) \in DOMAIN t /\ i - Len(s) < j - Len(s)
        /\ (s \o t)[i] = t[i - Len(s)] /\ (s \o t)[j] = t[j - Len(s)]
    BY <1>2, <1>5
  <2> QED
    BY <2>1 DEF Spaced
<1>6. CASE i <= Len(s) /\ j > Len(s)
  <2>1. /\ i \in DOMAIN s /\ j - Len(s) \in DOMAIN t
        /\ (s \o t)[i] = s[i] /\ (s \o t)[j] = t[j - Len(s)]
    BY <1>2, <1>6
  <2> QED
    BY <1>3, <2>1
<1> QED
  BY <1>2, <1>4, <1>5, <1>6

\* The first call, and the others.
LEMMA SpacedFirst ==
    ASSUME NEW s, IsList(s), Spaced(s), s # <<>>
    PROVE  Spaced(Tail(s)) /\ \A b \in Items(Tail(s)) : Apart(Head(s), b)
<1>1. /\ Len(s) \in Nat \ {0} /\ DOMAIN s = 1 .. Len(s) /\ Head(s) = s[1]
      /\ DOMAIN Tail(s) = 1 .. Len(s) - 1
      /\ \A i \in 1 .. Len(s) - 1 : Tail(s)[i] = s[i + 1]
  BY DEF IsList
<1>2. Spaced(Tail(s))
  BY <1>1 DEF Spaced
<1>3. ASSUME NEW b \in Items(Tail(s)) PROVE Apart(Head(s), b)
  <2>1. PICK i \in 1 .. Len(s) - 1 : b = Tail(s)[i]
    BY <1>1 DEF Items
  <2> QED
    BY <1>1, <2>1 DEF Spaced
<1> QED
  BY <1>2, <1>3

\* The first call is replaced by those it makes.
LEMMA OfferedGoesOn ==
    ASSUME NEW s, IsList(s), Ordered(s), s # <<>>, NEW H, Offered(s, H),
           NEW R, R = Items(Tail(s)), NEW calls, NEW D, Makes(calls, D), Spaced(calls),
           \A d \in D, b \in R : Apart(d, b), NEW G, Unheard(D, G), Unheard(R, G)
    PROVE  Offered(calls \o Tail(s), G)
<1>1. Makes(Tail(s), R) /\ Spaced(Tail(s))
  BY MakesFirst, SpacedFirst DEF Offered
<1>2. Spaced(calls \o Tail(s))
  BY <1>1, SpacedJoin DEF Makes
<1>3. Items(calls \o Tail(s)) = D \cup R
  BY <1>1, ItemsJoin DEF Makes
<1> QED
  BY <1>2, <1>3 DEF Offered, Unheard

\* What the first call and the others have to do with each other.
LEMMA OfferedOpens ==
    ASSUME NEW s, IsList(s), Ordered(s), s # <<>>, NEW H, Offered(s, H),
           NEW c, c = Head(s), NEW R, R = Items(Tail(s))
    PROVE  (\A b \in R : Apart(c, b)) /\ Unheard(R, H) /\ Ahead(c) \cap H = {}
<1>1. Items(s) = {c} \cup R
  BY MakesFirst
<1> QED
  BY <1>1, SpacedFirst DEF Offered, Unheard

\* A walk that enters or leaves offers nobody the event.
LEMMA MovesOffered ==
    ASSUME NEW s, IsList(s), Ordered(s), s # <<>>, NEW H, Offered(s, H),
           NEW c, c = Head(s), NEW calls, NEW D, Makes(calls, D), \A d \in D : Rank(d) # 7,
           Brought(D) \subseteq Brings(c)
    PROVE  Offered(calls \o Tail(s), H)
<1>1. PICK R : R = Items(Tail(s))
  OBVIOUS
<1>2. (\A b \in R : Apart(c, b)) /\ Unheard(R, H)
  BY <1>1, OfferedOpens
<1>3. \A d \in D : Ahead(d) = {} /\ d.op \notin {"event", "descend"}
  BY AheadNone, RankTells
<1>4. Spaced(calls) /\ Unheard(D, H)
  BY <1>3, SpacedNone DEF Makes, Unheard
<1>5. ASSUME NEW d \in D, NEW b \in R PROVE Apart(d, b)
  <2>1. ASSUME NEW m \in Brings(d), m \in Ahead(b) PROVE FALSE
    <3>1. m \in Node
      BY <2>1 DEF Ahead
    <3>2. m \in Brings(c)
      BY <3>1 DEF Brought
    <3> QED
      BY <1>2, <2>1, <3>2 DEF Apart
  <2>2. Brings(d) \cap Ahead(b) = {}
    BY <2>1
  <2> QED
    BY <1>3, <2>2 DEF Apart
<1> QED
  BY <1>1, <1>2, <1>4, <1>5, OfferedGoesOn

\* What a walk of the event from n comes to.
LEMMA OfAhead ==
    ASSUME NEW n \in Node, NEW e, NEW last
    PROVE  /\ Ahead(WalkEvent(n, e, last)) = {m \in Node : \E r \in Chain(n) : r \in Upward[m]}
           /\ Ahead(WalkState(n, e, last))
                = {m \in Node : n # m /\ n \in Upward[m] /\ ~Parallel(n)}
<1> PICK c : c = WalkEvent(n, e, last)
  OBVIOUS
<1> PICK d : d = WalkState(n, e, last)
  OBVIOUS
<1>1. c.op = "event" /\ c.node = n /\ d.op = "descend" /\ d.node = n
  BY OfWalk
<1>2. Ahead(c) = {m \in Node : \E r \in Chain(n) : r \in Upward[m]}
  BY <1>1 DEF Ahead
<1>3. Ahead(d) = {m \in Node : n # m /\ n \in Upward[m] /\ ~Parallel(n)}
  BY <1>1 DEF Ahead
<1> QED
  BY <1>2, <1>3

\* Where the event goes on from n: it comes to nothing new, and not to n again.
Fewer(c, d) == Rank(d) = 7 /\ Ahead(d) \subseteq Ahead(c) \ {c.node}

LEMMA OthersFewer ==
    ASSUME NEW c, c.op = "event", c.node \in Node,
           NEW d \in OthersSet(c.node, c.event, c.last)
    PROVE  Fewer(c, d)
<1> PICK n : n = c.node
  OBVIOUS
<1>1. /\ n \in Node /\ n \in Chain(n) /\ n \in Upward[n]
      /\ Ahead(c) = {m \in Node : \E r \in Chain(n) : r \in Upward[m]}
  BY UpwardStep DEF Ahead, Chain
<1>2. CASE Parallel(n) /\ d = WalkEvent(children[n], c.event, c.last)
  <2>1. children[n] \in Node /\ Chain(children[n]) = Kids(n)
    BY <1>1, <1>2, ChainOfAll DEF Kids
  <2>2. Ahead(d) = {m \in Node : \E r \in Kids(n) : r \in Upward[m]}
    BY <1>2, <2>1, OfAhead
  <2>3. \A m \in Ahead(d) : n \in Upward[m] /\ m # n
    BY <1>1, <2>2, KidAbove
  <2> QED
    BY <1>1, <1>2, <2>2, <2>3, OfWalk DEF Fewer
<1>3. CASE NextRegion(n) # NoNode /\ d = WalkEvent(NextRegion(n), c.event, c.last)
  <2>1. /\ NextRegion(n) \in Node /\ Chain(n) = {n} \cup Chain(NextRegion(n))
        /\ n \notin Chain(NextRegion(n))
    BY <1>1, <1>3, NextRegionIs, ChainGoesOn DEF Kids
  <2>2. Ahead(d) = {m \in Node : \E r \in Chain(NextRegion(n)) : r \in Upward[m]}
    BY <1>3, <2>1, OfAhead
  <2>3. n \notin Ahead(d)
    <3>1. ASSUME NEW r \in Chain(NextRegion(n)), r \in Upward[n] PROVE FALSE
      <4>1. r \in Chain(n) /\ r # n
        BY <2>1
      <4>2. r \in Node \ {Root} /\ n \in Node \ {Root} /\ parent[r] = parent[n]
        BY <1>1, <4>1, ChainType
      <4> QED
        BY <1>1, <3>1, <4>1, <4>2, SiblingsApart
    <3> QED
      BY <2>2, <3>1
  <2> QED
    BY <1>1, <1>3, <2>1, <2>2, <2>3, OfWalk DEF Fewer
<1>4. CASE d = WalkState(n, c.event, c.last)
  <2>1. Ahead(d) = {m \in Node : n # m /\ n \in Upward[m] /\ ~Parallel(n)}
    BY <1>1, <1>4, OfAhead
  <2> QED
    BY <1>1, <1>4, <2>1, OfWalk DEF Fewer
<1> QED
  BY <1>2, <1>3, <1>4 DEF OthersSet

\* Where the event goes on from n, what else waits is still elsewhere.
LEMMA OthersApart ==
    ASSUME NEW c, c.op = "event", c.node \in Node, NEW b, Apart(c, b),
           NEW d \in OthersSet(c.node, c.event, c.last)
    PROVE  Apart(d, b)
<1> PICK n : n = c.node
  OBVIOUS
<1>1. Rank(d) = 7 /\ Ahead(d) \subseteq Ahead(c)
  BY OthersFewer DEF Fewer
<1>2. Brings(d) = {} /\ Ahead(d) \cap Ahead(b) = {}
  BY <1>1, BringsNone DEF Apart
<1>3. Beside(d.node, b)
  <2>1. CASE Ahead(b) = {}
    BY <2>1 DEF Beside
  <2>2. CASE Ahead(b) # {}
    <3>1. PICK r \in Upward[n] :
             Region(r) /\ \A m \in Ahead(b) : parent[r] \in Upward[m] /\ r \notin Upward[m]
      BY <2>2 DEF Apart, Beside
    <3>2. CASE Parallel(n) /\ d = WalkEvent(children[n], c.event, c.last)
      <4>1. d.node \in Kids(n)
        BY <3>2, ChainOfAll, OfWalk
      <4>2. Upward[n] \subseteq Upward[d.node]
        BY <4>1, UpwardStep DEF Kids
      <4> QED
        BY <3>1, <4>2 DEF Beside
    <3>3. CASE NextRegion(n) # NoNode /\ d = WalkEvent(NextRegion(n), c.event, c.last)
      <4>1. PICK q : q = NextRegion(n)
        OBVIOUS
      <4>2. /\ q \in Kids(parent[n]) /\ parent[n] \in Node /\ n \in Node \ {Root} /\ d.node = q
            /\ Region(n)
        BY <3>3, <4>1, NextRegionIs, OfWalk DEF Kids
      <4>3. /\ q \in Node \ {Root} /\ parent[q] = parent[n] /\ Region(q)
            /\ Upward[n] = {n} \cup Upward[parent[n]]
            /\ Upward[q] = {q} \cup Upward[parent[n]]
        BY <4>2, UpwardStep DEF Kids, Region
      <4>4. CASE r # n
        BY <3>1, <4>2, <4>3, <4>4 DEF Beside
      <4>5. CASE r = n
        <5>1. ASSUME NEW m \in Ahead(b) PROVE parent[q] \in Upward[m] /\ q \notin Upward[m]
          <6>1. m \in Node /\ parent[n] \in Upward[m] /\ m \notin Ahead(d)
            BY <1>2, <3>1, <4>5 DEF Ahead
          <6>2. q \in Upward[m] => m \in Ahead(d)
            BY <3>3, <4>1, <4>3, <6>1, OfAhead DEF Chain
          <6> QED
            BY <4>3, <6>1, <6>2
        <5> QED
          BY <4>2, <4>3, <5>1 DEF Beside
      <4> QED
        BY <4>4, <4>5
    <3>4. CASE d = WalkState(n, c.event, c.last)
      BY <3>1, <3>4, OfWalk DEF Beside
    <3> QED
      BY <3>2, <3>3, <3>4 DEF OthersSet
  <2> QED
    BY <2>1, <2>2
<1> QED
  BY <1>2, <1>3 DEF Apart

\* The calls that walk_event makes when the event goes on have each their own.
LEMMA OthersSpaced ==
    ASSUME NEW n \in Node, NEW e, NEW last
    PROVE  Spaced(Others(n, e, last))
<1> DEFINE X1 == WalkEvent(children[n], e, last)
           X2 == WalkEvent(NextRegion(n), e, last)
           X3 == WalkState(n, e, last)
           one == When(Parallel(n), <<X1>>)
           two == When(NextRegion(n) # NoNode, <<X2>>)
           D1 == IF Parallel(n) THEN {X1} ELSE {}
           D2 == IF NextRegion(n) # NoNode THEN {X2} ELSE {}
           D3 == {X3}
<1>1. /\ Rank(X1) = 7 /\ X1.node = children[n] /\ Rank(X2) = 7 /\ X2.node = NextRegion(n)
      /\ Brings(X1) = {} /\ Brings(X2) = {}
  BY OfWalk, BringsNone
<1>2. Ahead(X3) = {m \in Node : n # m /\ n \in Upward[m] /\ ~Parallel(n)}
  BY OfAhead
<1>3. Parallel(n) => /\ children[n] \in Kids(n) /\ n \in Upward[children[n]]
                     /\ \A m \in Ahead(X1) : n \in Upward[m]
  <2> HAVE Parallel(n)
  <2>1. children[n] \in Kids(n) /\ Chain(children[n]) = Kids(n)
    BY ChainOfAll
  <2>2. children[n] \in Node \ {Root} /\ parent[children[n]] = n
    BY <2>1 DEF Kids
  <2>3. Ahead(X1) = {m \in Node : \E r \in Kids(n) : r \in Upward[m]}
    BY <2>1, <2>2, OfAhead
  <2>4. \A m \in Ahead(X1) : n \in Upward[m]
    BY <2>3, KidAbove
  <2> QED
    BY <2>1, <2>2, <2>4, ParentIsAbove
<1>4. NextRegion(n) # NoNode =>
         /\ Region(n) /\ Region(NextRegion(n)) /\ NextRegion(n) \in Node \ {Root}
         /\ n \in Node \ {Root} /\ parent[NextRegion(n)] = parent[n] /\ NextRegion(n) # n
         /\ \A m \in Ahead(X2) : m \in Node /\ parent[n] \in Upward[m] /\ n \notin Upward[m]
  <2> HAVE NextRegion(n) # NoNode
  <2>1. /\ Region(n) /\ NextRegion(n) \in Kids(parent[n]) /\ n \in Kids(parent[n])
        /\ NextRegion(n) # n
    BY NextRegionIs
  <2>2. /\ NextRegion(n) \in Node \ {Root} /\ n \in Node \ {Root} /\ parent[NextRegion(n)] = parent[n]
        /\ Region(NextRegion(n))
    BY <2>1 DEF Kids, Region
  <2>3. ASSUME NEW m \in Ahead(X2) PROVE m \in Node /\ parent[n] \in Upward[m] /\ n \notin Upward[m]
    <3>1. PICK r \in Chain(NextRegion(n)) : r \in Upward[m] /\ m \in Node
      BY <2>2, OfAhead
    <3>2. r \in Chain(n) /\ r # n
      BY ChainGoesOn
    <3>3. r \in Node \ {Root} /\ parent[r] = parent[n]
      BY <3>2, ChainType
    <3>4. parent[n] \in Upward[r] /\ Upward[r] \subseteq Upward[m]
      BY <3>1, <3>3, ParentIsAbove, UpwardTransitive
    <3> QED
      BY <2>2, <3>1, <3>2, <3>3, <3>4, SiblingsApart
  <2> QED
    BY <2>1, <2>2, <2>3
<1>6. Parallel(n) \in BOOLEAN
  BY DEF Parallel
<1> HIDE DEF X1, X2, X3
<1>5. /\ IsList(one) /\ Items(one) = D1 /\ IsList(two) /\ Items(two) = D2
      /\ IsList(<<X3>>) /\ Items(<<X3>>) = D3
  BY <1>6, MakesOne, MakesWhen DEF Makes
<1>7. Spaced(one) /\ Spaced(two) /\ Spaced(<<X3>>)
  BY <1>6, SpacedOne
<1>8. ASSUME NEW a \in D1, NEW b \in D2 PROVE Apart(a, b)
  <2>1. a = X1 /\ b = X2 /\ Parallel(n) /\ NextRegion(n) # NoNode
    OBVIOUS
  <2>2. Beside(children[n], X2)
    BY <1>3, <1>4, <2>1 DEF Beside
  <2>3. Ahead(X1) \cap Ahead(X2) = {}
    BY <1>3, <1>4, <2>1
  <2> QED
    BY <1>1, <2>1, <2>2, <2>3 DEF Apart
<1>9. ASSUME NEW a \in D1 \cup D2, NEW b \in D3 PROVE Apart(a, b)
  <2>1. CASE Parallel(n)
    <3>1. Ahead(X3) = {}
      BY <1>2, <2>1
    <3> QED
      BY <3>1 DEF Apart, Beside
  <2>2. CASE ~Parallel(n)
    <3>1. a = X2 /\ b = X3 /\ NextRegion(n) # NoNode
      BY <2>2
    <3>2. ASSUME NEW m \in Ahead(X3) PROVE parent[n] \in Upward[m] /\ NextRegion(n) \notin Upward[m]
      <4>1. n \in Upward[m] /\ m \in Node
        BY <1>2
      <4>2. parent[n] \in Upward[m]
        BY <1>4, <3>1, <4>1, ParentIsAbove, UpwardTransitive
      <4> QED
        BY <1>4, <3>1, <4>1, <4>2, SiblingsApart
    <3>3. NextRegion(n) \in Upward[NextRegion(n)]
      BY <1>4, <3>1, UpwardStep
    <3>4. Beside(NextRegion(n), X3)
      BY <1>4, <3>1, <3>2, <3>3 DEF Beside
    <3>5. Ahead(X2) \cap Ahead(X3) = {}
      BY <1>2, <1>4, <3>1
    <3> QED
      BY <1>1, <3>1, <3>4, <3>5 DEF Apart
  <2> QED
    BY <2>1, <2>2
<1> HIDE DEF one, two, D1, D2, D3
<1>10. Spaced(one \o two) /\ IsList(one \o two) /\ Items(one \o two) = D1 \cup D2
  BY <1>5, <1>7, <1>8, SpacedJoin, ItemsJoin
<1>11. Spaced((one \o two) \o <<X3>>)
  BY <1>5, <1>7, <1>9, <1>10, SpacedJoin
<1> QED
  BY <1>11 DEF Others, one, two, X1, X2, X3

\* The calls that enter say so by their op, their node and their way.
LEMMA EntrySame ==
    ASSUME NEW c
    PROVE  /\ c.op = "entry_down" =>
                 LET d == EntryDown(c.node, NoNode)
                 IN  Brings(c) = Brings(d) /\ Counted(c) = Counted(d)
           /\ c.op = "entry_up" =>
                 LET d == EntryUp(c.node, c.ancestor, c.branch, c.flag)
                 IN  Brings(c) = Brings(d) /\ Counted(c) = Counted(d)
<1>1. ASSUME c.op = "entry_down", NEW d, d = EntryDown(c.node, NoNode)
      PROVE  Brings(c) = Brings(d) /\ Counted(c) = Counted(d)
  <2>1. d.op = "entry_down" /\ d.node = c.node
    BY <1>1 DEF EntryDown
  <2> QED
    BY <1>1, <2>1 DEF Brings, Counted, Enters, Tops, Sets
<1>2. ASSUME c.op = "entry_up", NEW d, d = EntryUp(c.node, c.ancestor, c.branch, c.flag)
      PROVE  Brings(c) = Brings(d) /\ Counted(c) = Counted(d)
  <2>1. /\ d.op = "entry_up" /\ d.node = c.node /\ d.ancestor = c.ancestor
        /\ d.branch = c.branch /\ d.flag = c.flag
    BY <1>2 DEF EntryUp
  <2> QED
    BY <1>2, <2>1 DEF Brings, Counted, Enters, Tops, Sets, Way
<1> QED
  BY <1>1, <1>2

\* The walks that leave and enter make such calls, and enter what they promised
\* and move the pointers they promised to.
Walks(calls, D) ==
    /\ todo' = calls \o Tail(todo) /\ Makes(calls, D)
    /\ \A d \in D : Rank(d) \in {1, 2, 4, 5}
    /\ Brought(D) = Brings(call)
    /\ \A m \in Counted(call) : \E d \in D : m \in Counted(d)

\* walk_exit_down and walk_exit_up.
LEMMA ExitWalks ==
    ASSUME Good(todo, state, active), WalkExitDown \/ WalkExitUp
    PROVE  \E calls, D : Walks(calls, D)
<1>1. PICK D : /\ \E calls : Replaced(calls, D)
               /\ \A d \in D : Rank(d) \in {1, 2}
               /\ call.op \in {"exit_down", "exit_up"}
  <2>1. CASE WalkExitDown
    <3>1. PICK D : D = ExitDownSet(call.node, state[call.node], call.except)
      OBVIOUS
    <3>2. (\E calls : Replaced(calls, D)) /\ call.op = "exit_down"
      BY <2>1, <3>1, ExitDownIs DEF Becoming
    <3>3. \A d \in D : Rank(d) = 1
      BY <3>1 DEF ExitDownSet, Rank, ExitDown, CallExit, SetState
    <3> QED
      BY <3>2, <3>3
  <2>2. CASE WalkExitUp
    <3>1. PICK D : D = ExitUpSet(call.node, call.ancestor, call.branch, call.flag, state[call.node])
      OBVIOUS
    <3>2. (\E calls : Replaced(calls, D)) /\ call.op = "exit_up"
      BY <2>2, <3>1, ExitUpIs DEF Becoming
    <3>3. \A d \in D : Rank(d) \in {1, 2}
      BY <3>1 DEF ExitUpSet, Rank, ExitDown, ExitUp, CallExit, SetState
    <3> QED
      BY <3>2, <3>3
  <2> QED
    BY <2>1, <2>2
<1>2. PICK calls : Replaced(calls, D)
  BY <1>1
<1>3. \A d \in D : Brings(d) = {}
  BY <1>1, BringsNone
<1>4. Rank(call) \in {1, 2}
  BY <1>1 DEF Rank
<1>5. Brought(D) = Brings(call) /\ Counted(call) = {}
  BY <1>3, <1>4, BringsNone, CountedNone DEF Brought
<1> QED
  BY <1>1, <1>2, <1>5 DEF Walks, Replaced

\* walk_entry_down.
LEMMA EntryDownWalks ==
    ASSUME Good(todo, state, active), WalkEntryDown
    PROVE  \E calls, D : Walks(calls, D)
<1>1. PICK D : D = EntryDownSet(call.node, DefaultChild[call.node])
  OBVIOUS
<1>2. /\ \E calls : Replaced(calls, D)
      /\ call.op = "entry_down" /\ call.node \in Node
  BY <1>1, EntryDownIs DEF Becoming, PointsDown
<1>3. PICK calls : Replaced(calls, D)
  BY <1>2
<1>4. \A d \in D : Rank(d) \in {1, 5}
  BY <1>1 DEF EntryDownSet, Rank, EntryDown, CallEntry, SetState
<1>5. Brought(D) = Brings(call)
  BY <1>1, <1>2, BringsDown, EntrySame
<1>6. \A m \in Counted(call) : \E d \in D : m \in Counted(d)
  BY <1>1, <1>2, CountedDown, EntrySame
<1> QED
  BY <1>3, <1>4, <1>5, <1>6 DEF Walks, Replaced

\* walk_entry_up.
LEMMA EntryUpWalks ==
    ASSUME Good(todo, state, active), WalkEntryUp
    PROVE  \E calls, D : Walks(calls, D)
<1>1. PICK D : D = EntryUpSet(call.node, call.ancestor, call.branch, call.flag)
  OBVIOUS
<1>2. /\ \E calls : Replaced(calls, D)
      /\ call.op = "entry_up" /\ GoesUp(call)
      /\ call.branch = NoNode => call.node # call.ancestor \/ call.flag = TRUE
  BY <1>1, EntryUpIs DEF Becoming
<1>3. PICK calls : Replaced(calls, D)
  BY <1>2
<1>4. \A d \in D : Rank(d) \in {1, 4, 5}
  BY <1>1 DEF EntryUpSet, Rank, EntryUp, EntryDown, CallEntry, SetState
<1>5. Brought(D) = Brings(call)
  BY <1>1, <1>2, BringsUp, EntrySame DEF GoesUp
<1>6. \A m \in Counted(call) : \E d \in D : m \in Counted(d)
  BY <1>1, <1>2, CountedUp, EntrySame DEF GoesUp
<1> QED
  BY <1>3, <1>4, <1>5, <1>6 DEF Walks, Replaced

\* So they offer nobody the event.
LEMMA WalksOffered ==
    ASSUME Good(todo, state, active), todo # <<>>, NEW H, Offered(todo, H),
           NEW calls, NEW D, Walks(calls, D)
    PROVE  Offered(todo', H)
<1>1. /\ IsList(todo) /\ Ordered(todo) /\ Makes(calls, D) /\ call = Head(todo)
      /\ todo' = calls \o Tail(todo) /\ Brought(D) \subseteq Brings(call)
  BY DEF Good, Walks, call
<1>2. \A d \in D : Rank(d) # 7
  BY RankType DEF Walks
<1> QED
  BY <1>1, <1>2, MovesOffered

\* One for all.
LEMMA WalksAre ==
    ASSUME Good(todo, state, active),
           WalkExitDown \/ WalkExitUp \/ WalkEntryDown \/ WalkEntryUp
    PROVE  \E calls, D : Walks(calls, D)
  BY ExitWalks, EntryDownWalks, EntryUpWalks

\* A transition out of a region enters nothing that others of the state it
\* divides are still to offer the event.
LEMMA TransitMisses ==
    ASSUME NoWayBack, NEW n, NEW t \in Targets(n), NEW a, NEW f, Drawn(n, t, a, f),
           NEW b, Beside(n, b), NEW m \in Ahead(b), m \in Between(t, a, f) \/ ByDefault(t, m)
    PROVE  FALSE
<1>1. /\ n \in Node /\ t \in Node /\ a \in Node /\ a \in Upward[t] /\ m \in Node
      /\ \A x \in Upward[t] : Region(x) => x \in Upward[n]
  BY DrawnType DEF Drawn, Ahead
<1>2. PICK r \in Upward[n] : Region(r) /\ parent[r] \in Upward[m] /\ r \notin Upward[m]
  BY DEF Beside
<1>3. r \in Node \ {Root} /\ parent[r] \in Node /\ Parallel(parent[r])
  BY <1>1, <1>2, UpwardType, ParentIsAbove DEF Region
<1>4. r \notin Upward[t]
  <2> SUFFICES ASSUME r \in Upward[t] PROVE FALSE
    OBVIOUS
  <2>1. r \in Upward[a]
    BY <1>2, DrawnLowest
  <2>2. a \in Upward[m] \/ t \in Upward[m]
    BY DEF Between, ByDefault
  <2> QED
    BY <1>1, <1>2, <2>1, <2>2, UpwardTransitive
<1>5. ~ByDefault(t, parent[r])
  BY <1>1, <1>2 DEF NoWayBack
<1>6. parent[r] \notin Upward[t]
  <2> SUFFICES ASSUME parent[r] \in Upward[t] PROVE FALSE
    OBVIOUS
  <2>1. t # parent[r]
    BY <1>1, <1>5, DefaultStart
  <2>2. PICK k \in Kids(parent[r]) : k \in Upward[t]
    BY <1>1, <2>1, KidOnTheWay
  <2>3. k \in Node \ {Root} /\ parent[k] = parent[r] /\ Region(k)
    BY <1>3, <2>2 DEF Kids, Region
  <2>4. k = r
    BY <1>1, <1>2, <1>3, <2>2, <2>3, SiblingsApart
  <2> QED
    BY <1>4, <2>2, <2>4
<1>7. CASE m \in Between(t, a, f)
  <2>1. m \in Upward[t]
    BY <1>7 DEF Between
  <2> QED
    BY <1>1, <1>2, <1>6, <2>1, UpwardTransitive
<1>8. CASE ByDefault(t, m)
  <2>1. t \in Upward[parent[r]]
    BY <1>1, <1>2, <1>6, <1>8, UpwardIsLine DEF ByDefault
  <2>2. Upward[parent[r]] \subseteq Upward[m]
    BY <1>1, <1>2, UpwardTransitive
  <2>3. ByDefault(t, parent[r])
    BY <1>8, <2>1, <2>2 DEF ByDefault
  <2> QED
    BY <1>5, <2>3
<1> QED
  BY <1>7, <1>8

\* A transition.
LEMMA TransitOffered ==
    ASSUME Supported, NoWayBack, Good(todo, state, active), MakeTransition,
           NEW H, Offered(todo, H), NEW G, G = H \cup {call.node}
    PROVE  Offered(todo', G)
<1>1. PICK c : c = Head(todo)
  OBVIOUS
<1>2. PICK R : R = Items(Tail(todo))
  OBVIOUS
<1>3. c.op = "event" /\ todo # <<>> /\ c = call
  BY <1>1 DEF MakeTransition, Calling, call
<1>4. /\ \A b \in R : Apart(c, b)
      /\ Unheard(R, H) /\ IsList(todo) /\ Ordered(todo)
  BY <1>1, <1>2, <1>3, OfferedOpens DEF Good
<1>5. PICK n : n = c.node
  OBVIOUS
<1>6. PICK t, a, f : Asked(t, a, f)
  BY MakeTransitionIs
<1>7. /\ Drawn(n, t, a, f) /\ t \in Targets(n)
      /\ todo' = TransitCalls(n, t, a, f) \o Tail(todo)
  BY <1>3, <1>5, <1>6 DEF Asked
<1>8. n \in Node /\ t \in Node /\ n \in Chain(n) /\ n \in Upward[n]
  BY <1>7, DrawnType, UpwardStep DEF Chain
<1>9. PICK D : D = TransitSet(n, t, a, f)
  OBVIOUS
<1>10. Makes(TransitCalls(n, t, a, f), D)
  BY <1>7, <1>9, TransitMakes DEF TransitCalls
<1>11. ASSUME NEW d \in D
       PROVE  Rank(d) # 7 /\ (Rank(d) # 4 => Brings(d) = {})
              /\ (Rank(d) = 4 => d = EntryUp(t, a, NoNode, f))
  <2>1. /\ Rank(ExitUp(n, a, NoNode, f)) = 2 /\ Rank(Leave) = 3
        /\ Rank(EntryUp(t, a, NoNode, f)) = 4 /\ Rank(Arrive(n, t)) = 6
    BY DEF ExitUp, Leave, EntryUp, Arrive, Rank
  <2>2. Rank(d) \in {2, 3, 4, 6} /\ (Rank(d) = 4 => d = EntryUp(t, a, NoNode, f))
    BY <1>9, <1>11, <2>1 DEF TransitSet
  <2> QED
    BY <2>2, BringsNone
<1>12. \A d \in D : Ahead(d) = {} /\ d.op \notin {"event", "descend"}
  BY <1>11, AheadNone, RankTells
<1>13. Spaced(TransitCalls(n, t, a, f)) /\ Unheard(D, G)
  BY <1>10, <1>12, SpacedNone DEF Makes, Unheard
<1>14. ASSUME NEW d \in D, NEW b \in R PROVE Apart(d, b)
  <2>1. ASSUME NEW m \in Brings(d), m \in Ahead(b) PROVE FALSE
    <3>1. d = EntryUp(t, a, NoNode, f)
      BY <1>11, <2>1
    <3>2. m \in Between(t, a, f) \/ ByDefault(t, m)
      BY <1>8, <2>1, <3>1, OfBrings
    <3>3. Beside(n, b)
      BY <1>3, <1>4, <1>5 DEF Apart
    <3> QED
      BY <1>7, <2>1, <3>2, <3>3, TransitMisses
  <2> QED
    BY <1>12, <2>1 DEF Apart
<1>15. n \in Ahead(c)
  BY <1>3, <1>5, <1>8 DEF Ahead
<1>16. Unheard(R, G)
  BY <1>3, <1>4, <1>5, <1>15 DEF Unheard, Apart
<1> QED
  BY <1>2, <1>3, <1>4, <1>7, <1>10, <1>13, <1>14, <1>16, OfferedGoesOn

\* The event goes on.
LEMMA PassOnOffered ==
    ASSUME Good(todo, state, active), PassOn,
           NEW H, Offered(todo, H), NEW G, G = H \cup {call.node}
    PROVE  Offered(todo', G)
<1>1. PICK c : c = Head(todo)
  OBVIOUS
<1>2. PICK R : R = Items(Tail(todo))
  OBVIOUS
<1>3. c.op = "event" /\ todo # <<>> /\ c = call
  BY <1>1 DEF PassOn, Calling, call
<1>4. /\ \A b \in R : Apart(c, b)
      /\ Unheard(R, H) /\ Ahead(c) \cap H = {} /\ IsList(todo) /\ Ordered(todo)
  BY <1>1, <1>2, <1>3, OfferedOpens DEF Good
<1>5. PICK n : n = c.node
  OBVIOUS
<1>6. n \in Node /\ n \in Chain(n) /\ n \in Upward[n]
  BY <1>3, <1>5, PassOnGood, UpwardStep DEF Chain
<1>7. PICK D : D = OthersSet(n, c.event, c.last)
  OBVIOUS
<1>8. Makes(Others(n, c.event, c.last), D) /\ Spaced(Others(n, c.event, c.last))
  BY <1>6, <1>7, OthersMakes, OthersSpaced
<1>9. todo' = Others(n, c.event, c.last) \o Tail(todo)
  BY <1>3, <1>5 DEF PassOn, Becomes
<1>10. \A d \in D, b \in R : Apart(d, b)
  BY <1>3, <1>4, <1>5, <1>6, <1>7, OthersApart
<1>11. \A d \in D : Ahead(d) \subseteq Ahead(c) \ {n}
  BY <1>3, <1>5, <1>6, <1>7, OthersFewer DEF Fewer
<1>12. n \in Ahead(c)
  BY <1>3, <1>5, <1>6 DEF Ahead
<1>13. Unheard(D, G)
  BY <1>3, <1>4, <1>5, <1>11 DEF Unheard
<1>14. Unheard(R, G)
  BY <1>3, <1>4, <1>5, <1>12 DEF Unheard, Apart
<1> QED
  BY <1>2, <1>3, <1>4, <1>8, <1>9, <1>10, <1>13, <1>14, OfferedGoesOn

\* And to the current sub-state.
LEMMA DescendOffered ==
    ASSUME Good(todo, state, active), Descend, NEW H, Offered(todo, H)
    PROVE  Offered(todo', H)
<1>1. PICK c : c = Head(todo)
  OBVIOUS
<1>2. PICK R : R = Items(Tail(todo))
  OBVIOUS
<1>3. c.op = "descend" /\ todo # <<>> /\ c = call
  BY <1>1 DEF Descend, Calling, call
<1>4. /\ \A b \in R : Apart(c, b)
      /\ Unheard(R, H) /\ Ahead(c) \cap H = {} /\ IsList(todo) /\ Ordered(todo)
  BY <1>1, <1>2, <1>3, OfferedOpens DEF Good
<1>5. PICK n : n = c.node
  OBVIOUS
<1>6. PICK s : s = state[n]
  OBVIOUS
<1>7. PICK I : I = Items(todo)
  OBVIOUS
<1>8. c \in I /\ Fine(I, state, active)
  BY <1>1, <1>3, <1>7, GoodOpens DEF Opens
<1>9. n \in Node /\ (s # NoNode => s \in Kids(n) /\ ~Parallel(n))
  BY <1>3, <1>5, <1>6, <1>8 DEF Fine, Each, EventFine, Pointers
<1>10. PICK d : d = WalkEvent(s, c.event, c.last)
  OBVIOUS
<1>11. PICK D : D = DescendSet(n, s, c.event, c.last)
  OBVIOUS
<1>12. PICK calls : calls = When(s # NoNode, <<d>>)
  OBVIOUS
<1>13. todo' = calls \o Tail(todo)
  BY <1>3, <1>5, <1>6, <1>10, <1>12 DEF Descend, Becomes
<1>14. Makes(calls, D) /\ Spaced(calls)
  BY <1>10, <1>11, <1>12, MakesOne, MakesNone, SpacedOne DEF DescendSet, When
<1>15. s # NoNode => /\ Ahead(d) \subseteq Ahead(c) /\ Upward[n] \subseteq Upward[s]
                     /\ Brings(d) = {} /\ d.node = s
  <2> HAVE s # NoNode
  <2>1. s \in Node \ {Root} /\ parent[s] = n /\ ~Region(s)
    BY <1>9 DEF Kids, Region
  <2>2. Chain(s) = {s}
    BY <2>1, ChainAlone
  <2>3. Ahead(d) = {m \in Node : s \in Upward[m]}
    BY <1>10, <2>1, <2>2, OfAhead
  <2>4. \A m \in Ahead(d) : n \in Upward[m] /\ n # m
    BY <1>9, <2>3, KidAbove
  <2>5. Ahead(d) \subseteq Ahead(c)
    BY <1>3, <1>5, <1>9, <2>3, <2>4 DEF Ahead
  <2>6. Rank(d) = 7 /\ d.node = s
    BY <1>10, OfWalk
  <2> QED
    BY <2>1, <2>5, <2>6, UpwardStep, BringsNone
<1>16. \A g \in D : g = d /\ s # NoNode
  BY <1>10, <1>11 DEF DescendSet
<1>17. ASSUME NEW g \in D, NEW b \in R PROVE Apart(g, b)
  <2>1. g = d /\ s # NoNode
    BY <1>16
  <2>2. Beside(n, b) /\ Ahead(c) \cap Ahead(b) = {}
    BY <1>3, <1>4, <1>5 DEF Apart
  <2>3. Beside(s, b)
    BY <1>15, <2>1, <2>2 DEF Beside
  <2> QED
    BY <1>15, <2>1, <2>2, <2>3 DEF Apart
<1>18. Unheard(D, H)
  BY <1>4, <1>15, <1>16 DEF Unheard
<1> QED
  BY <1>2, <1>3, <1>4, <1>13, <1>14, <1>17, <1>18, OfferedGoesOn

\* A call that returns: what it was to enter may be entered by then.
LEMMA ReturnOffered ==
    ASSUME Good(todo, state, active), todo # <<>>, todo' = <<>> \o Tail(todo),
           NEW H, Offered(todo, H), NEW G, G \subseteq H \cup Brings(call)
    PROVE  Offered(todo', G)
<1>1. PICK R : R = Items(Tail(todo))
  OBVIOUS
<1>2. IsList(todo) /\ Ordered(todo) /\ Unheard(R, H)
  BY <1>1, OfferedOpens DEF Good
<1>3. \A b \in R : Apart(call, b)
  BY <1>1, <1>2, OfferedOpens DEF call
<1>4. Unheard(R, G)
  BY <1>2, <1>3 DEF Unheard, Apart
<1>5. PICK D : D = {}
  OBVIOUS
<1>6. /\ Unheard(D, G)
      /\ \A d \in D, b \in R : Apart(d, b)
  BY <1>5 DEF Unheard
<1>7. Makes(<<>>, D) /\ Spaced(<<>>)
  BY <1>5, MakesNone DEF Spaced
<1> QED
  BY <1>1, <1>2, <1>4, <1>6, <1>7, OfferedGoesOn

\* One walk at the most, and nothing was offered yet.
LEMMA StartOffered ==
    ASSUME NEW s, IsList(s), NEW t, IsList(t), Spaced(s),
           \A b \in Items(t) : Ahead(b) = {}
    PROVE  Offered(s \o t, {})
<1>1. Spaced(t)
  BY SpacedNone
<1>2. \A a \in Items(s), b \in Items(t) : Apart(a, b)
  BY DEF Apart, Beside
<1>3. Spaced(s \o t)
  BY <1>1, <1>2, SpacedJoin
<1> QED
  BY <1>3 DEF Offered, Unheard

\* What follows a walk.
LEMMA LastOffered ==
    ASSUME Good(todo, state, active), JumpsDone \/ JumpAgain \/ TakeEvent
    PROVE  Offered(todo', {})
<1>1. PICK c : c = Head(todo)
  OBVIOUS
<1>2. PICK R : R = Items(Tail(todo))
  OBVIOUS
<1>3. PICK I : I = Items(todo)
  OBVIOUS
<1>4. c.op \in {"jump", "take"} /\ todo # <<>>
  BY <1>1 DEF JumpsDone, JumpAgain, TakeEvent, Calling, call
<1>5. /\ I = {c} \cup R /\ \A b \in R : Before(c, b)
  BY <1>1, <1>2, <1>3, <1>4, GoodOpens DEF Opens
<1>6. IsList(todo) /\ IsList(Tail(todo)) /\ IsList(<<>>)
  BY <1>4, MakesFirst, MakesNone DEF Good, Makes
<1>7. Rank(c) = 8
  BY <1>4 DEF Rank
<1>8. \A b \in I : Rank(b) = 8
  BY <1>5, <1>7, RankType DEF Before, RankOrder
<1>9. \A b \in I : Ahead(b) = {}
  BY <1>8, AheadNone
<1>10. Spaced(<<>>)
  BY DEF Spaced
<1>11. CASE todo' = <<>> \o Tail(todo)
  BY <1>2, <1>5, <1>6, <1>9, <1>10, <1>11, StartOffered
<1>12. CASE JumpAgain
  <2>1. PICK d : d = WalkEvent(Root, Jump, call.last)
    OBVIOUS
  <2>2. todo' = <<d>> \o todo
    BY <1>12, <2>1 DEF JumpAgain
  <2>3. Spaced(<<d>>) /\ IsList(<<d>>)
    BY SpacedOne, MakesOne DEF Makes
  <2> QED
    BY <1>3, <1>6, <1>9, <2>2, <2>3, StartOffered
<1>13. CASE TakeEvent /\ queue # <<>>
  <2>1. PICK e : e = Head(queue)
    OBVIOUS
  <2>2. PICK w : w = WalkEvent(Root, e, NoEvent)
    OBVIOUS
  <2>3. PICK j : j = RunJumps(e)
    OBVIOUS
  <2>4. todo' = <<w, j, PopEvent, Retrigger>> \o Tail(todo)
    BY <1>13, <2>1, <2>2, <2>3 DEF TakeEvent, Becomes, When
  <2>5. IsList(<<w, j, PopEvent, Retrigger>>)
    BY <2>2, <2>3, TakeMakes DEF Makes
  <2>6. Ahead(j) = {} /\ Ahead(PopEvent) = {} /\ Ahead(Retrigger) = {}
    BY <2>3, OfLast, AheadNone
  <2>7. Spaced(<<w, j, PopEvent, Retrigger>>)
    BY <2>6 DEF Spaced, Apart, Beside
  <2> QED
    BY <1>2, <1>5, <1>6, <1>9, <2>4, <2>5, <2>7, StartOffered
<1>14. CASE JumpsDone
  BY <1>11, <1>14 DEF JumpsDone, Becomes
<1>15. CASE TakeEvent /\ queue = <<>>
  BY <1>11, <1>15 DEF TakeEvent, Becomes, When
<1> QED
  BY <1>12, <1>13, <1>14, <1>15

\* The handler starts: no walk has an event yet.
LEMMA CallbackRanks ==
    ASSUME EventCallback
    PROVE  \A b \in Items(todo') : Rank(b) # 7
<1>1. CASE init
  <2>1. Items(todo') = FirstSet
    BY <1>1, FirstMakes DEF EventCallback, When, Makes
  <2>2. Rank(EntryDown(Root, NoNode)) # 7
    BY DEF Rank, EntryDown
  <2> QED
    BY <2>1, <2>2, OfLast DEF FirstSet
<1>2. CASE ~init
  <2>1. todo' = <<>> \o <<Take>> /\ <<>> \o <<Take>> = <<Take>>
    BY <1>2 DEF EventCallback, When
  <2> QED
    BY <2>1, MakesOne, OfLast DEF Makes
<1> QED
  BY <1>1, <1>2

\* So a callback offers nobody anything yet.
LEMMA CallbackOffered ==
    ASSUME EventCallback, NEW H
    PROVE  Offered(todo', H)
  BY CallbackRanks, AheadNone, SpacedNone DEF Offered, Unheard

\* Every step keeps the invariant of the offers.
LEMMA OfferedStep ==
    Supported /\ NoWayBack /\ EngineInv /\ OfferInv /\ [Next]_vars => OfferInv'
<1> SUFFICES ASSUME Supported, NoWayBack, EngineInv, OfferInv, [Next]_vars
             PROVE  Offered(todo', heard' \cup fresh')
  BY DEF OfferInv, Offered, Spaced, Unheard, Items, Apart, Beside, Ahead, Brings, Enters, Tops, Way
<1>1. PICK H : H = heard \cup fresh
  OBVIOUS
<1>2. Offered(todo, H)
  BY <1>1 DEF OfferInv
<1>3. CASE WalkExitDown \/ WalkExitUp \/ WalkEntryDown \/ WalkEntryUp \/ Descend
  <2>1. heard' = heard /\ fresh' = fresh /\ todo # <<>>
    BY <1>3 DEF WalkExitDown, WalkExitUp, WalkEntryDown, WalkEntryUp, Descend, Calling, history
  <2>2. Good(todo, state, active)
    BY <2>1, InvIsGood
  <2>3. CASE ~Descend
    <3>1. PICK calls, D : Walks(calls, D)
      BY <1>3, <2>2, <2>3, WalksAre
    <3> QED
      BY <1>1, <1>2, <2>1, <2>2, <3>1, WalksOffered
  <2>4. CASE Descend
    BY <1>1, <1>2, <2>1, <2>2, <2>4, DescendOffered
  <2> QED
    BY <2>3, <2>4
<1>4. CASE MakeTransition \/ PassOn
  <2>1. heard' = heard \cup {call.node} /\ fresh' = fresh /\ todo # <<>>
    BY <1>4 DEF MakeTransition, PassOn, Calling
  <2>2. Good(todo, state, active)
    BY <2>1, InvIsGood
  <2>3. heard' \cup fresh' = H \cup {call.node}
    BY <1>1, <2>1
  <2> QED
    BY <1>2, <1>4, <2>2, <2>3, TransitOffered, PassOnOffered
<1>5. CASE \/ AssignState \/ RunEntry \/ RunExit \/ LeaveDone \/ ArriveDone \/ Pop
           \/ TriggerAgain
  <2>1. todo # <<>> /\ todo' = <<>> \o Tail(todo) /\ heard' = heard
    BY <1>5 DEF AssignState, RunEntry, RunExit, LeaveDone, ArriveDone, Pop, TriggerAgain,
                Calling, Becomes, history
  <2>2. Good(todo, state, active)
    BY <2>1, InvIsGood
  <2>3. fresh' \subseteq fresh \cup Brings(call)
    <3>1. CASE RunEntry
      <4>1. fresh' = fresh \cup {call.node} /\ call.op = "entry" /\ call.node \in Node
        BY <3>1, RunEntryIs DEF RunEntry, Calling, MayEnter, call
      <4> QED
        BY <4>1 DEF Brings, Enters
    <3>2. CASE ~RunEntry
      BY <1>5, <3>2 DEF AssignState, RunExit, LeaveDone, ArriveDone, Pop, TriggerAgain, history
    <3> QED
      BY <3>1, <3>2
  <2>4. heard' \cup fresh' \subseteq H \cup Brings(call)
    BY <1>1, <2>1, <2>3
  <2> QED
    BY <1>2, <2>1, <2>2, <2>4, ReturnOffered
<1>6. CASE JumpsDone \/ JumpAgain \/ TakeEvent
  <2>1. heard' \cup fresh' = {} /\ todo # <<>>
    BY <1>6 DEF JumpsDone, JumpAgain, TakeEvent, Calling
  <2>2. Good(todo, state, active)
    BY <2>1, InvIsGood
  <2> QED
    BY <1>6, <2>1, <2>2, LastOffered
<1>7. CASE EventCallback
  BY <1>7, CallbackOffered
<1>8. CASE Environment \/ UNCHANGED vars
  <2>1. todo' = todo /\ heard' = heard /\ fresh' = fresh
    <3>1. CASE Environment
      BY <3>1 DEF Environment, QueueEvent, TimeComes, TimerFires, TimerCallback, history
    <3>2. CASE UNCHANGED vars
      BY <3>2 DEF vars, history
    <3> QED
      BY <1>8, <3>1, <3>2
  <2> QED
    BY <1>1, <1>2, <2>1
<1> QED
  BY <1>3, <1>4, <1>5, <1>6, <1>7, <1>8 DEF Next, Engine

\* A state is offered an event only if it is in, and once: not again by way of a
\* region that a transition has led back to, and not after the event has made the
\* machine enter it (walk_event, with what vivid_transit does between its calls).
THEOREM EngineOffersOnce == Supported /\ NoWayBack => (Spec => []OfferedOnce)
<1> SUFFICES ASSUME Supported, NoWayBack PROVE Spec => []OfferedOnce
  OBVIOUS
<1>1. Init => OfferInv
  <2> SUFFICES ASSUME Init PROVE OfferInv
    OBVIOUS
  <2>1. Items(todo) = {}
    BY MakesNone DEF Init, Makes
  <2> QED
    BY <2>1, SpacedNone DEF OfferInv, Offered, Unheard
<1>2. EngineInv /\ OfferInv /\ [Next]_vars => OfferInv'
  BY OfferedStep
<1>3. EngineInv /\ OfferInv => OfferedOnce
  <2> SUFFICES ASSUME EngineInv, OfferInv, todo # <<>>, call.op = "event"
               PROVE  call.node \in active /\ call.node \notin heard \cup fresh
    BY DEF OfferedOnce, Calling, call
  <2>1. PICK I : I = Items(todo)
    OBVIOUS
  <2>2. call \in I /\ Fine(I, state, active) /\ Unheard(I, heard \cup fresh)
    BY <2>1, InvIsGood, GoodOpens DEF Opens, call, OfferInv, Offered
  <2>3. call.node \in Node /\ call.node \in active
    BY <2>2 DEF Fine, Each, EventFine, Staying
  <2>4. call.node \in Chain(call.node) /\ call.node \in Upward[call.node]
    BY <2>3, UpwardStep DEF Chain
  <2>5. call.node \in Ahead(call)
    BY <2>3, <2>4 DEF Ahead
  <2> QED
    BY <2>2, <2>3, <2>5 DEF Unheard
<1>4. Spec => []EngineInv
  BY EngineHolds
<1> QED
  BY <1>1, <1>2, <1>3, <1>4, PTL DEF Spec

--------------------------------------------------------------------------------
(* Who has still to be offered the event *)

\* The first call c makes the calls D: what it was to come to, they will.
LEMMA ServedGoesOn ==
    ASSUME NEW c, NEW R, NEW I, I = {c} \cup R, NEW A, NEW H, Served(I, A, H),
           NEW D, NEW J, J = D \cup R, NEW B, NEW G, H \subseteq G,
           \A m \in Staying(J, B) : m \in Staying(I, A) \/ m \in G,
           \A m \in Ahead(c) \cap Staying(J, B) : m \in G \/ \E d \in D : m \in Ahead(d)
    PROVE  Served(J, B, G)
  BY DEF Served

\* Where the event goes on.
LEMMA PassOnServes ==
    ASSUME NEW c, c.op = "event", c.node \in Node, NEW m \in Ahead(c), m # c.node,
           NEW D, D = OthersSet(c.node, c.event, c.last)
    PROVE  \E d \in D : m \in Ahead(d)
<1> PICK n : n = c.node
  OBVIOUS
<1>1. n \in Node /\ m \in Node /\ D = OthersSet(n, c.event, c.last) /\ m # n
  BY DEF Ahead
<1>2. PICK r \in Chain(n) : r \in Upward[m]
  BY DEF Ahead
<1>3. CASE r = n /\ Parallel(n)
  <2>1. PICK k \in Kids(n) : k \in Upward[m]
    BY <1>1, <1>2, <1>3, KidOnTheWay
  <2>2. children[n] \in Node /\ Chain(children[n]) = Kids(n)
    BY <1>1, <1>3, ChainOfAll DEF Kids
  <2>3. m \in Ahead(WalkEvent(children[n], c.event, c.last))
    BY <1>1, <2>1, <2>2, OfAhead
  <2> QED
    BY <1>1, <1>3, <2>3 DEF OthersSet
<1>4. CASE r = n /\ ~Parallel(n)
  <2>1. m \in Ahead(WalkState(n, c.event, c.last))
    BY <1>1, <1>2, <1>4, OfAhead
  <2> QED
    BY <1>1, <2>1 DEF OthersSet
<1>5. CASE r # n
  <2>1. NextRegion(n) # NoNode /\ r \in Chain(NextRegion(n)) /\ NextRegion(n) \in Node
    BY <1>1, <1>2, <1>5, ChainGoesOn, NextRegionIs DEF Kids
  <2>2. m \in Ahead(WalkEvent(NextRegion(n), c.event, c.last))
    BY <1>1, <1>2, <2>1, OfAhead
  <2> QED
    BY <1>1, <2>1, <2>2 DEF OthersSet
<1> QED
  BY <1>3, <1>4, <1>5

\* A transition leaves all that its node has not passed the event on to.
LEMMA TransitCutsNone ==
    ASSUME NoneCutShort, NEW n, NEW t \in Targets(n), NEW a, NEW f, Drawn(n, t, a, f),
           NEW k, k = Top(n, a, f), NEW m \in Node, NEW r \in Chain(n), r \in Upward[m]
    PROVE  k \in Upward[m]
<1>1. n \in Node /\ t \in Node /\ a \in Node /\ a \in Upward[t] /\ f = (a = n \/ a = t)
  <2>1. n \in Node /\ t \in Node /\ a \in Node /\ a \in Upward[t]
    BY DrawnType
  <2> QED
    BY <2>1 DEF Drawn
<1>0. IsTop(n, t, a, f, k)
  BY DrawnTop
<1>2. /\ k \in Upward[n] /\ k \in Node
      /\ f = TRUE => k = a
      /\ f # TRUE => k \in Kids(a)
  BY <1>0 DEF IsTop
<1>3. CASE r = n
  BY <1>2, <1>3, UpwardTransitive
<1>4. CASE r # n
  <2>1. /\ Region(n) /\ r \in Node \ {Root} /\ n \in Node \ {Root} /\ parent[r] = parent[n]
    BY <1>1, <1>4, ChainType
  <2>2. NextRegion(n) # NoNode
    BY <1>1, <1>4, ChainGoesOn
  <2>3. n \notin Upward[t]
    BY <1>1, <2>1, <2>2 DEF NoneCutShort
  <2>4. k # n
    <3>1. CASE f = TRUE
      BY <1>1, <1>2, <2>3, <3>1
    <3>2. CASE f # TRUE
      <4>1. a \in Upward[t] \ {t} /\ a \in Upward[a]
        BY <1>1, <3>2, UpwardStep
      <4>2. ~Parallel(a)
        BY <4>1, DrawnUndivided
      <4> QED
        BY <1>2, <2>1, <3>2, <4>2 DEF Kids, Region
    <3> QED
      BY <3>1, <3>2
  <2>5. k \in Upward[parent[n]]
    BY <1>2, <2>1, <2>4, UpwardStep
  <2>6. k \in Upward[r]
    BY <2>1, <2>5, UpwardStep
  <2> QED
    BY <2>6, UpwardTransitive
<1> QED
  BY <1>3, <1>4

\* A step of a walk that leaves or enters leaves out nobody who stays.
LEMMA WalksServe ==
    ASSUME Good(todo, state, active),
           WalkExitDown \/ WalkExitUp \/ WalkEntryDown \/ WalkEntryUp,
           NEW H
    PROVE  /\ Offering(Items(todo')) => Offering(Items(todo))
           /\ Served(Items(todo), active, H) => Served(Items(todo'), active, H)
<1>1. PICK calls, D : Walks(calls, D)
  BY WalksAre
<1>2. todo # <<>> /\ Rank(call) <= 5
  BY DEF WalkExitDown, WalkExitUp, WalkEntryDown, WalkEntryUp, Calling, call, Rank
<1>3. PICK R : R = Items(Tail(todo))
  OBVIOUS
<1>4. /\ Items(todo) = {call} \cup R /\ Items(todo') = D \cup R
      /\ Ahead(call) = {}
      /\ \A d \in D : d.op \notin {"event", "descend"}
  <2>1. Items(todo) = {call} \cup R /\ IsList(Tail(todo))
    BY <1>2, <1>3, FirstItems
  <2>2. Items(todo') = D \cup R
    BY <1>1, <1>3, <2>1, ItemsJoin DEF Walks, Makes
  <2>3. Rank(call) # 7 /\ \A d \in D : Rank(d) # 7
    BY <1>1, <1>2, RankType DEF Walks
  <2> QED
    BY <2>1, <2>2, <2>3, AheadNone, RankTells
<1>5. Leaving(Items(todo), active) \subseteq Leaving(Items(todo'), active)
  BY WalksGood DEF Kept
<1>6. Staying(Items(todo'), active) \subseteq Staying(Items(todo), active)
  BY <1>5 DEF Staying
<1>7. Offering(Items(todo')) => Offering(Items(todo))
  BY <1>4 DEF Offering
<1>8. Served(Items(todo), active, H) => Served(Items(todo'), active, H)
  BY <1>4, <1>6 DEF Served
<1> QED
  BY <1>7, <1>8

\* A call that returns, having left or entered nobody else than its node.
LEMMA ReturnServes ==
    ASSUME Good(todo, state, active), todo # <<>>, todo' = <<>> \o Tail(todo),
           Rank(call) # 7, NEW B, NEW H, NEW G, H \subseteq G,
           \A m \in B : (m \in active /\ m \notin Exits(call)) \/ m \in G
    PROVE  /\ Offering(Items(todo')) => Offering(Items(todo))
           /\ Served(Items(todo), active, H) => Served(Items(todo'), B, G)
<1>1. PICK R : R = Items(Tail(todo))
  OBVIOUS
<1>2. Items(todo) = {call} \cup R /\ Items(todo') = R /\ Ahead(call) = {}
  BY <1>1, FirstItems, ReturnItems, AheadNone
<1>3. \A m \in Staying(R, B) : m \in Staying({call} \cup R, active) \/ m \in G
  BY DEF Staying, Leaving
<1>4. Served(Items(todo), active, H) => Served(Items(todo'), B, G)
  BY <1>2, <1>3 DEF Served
<1> QED
  BY <1>2, <1>4 DEF Offering

\* A walk begins: it comes to all that is in.
LEMMA StartServes ==
    ASSUME NEW I, NEW A, A \subseteq Node, NEW e, NEW last, WalkEvent(Root, e, last) \in I,
           NEW H
    PROVE  Served(I, A, H)
<1>1. Ahead(WalkEvent(Root, e, last)) = {m \in Node : \E r \in Chain(Root) : r \in Upward[m]}
  BY OfAhead, RootIsNode
<1>2. Root \in Chain(Root) /\ \A m \in Node : Root \in Upward[m]
  BY RootIsAbove, RootIsNode DEF Chain
<1>3. \A m \in Node : m \in Ahead(WalkEvent(Root, e, last))
  BY <1>1, <1>2
<1> QED
  BY <1>3 DEF Served, Staying

\* The event goes on, to the same it was to come to.
LEMMA PassOnServed ==
    ASSUME Good(todo, state, active), PassOn, NEW H, Served(Items(todo), active, H),
           NEW G, G = H \cup {call.node}
    PROVE  Served(Items(todo'), active, G)
<1>1. PICK c : c = call
  OBVIOUS
<1>2. PICK R : R = Items(Tail(todo))
  OBVIOUS
<1>3. PICK D : D = OthersSet(c.node, c.event, c.last)
  OBVIOUS
<1>4. c.op = "event" /\ todo # <<>>
  BY <1>1 DEF PassOn, Calling, call
<1>5. /\ Items(todo) = {c} \cup R /\ Items(todo') = D \cup R /\ c.node \in Node
      /\ Leaving(Items(todo), active) \subseteq Leaving(Items(todo'), active)
  BY <1>1, <1>2, <1>3, <1>4, FirstItems, PassOnGood DEF Kept
<1>6. \A m \in Ahead(c) : m \in G \/ \E d \in D : m \in Ahead(d)
  BY <1>1, <1>3, <1>4, <1>5, PassOnServes
<1>7. Staying(Items(todo'), active) \subseteq Staying(Items(todo), active)
  BY <1>5 DEF Staying
<1> QED
  BY <1>5, <1>6, <1>7 DEF Served

\* To the current sub-state: nothing else is in below.
LEMMA DescendServed ==
    ASSUME Good(todo, state, active), Descend, NEW H, Served(Items(todo), active, H)
    PROVE  Served(Items(todo'), active, H)
<1>1. PICK c : c = call
  OBVIOUS
<1>2. PICK R : R = Items(Tail(todo))
  OBVIOUS
<1>3. PICK n : n = c.node
  OBVIOUS
<1>4. PICK s : s = state[n]
  OBVIOUS
<1>5. PICK D : D = DescendSet(n, s, c.event, c.last)
  OBVIOUS
<1>6. c.op = "descend" /\ todo # <<>> /\ c = Head(todo)
  BY <1>1 DEF Descend, Calling, call
<1>7. PICK I : I = Items(todo)
  OBVIOUS
<1>8. /\ I = {c} \cup R /\ Items(todo') = D \cup R
      /\ Leaving(I, active) \subseteq Leaving(Items(todo'), active)
  BY <1>1, <1>2, <1>3, <1>4, <1>5, <1>6, <1>7, FirstItems, DescendGood DEF Kept
<1>9. /\ n \in Node /\ Nested(I, active) /\ Pointers(I, state, active)
      /\ (s # NoNode => s \in Kids(n))
  <2>1. c \in I /\ Fine(I, state, active)
    BY <1>6, <1>7, GoodOpens DEF Opens
  <2> QED
    BY <1>3, <1>4, <1>6, <2>1 DEF Fine, Each, EventFine, Pointers
<1>10. ASSUME NEW m \in Ahead(c), m \in Staying(Items(todo'), active)
       PROVE  \E d \in D : m \in Ahead(d)
  <2>1. m \in Node /\ n # m /\ n \in Upward[m] /\ ~Parallel(n) /\ m \in active
    BY <1>3, <1>6, <1>10 DEF Ahead, Staying
  <2>2. PICK k \in Kids(n) \cap active : k \in Upward[m] /\ (~Parallel(n) => k = state[n])
    BY <1>9, <2>1, WayDown
  <2>3. s \in Upward[m] /\ s \in Kids(n) /\ s \in Node /\ s # NoNode
    BY <1>4, <2>1, <2>2, RootIsNode DEF Kids
  <2>4. s \in Chain(s)
    BY DEF Chain
  <2>5. m \in Ahead(WalkEvent(s, c.event, c.last))
    BY <2>1, <2>3, <2>4, OfAhead
  <2> QED
    BY <1>5, <2>3, <2>5 DEF DescendSet
<1>11. Staying(Items(todo'), active) \subseteq Staying(I, active)
  BY <1>8 DEF Staying
<1> QED
  BY <1>7, <1>8, <1>10, <1>11 DEF Served

\* A transition: what it does not leave, others will come to.
LEMMA TransitServed ==
    ASSUME Supported, NoneCutShort, Good(todo, state, active), MakeTransition,
           NEW H, Served(Items(todo), active, H)
    PROVE  Served(Items(todo'), active, H)
<1>1. PICK c : c = call
  OBVIOUS
<1>2. PICK R : R = Items(Tail(todo))
  OBVIOUS
<1>3. PICK n : n = c.node
  OBVIOUS
<1>4. c.op = "event" /\ todo # <<>> /\ c = Head(todo)
  BY <1>1 DEF MakeTransition, Calling, call
<1>5. PICK I : I = Items(todo)
  OBVIOUS
<1>6. PICK t, a, f :
         Asked(t, a, f) /\ Items(todo') = TransitSet(call.node, t, a, f) \cup Items(Tail(todo))
  BY MakeTransitionCalls
<1>7. PICK D : D = TransitSet(n, t, a, f)
  OBVIOUS
<1>8. PICK J : J = D \cup R
  OBVIOUS
<1>9. Drawn(n, t, a, f) /\ t \in Targets(n) /\ J = Items(todo')
  BY <1>1, <1>2, <1>3, <1>6, <1>7, <1>8 DEF Asked
<1>10. /\ I = {c} \cup R /\ \A b \in R : Before(c, b)
  BY <1>2, <1>4, <1>5, GoodOpens DEF Opens
<1>11. Fine(I, state, active)
  BY <1>5 DEF Good
<1>12. PICK k : k = Top(n, a, f)
  OBVIOUS
<1>13. \A b \in R : Rank(b) >= 7
  BY <1>4, <1>10, RankType DEF Before, RankOrder, Rank
<1>14. active \subseteq Node
  BY DEF active
<1>15. Underway(J, active, t, a, f, k)
  BY <1>7, <1>8, <1>9, <1>12, <1>13, <1>14, TransitSets
<1>16. Staying(J, active) = {m \in active : k \notin Upward[m]}
  BY <1>15 DEF Underway
<1>17. Staying(I, active) = active
  <2>1. \A b \in I : Rank(b) >= 6
    BY <1>4, <1>10, <1>13, RankType DEF Rank
  <2> QED
    BY <2>1, DoneSets
<1>18. ASSUME NEW m \in Ahead(c), m \in Staying(J, active) PROVE FALSE
  <2>1. PICK r \in Chain(n) : r \in Upward[m] /\ m \in Node
    BY <1>3, <1>4 DEF Ahead
  <2>2. k \in Upward[m]
    BY <1>9, <1>12, <2>1, TransitCutsNone
  <2> QED
    BY <1>16, <1>18, <2>2
<1>19. Staying(J, active) \subseteq Staying(I, active)
  BY <1>16, <1>17
<1> QED
  BY <1>5, <1>8, <1>9, <1>10, <1>18, <1>19 DEF Served

\* Between two walks nobody leaves, and nobody is offered anything.
LEMMA LastServed ==
    ASSUME Good(todo, state, active), todo # <<>>, Rank(call) = 8
    PROVE  /\ \A b \in Items(todo) : Ahead(b) = {} /\ b.op \notin {"event", "descend"}
           /\ Staying(Items(todo), active) = active
<1>1. PICK R : R = Items(Tail(todo))
  OBVIOUS
<1>2. /\ Items(todo) = {call} \cup R /\ \A b \in R : Before(call, b)
  BY <1>1, GoodOpens DEF Opens, call
<1>3. \A b \in Items(todo) : Rank(b) = 8
  BY <1>2, RankType DEF Before, RankOrder
<1>4. \A b \in Items(todo) : Rank(b) >= 6
  BY <1>3
<1>5. \A b \in Items(todo) : Ahead(b) = {} /\ b.op \notin {"event", "descend"}
  BY <1>3, AheadNone, RankTells
<1>6. Staying(Items(todo), active) = active
  BY <1>4, DoneSets
<1> QED
  BY <1>5, <1>6

\* What begins or ends a walk.
LEMMA TurnServes ==
    ASSUME Good(todo, state, active), JumpsDone \/ JumpAgain \/ TakeEvent, NEW H
    PROVE  Offering(Items(todo')) => Served(Items(todo'), active, H)
<1>1. todo # <<>> /\ call.op \in {"jump", "take"}
  BY DEF JumpsDone, JumpAgain, TakeEvent, Calling, call
<1>2. \A b \in Items(todo) : b.op \notin {"event", "descend"}
  <2>1. Rank(call) = 8
    BY <1>1 DEF Rank
  <2> QED
    BY <1>1, <2>1, LastServed
<1>3. /\ Items(todo) = {call} \cup Items(Tail(todo)) /\ IsList(todo) /\ IsList(Tail(todo))
      /\ active \subseteq Node
  BY <1>1, FirstItems DEF active
<1>4. CASE todo' = <<>> \o Tail(todo)
  BY <1>1, <1>2, <1>3, <1>4, ReturnItems DEF Offering
<1>5. CASE JumpAgain
  <2>1. PICK d : d = WalkEvent(Root, Jump, call.last)
    OBVIOUS
  <2>2. todo' = <<d>> \o todo
    BY <1>5, <2>1 DEF JumpAgain
  <2>3. d \in Items(todo')
    BY <1>3, <2>2, MakesOne, ItemsJoin DEF Makes
  <2> QED
    BY <1>3, <2>1, <2>3, StartServes
<1>6. CASE TakeEvent /\ queue # <<>>
  <2>1. PICK e : e = Head(queue)
    OBVIOUS
  <2>2. PICK calls : calls = <<WalkEvent(Root, e, NoEvent), RunJumps(e), PopEvent, Retrigger>>
    OBVIOUS
  <2>3. Makes(calls, OneTake(e))
    BY <2>2, TakeMakes
  <2>4. todo' = calls \o Tail(todo)
    BY <1>6, <2>1, <2>2 DEF TakeEvent, Becomes, When
  <2>5. Items(todo') = OneTake(e) \cup Items(Tail(todo))
    BY <1>3, <2>3, <2>4, ItemsJoin DEF Makes
  <2>6. WalkEvent(Root, e, NoEvent) \in Items(todo')
    BY <2>5 DEF OneTake
  <2> QED
    BY <1>3, <2>6, StartServes
<1>7. CASE JumpsDone
  BY <1>4, <1>7 DEF JumpsDone, Becomes
<1>8. CASE TakeEvent /\ queue = <<>>
  BY <1>4, <1>8 DEF TakeEvent, Becomes, When
<1> QED
  BY <1>5, <1>6, <1>7, <1>8

\* The handler starts: no walk begins yet.
LEMMA CallbackServes ==
    ASSUME EngineInv, EventCallback, NEW H
    PROVE  /\ ~Offering(Items(todo'))
           /\ Served(Items(todo), active, H) => Served(Items(todo'), active, H)
<1>1. todo = <<>>
  BY DEF EventCallback
<1>2. Items(todo) = {}
  BY <1>1, MakesNone DEF Makes
<1>3. \A b \in Items(todo') : Rank(b) # 7
  BY CallbackRanks
<1>4. ~Offering(Items(todo'))
  BY <1>3, RankTells DEF Offering
<1>5. Served(Items(todo), active, H) => Served(Items(todo'), active, H)
  BY <1>2 DEF Served, Staying, Leaving
<1> QED
  BY <1>4, <1>5

\* Every step keeps it that the event goes to everybody.
LEMMA ServedStep ==
    Supported /\ NoneCutShort /\ EngineInv /\ ServedInv /\ [Next]_vars => ServedInv'
<1> SUFFICES ASSUME Supported, NoneCutShort, EngineInv, ServedInv, [Next]_vars,
                    heard' # {} \/ Offering(Items(todo'))
             PROVE  Served(Items(todo'), active', heard' \cup fresh')
  BY DEF ServedInv, Served, Offering, Items, Ahead, Staying, Leaving, Exits, Way
<1>1. PICK H : H = heard \cup fresh
  OBVIOUS
<1>2. heard # {} \/ Offering(Items(todo)) => Served(Items(todo), active, H)
  BY <1>1 DEF ServedInv
<1>3. CASE WalkExitDown \/ WalkExitUp \/ WalkEntryDown \/ WalkEntryUp
  <2>1. heard' = heard /\ fresh' = fresh /\ todo # <<>> /\ stays' = stays
    BY <1>3 DEF WalkExitDown, WalkExitUp, WalkEntryDown, WalkEntryUp, Calling, history
  <2>2. Good(todo, state, active) /\ active' = active
    BY <2>1, InvIsGood, ActiveStays
  <2>3. /\ Offering(Items(todo')) => Offering(Items(todo))
        /\ Served(Items(todo), active, H) => Served(Items(todo'), active, H)
    BY <1>3, <2>2, WalksServe
  <2> QED
    BY <1>1, <1>2, <2>1, <2>2, <2>3
<1>4. CASE PassOn \/ MakeTransition
  <2>1. /\ heard' = heard \cup {call.node} /\ fresh' = fresh /\ todo # <<>> /\ stays' = stays
        /\ call.op = "event"
    BY <1>4 DEF PassOn, MakeTransition, Calling, call
  <2>2. Good(todo, state, active) /\ active' = active
    BY <2>1, InvIsGood, ActiveStays
  <2>3. Served(Items(todo), active, H)
    BY <1>2, <2>1, <2>2, FirstItems DEF Offering
  <2>4. PICK G : G = H \cup {call.node}
    OBVIOUS
  <2>5. G = heard' \cup fresh' /\ H \subseteq G
    BY <1>1, <2>1, <2>4
  <2>6. CASE PassOn
    BY <2>2, <2>3, <2>4, <2>5, <2>6, PassOnServed
  <2>7. CASE MakeTransition
    <3>1. Served(Items(todo'), active, H)
      BY <2>2, <2>3, <2>7, TransitServed
    <3> QED
      BY <2>2, <2>5, <3>1 DEF Served
  <2> QED
    BY <1>4, <2>6, <2>7
<1>5. CASE Descend
  <2>1. /\ heard' = heard /\ fresh' = fresh /\ todo # <<>> /\ stays' = stays
        /\ call.op = "descend"
    BY <1>5 DEF Descend, Calling, call, history
  <2>2. Good(todo, state, active) /\ active' = active
    BY <2>1, InvIsGood, ActiveStays
  <2>3. Offering(Items(todo))
    BY <2>1, <2>2, FirstItems DEF Offering
  <2> QED
    BY <1>1, <1>2, <1>5, <2>1, <2>2, <2>3, DescendServed
<1>6. CASE \/ AssignState \/ RunEntry \/ RunExit \/ LeaveDone \/ ArriveDone \/ Pop
           \/ TriggerAgain
  <2>1. /\ todo # <<>> /\ todo' = <<>> \o Tail(todo) /\ heard' = heard
        /\ call.op \in {"set_state", "entry", "exit", "leave", "arrive", "pop", "retrigger"}
    BY <1>6 DEF AssignState, RunEntry, RunExit, LeaveDone, ArriveDone, Pop, TriggerAgain,
                Calling, Becomes, history, call
  <2>2. Good(todo, state, active) /\ Rank(call) # 7
    BY <2>1, InvIsGood DEF Rank
  <2>3. PICK G : G = heard' \cup fresh'
    OBVIOUS
  <2>4. H \subseteq G /\ \A m \in active' : (m \in active /\ m \notin Exits(call)) \/ m \in G
    <3>1. CASE RunEntry
      <4>1. fresh' = fresh \cup {call.node} /\ active' = active \cup {call.node} /\ call.op = "entry"
        BY <3>1, RunEntryIs DEF RunEntry, Calling, call
      <4>2. Exits(call) = {}
        BY <4>1 DEF Exits
      <4> QED
        BY <1>1, <2>1, <2>3, <4>1, <4>2
    <3>2. CASE RunExit
      <4>1. fresh' = fresh /\ active' = active \ {call.node} /\ call.op = "exit"
        BY <3>2, RunExitIs DEF RunExit, Calling, call
      <4>2. Exits(call) \subseteq {call.node}
        BY <4>1 DEF Exits
      <4> QED
        BY <1>1, <2>1, <2>3, <4>1, <4>2
    <3>3. CASE ~RunEntry /\ ~RunExit
      <4>1. stays' = stays /\ fresh' = fresh
        BY <1>6, <3>3 DEF AssignState, LeaveDone, ArriveDone, Pop, TriggerAgain, history
      <4>2. call.op \notin {"exit", "exit_down", "exit_up"}
        BY <1>6, <3>3 DEF AssignState, LeaveDone, ArriveDone, Pop, TriggerAgain, Calling, call
      <4>3. Exits(call) = {}
        BY <4>2 DEF Exits
      <4> QED
        BY <1>1, <2>1, <2>3, <4>1, <4>3, ActiveStays
    <3> QED
      BY <3>1, <3>2, <3>3
  <2>5. /\ Offering(Items(todo')) => Offering(Items(todo))
        /\ Served(Items(todo), active, H) => Served(Items(todo'), active', G)
    BY <2>1, <2>2, <2>4, ReturnServes
  <2> QED
    BY <1>2, <2>1, <2>3, <2>5
<1>7. CASE JumpsDone \/ JumpAgain \/ TakeEvent
  <2>1. heard' = {} /\ todo # <<>> /\ stays' = stays
    BY <1>7 DEF JumpsDone, JumpAgain, TakeEvent, Calling, history
  <2>2. Good(todo, state, active) /\ active' = active
    BY <2>1, InvIsGood, ActiveStays
  <2> QED
    BY <1>7, <2>1, <2>2, TurnServes
<1>8. CASE EventCallback
  <2>1. heard' = heard /\ fresh' = fresh /\ stays' = stays
    BY <1>8 DEF EventCallback, history
  <2>2. active' = active
    BY <2>1, ActiveStays
  <2>3. /\ ~Offering(Items(todo'))
        /\ Served(Items(todo), active, H) => Served(Items(todo'), active, H)
    BY <1>8, CallbackServes
  <2> QED
    BY <1>1, <1>2, <2>1, <2>2, <2>3
<1>9. CASE Environment \/ UNCHANGED vars
  <2>1. todo' = todo /\ heard' = heard /\ fresh' = fresh /\ stays' = stays
    <3>1. CASE Environment
      BY <3>1 DEF Environment, QueueEvent, TimeComes, TimerFires, TimerCallback, history
    <3>2. CASE UNCHANGED vars
      BY <3>2 DEF vars, history
    <3> QED
      BY <1>9, <3>1, <3>2
  <2> QED
    BY <1>1, <1>2, <2>1, ActiveStays
<1> QED
  BY <1>3, <1>4, <1>5, <1>6, <1>7, <1>8, <1>9 DEF Next, Engine

\* No state misses an event: what was in when the walk began and still is when it
\* ends has been offered the event, in every region (walk_event), where no region
\* has a transition into itself while others beside it wait.
THEOREM EngineOffersAll == Supported /\ NoneCutShort => (Spec => []OfferedToAll)
<1> SUFFICES ASSUME Supported, NoneCutShort PROVE Spec => []OfferedToAll
  OBVIOUS
<1>1. Init => ServedInv
  <2> SUFFICES ASSUME Init PROVE ServedInv
    OBVIOUS
  <2>1. Items(todo) = {} /\ heard = {}
    BY MakesNone DEF Init, Makes
  <2> QED
    BY <2>1 DEF ServedInv, Offering
<1>2. EngineInv /\ ServedInv /\ [Next]_vars => ServedInv'
  BY ServedStep
<1>3. EngineInv /\ ServedInv => OfferedToAll
  <2> SUFFICES ASSUME EngineInv, ServedInv, todo # <<>>, call.op = "jump", heard # {},
                      NEW m \in active \ fresh
               PROVE  m \in heard
    BY DEF OfferedToAll, Calling, call
  <2>1. Good(todo, state, active) /\ Rank(call) = 8
    BY InvIsGood DEF Rank
  <2>2. /\ Staying(Items(todo), active) = active
        /\ \A b \in Items(todo) : Ahead(b) = {}
    BY <2>1, LastServed
  <2>3. Served(Items(todo), active, heard \cup fresh)
    BY DEF ServedInv
  <2> QED
    BY <2>2, <2>3 DEF Served
<1>4. Spec => []EngineInv
  BY EngineHolds
<1> QED
  BY <1>1, <1>2, <1>3, <1>4, PTL DEF Spec

--------------------------------------------------------------------------------
(* What the application will be told *)

\* The walks that leave and enter.
LEMMA WalksInform ==
    ASSUME Good(todo, state, active),
           WalkExitDown \/ WalkExitUp \/ WalkEntryDown \/ WalkEntryUp,
           NEW changed, NEW told, Informed(Items(todo), active, changed, told)
    PROVE  Informed(Items(todo'), active, changed, told)
<1>1. PICK calls, D : Walks(calls, D)
  BY WalksAre
<1>2. todo # <<>> /\ call.op \in {"exit_down", "exit_up", "entry_down", "entry_up"}
  BY DEF WalkExitDown, WalkExitUp, WalkEntryDown, WalkEntryUp, Calling, call
<1>3. PICK R : R = Items(Tail(todo))
  OBVIOUS
<1>4. PICK I : I = Items(todo)
  OBVIOUS
<1>5. PICK J : J = Items(todo')
  OBVIOUS
<1>6. I = {call} \cup R /\ J = D \cup R
  <2>1. I = {call} \cup R /\ IsList(Tail(todo))
    BY <1>2, <1>3, <1>4, FirstItems
  <2> QED
    BY <1>1, <1>3, <1>5, <2>1, ItemsJoin DEF Walks, Makes
<1>7. /\ Planned(I, active) \subseteq Planned(J, active)
      /\ Leaving(I, active) \subseteq Leaving(J, active)
  BY <1>4, <1>5, WalksGood DEF Kept
<1>8. Goal(I, active) = Goal(J, active)
  <2>1. ASSUME NEW m PROVE m \in Brought(J) <=> m \in Brought(I)
    <3>1. m \in Brought(D) <=> m \in Brings(call)
      BY <1>1 DEF Walks
    <3> QED
      BY <1>6, <3>1 DEF Brought, Brings, Enters
  <2>2. Coming(J) \subseteq Brought(J)
    BY DEF Coming, Brought, Brings
  <2>3. Staying(J, active) \subseteq Staying(I, active)
    BY <1>7 DEF Staying
  <2>4. Staying(I, active) \subseteq Staying(J, active) \cup Coming(J)
    BY <1>7 DEF Planned
  <2> QED
    BY <2>1, <2>2, <2>3, <2>4 DEF Goal
<1>9. Tells(I, changed) => Tells(J, changed)
  <2>1. \A d \in D : d.op # "leave"
    BY <1>1 DEF Walks, Rank
  <2>2. \A m \in Counted(call) : \E d \in D : m \in Counted(d)
    BY <1>1 DEF Walks
  <2> QED
    BY <1>2, <1>6, <2>1, <2>2 DEF Tells
<1> QED
  BY <1>4, <1>5, <1>8, <1>9 DEF Informed

\* A call returns that neither counted nor was to enter anything besides.
LEMMA ReturnInforms ==
    ASSUME Good(todo, state, active), todo # <<>>, todo' = <<>> \o Tail(todo),
           call.op \in {"set_state", "entry", "exit", "leave"},
           NEW B, Goal(Items(Tail(todo)), B) = Goal(Items(todo), active),
           NEW before, NEW after,
           call.op # "leave" => (before = TRUE => after = TRUE),
           Counted(call) # {} => after = TRUE /\ \A b \in Items(Tail(todo)) : b.op # "leave",
           NEW told, Informed(Items(todo), active, before, told)
    PROVE  Informed(Items(todo'), B, after, told)
<1>1. PICK R : R = Items(Tail(todo))
  OBVIOUS
<1>2. PICK I : I = Items(todo)
  OBVIOUS
<1>3. I = {call} \cup R /\ Items(todo') = R
  BY <1>1, <1>2, FirstItems, ReturnItems
<1>4. Tells(I, before) => Tells(R, after)
  BY <1>1, <1>3 DEF Tells
<1> QED
  BY <1>1, <1>2, <1>3, <1>4 DEF Informed

\* set_state counts what it moves the pointer to.
LEMMA AssignStateInforms ==
    ASSUME Good(todo, state, active), AssignState,
           Informed(Items(todo), active, stateChange, notified)
    PROVE  Informed(Items(todo'), active, stateChange', notified)
<1>1. PICK R : R = Items(Tail(todo))
  OBVIOUS
<1>2. /\ todo # <<>> /\ call.op = "set_state" /\ todo' = <<>> \o Tail(todo)
      /\ stateChange' = (stateChange \/ Counts(call.value))
  BY DEF AssignState, Calling, Becomes, call
<1>3. Items(todo) = {call} \cup R /\ \A b \in R : Before(call, b)
  BY <1>1, <1>2, GoodOpens DEF Opens, call
<1>4. Goal(R, active) = Goal(Items(todo), active)
  <2>1. Exits(call) = {} /\ Brings(call) = {}
    BY <1>2 DEF Exits, Brings, Enters, Tops
  <2> QED
    BY <1>3, <2>1 DEF Goal, Staying, Leaving, Brought
<1>5. ASSUME NEW m \in Counted(call)
      PROVE  stateChange' = TRUE /\ \A b \in R : b.op # "leave"
  <2>1. m \in Node /\ m = call.value /\ m \in Real
    BY <1>2, <1>5 DEF Counted, Sets, Tops, Real
  <2>2. Rank(call) = 5
    BY <1>2, <2>1, RootIsNode DEF Rank
  <2>3. \A b \in R : Rank(b) >= 5
    BY <1>3, <2>2, RankType DEF Before, RankOrder
  <2>4. \A b \in R : b.op # "leave"
    BY <2>3 DEF Rank
  <2>5. stateChange' = TRUE
    BY <1>2, <2>1 DEF Counts
  <2> QED
    BY <2>4, <2>5
<1>6. stateChange = TRUE => stateChange' = TRUE
  BY <1>2
<1> QED
  BY <1>1, <1>2, <1>4, <1>5, <1>6, ReturnInforms

\* The calls with entry and exit, and the end of vivid_transit.
LEMMA EndsInform ==
    ASSUME EngineInv, RunEntry \/ RunExit \/ LeaveDone,
           Informed(Items(todo), active, stateChange, notified)
    PROVE  Informed(Items(todo'), active', stateChange', notified)
<1>1. PICK R : R = Items(Tail(todo))
  OBVIOUS
<1>2. todo # <<>> /\ call.op \in {"entry", "exit", "leave"} /\ todo' = <<>> \o Tail(todo)
  BY DEF RunEntry, RunExit, LeaveDone, Calling, Becomes, call
<1>3. Good(todo, state, active)
  BY <1>2, InvIsGood
<1>4. Items(todo) = {call} \cup R /\ \A b \in R : Before(call, b)
  BY <1>1, <1>2, <1>3, GoodOpens DEF Opens, call
<1>5. Goal(R, active') = Goal(Items(todo), active)
  <2>1. CASE RunEntry
    <3>1. /\ call.op = "entry" /\ call.node \in Node /\ active' = active \cup {call.node}
          /\ Rank(call) = 5
      BY <2>1, RunEntryIs DEF RunEntry, Calling, call, MayEnter, Rank
    <3>2. Brings(call) = {call.node}
      BY <3>1 DEF Brings, Enters, Tops
    <3>3. \A b \in Items(todo) : Rank(b) >= 5
      BY <1>4, <3>1, RankType DEF Before, RankOrder
    <3>4. Staying(Items(todo), active) = active /\ Staying(R, active') = active'
      BY <1>4, <3>3, LateSets
    <3> QED
      BY <1>4, <3>1, <3>2, <3>4 DEF Goal, Brought
  <2>2. CASE RunExit
    <3>1. call.op = "exit" /\ call.node \in Node /\ active' = active \ {call.node}
      BY <2>2, RunExitIs DEF RunExit, Calling, call, active
    <3>2. Exits(call) = {call.node} /\ Brings(call) = {}
      BY <3>1 DEF Exits, Brings, Enters, Tops
    <3> QED
      BY <1>4, <3>1, <3>2 DEF Goal, Staying, Leaving, Brought
  <2>3. CASE LeaveDone
    <3>1. call.op = "leave" /\ active' = active
      BY <2>3, ActiveStays DEF LeaveDone, Calling, call, history
    <3>2. Exits(call) = {} /\ Brings(call) = {}
      BY <3>1 DEF Exits, Brings, Enters, Tops
    <3> QED
      BY <1>4, <3>1, <3>2 DEF Goal, Staying, Leaving, Brought
  <2> QED
    BY <2>1, <2>2, <2>3
<1>6. Counted(call) = {}
  BY <1>2 DEF Counted, Sets, Tops
<1>7. call.op # "leave" => stateChange' = stateChange
  BY DEF RunEntry, RunExit, LeaveDone, Calling, call
<1> QED
  BY <1>1, <1>2, <1>3, <1>5, <1>6, <1>7, ReturnInforms

\* While nothing is to be left or entered.
LEMMA LateGoal ==
    ASSUME NEW I, \A b \in I : Rank(b) >= 6, NEW A
    PROVE  /\ Goal(I, A) = A /\ \A c \in I : Counted(c) = {}
           /\ \A changed, told : Knows(A, told) => Informed(I, A, changed, told)
<1>1. \A c \in I : Brings(c) = {} /\ Counted(c) = {}
  BY RankType, BringsNone, CountedNone
<1>2. Goal(I, A) = A
  BY <1>1, DoneSets DEF Goal, Brought
<1> QED
  BY <1>1, <1>2 DEF Informed

\* state_change_callback, if something was counted since the action.
LEMMA ArriveInforms ==
    ASSUME Good(todo, state, active), ArriveDone,
           Informed(Items(todo), active, stateChange, notified)
    PROVE  Informed(Items(todo'), active, stateChange', notified')
<1>1. PICK R : R = Items(Tail(todo))
  OBVIOUS
<1>2. /\ todo # <<>> /\ call.op = "arrive" /\ todo' = <<>> \o Tail(todo)
      /\ notified' = IF stateChange THEN active \cap Real ELSE notified
  BY DEF ArriveDone, Calling, Becomes, call
<1>3. Items(todo) = {call} \cup R /\ Items(todo') = R /\ \A b \in R : Before(call, b)
  BY <1>1, <1>2, GoodOpens, ReturnItems DEF Opens, call
<1>4. Rank(call) = 6
  BY <1>2 DEF Rank
<1>5. \A b \in Items(todo) : Rank(b) >= 6
  BY <1>3, <1>4, RankType DEF Before, RankOrder
<1>6. Knows(active, notified')
  <2>1. CASE stateChange
    BY <1>2, <2>1 DEF Knows
  <2>2. CASE ~stateChange
    <3>1. ~Tells(Items(todo), stateChange)
      BY <1>5, <2>2, LateGoal DEF Tells
    <3>2. Goal(Items(todo), active) = active
      BY <1>5, LateGoal
    <3> QED
      BY <1>2, <2>2, <3>1, <3>2 DEF Informed
  <2> QED
    BY <2>1, <2>2
<1> QED
  BY <1>3, <1>5, <1>6, LateGoal

\* The walks with an event, and what follows them.
LEMMA LateRanks ==
    ASSUME Good(todo, state, active),
           \/ PassOn \/ Descend \/ JumpsDone \/ JumpAgain \/ TakeEvent \/ Pop \/ TriggerAgain
    PROVE  \A b \in Items(todo) \cup Items(todo') : Rank(b) >= 7
<1>1. PICK R : R = Items(Tail(todo))
  OBVIOUS
<1>2. todo # <<>> /\ Rank(call) >= 7
  BY DEF PassOn, Descend, JumpsDone, JumpAgain, TakeEvent, Pop, TriggerAgain, Calling, call, Rank
<1>3. Items(todo) = {call} \cup R /\ \A b \in R : Before(call, b)
  BY <1>1, <1>2, GoodOpens DEF Opens, call
<1>4. \A b \in Items(todo) : Rank(b) >= 7
  BY <1>2, <1>3, RankType DEF Before, RankOrder
<1>5. IsList(todo) /\ IsList(Tail(todo))
  BY <1>2, FirstItems
<1>6. CASE PassOn
  <2>1. /\ Items(todo') = OthersSet(call.node, call.event, call.last) \cup R
        /\ call.node \in Node /\ call.op = "event"
    BY <1>1, <1>6, PassOnGood DEF PassOn, Calling, call
  <2>2. \A d \in OthersSet(call.node, call.event, call.last) : Rank(d) = 7
    BY <2>1, OthersFewer DEF Fewer
  <2> QED
    BY <1>3, <1>4, <2>1, <2>2
<1>7. CASE Descend
  <2>1. Items(todo') = DescendSet(call.node, state[call.node], call.event, call.last) \cup R
    BY <1>1, <1>7, DescendGood
  <2>2. \A d \in DescendSet(call.node, state[call.node], call.event, call.last) : Rank(d) = 7
    BY OfWalk DEF DescendSet
  <2> QED
    BY <1>3, <1>4, <2>1, <2>2
<1>8. CASE JumpAgain
  <2>1. PICK d : d = WalkEvent(Root, Jump, call.last)
    OBVIOUS
  <2>2. Items(todo') = {d} \cup Items(todo) /\ Rank(d) = 7
    BY <1>5, <1>8, <2>1, MakesOne, ItemsJoin, OfWalk DEF JumpAgain, Makes
  <2> QED
    BY <1>4, <2>2
<1>9. CASE TakeEvent /\ queue # <<>>
  <2>1. PICK e : e = Head(queue)
    OBVIOUS
  <2>2. todo' = <<WalkEvent(Root, e, NoEvent), RunJumps(e), PopEvent, Retrigger>> \o Tail(todo)
    BY <1>9, <2>1 DEF TakeEvent, Becomes, When
  <2>3. Items(todo') = OneTake(e) \cup R
    BY <1>1, <1>5, <2>2, TakeMakes, ItemsJoin DEF Makes
  <2>4. \A d \in OneTake(e) : Rank(d) \in {7, 8}
    BY OfWalk, OfLast DEF OneTake
  <2> QED
    BY <1>3, <1>4, <2>3, <2>4
<1>10. CASE todo' = <<>> \o Tail(todo)
  BY <1>1, <1>2, <1>3, <1>4, <1>10, ReturnItems
<1>11. CASE JumpsDone \/ Pop \/ TriggerAgain \/ (TakeEvent /\ queue = <<>>)
  BY <1>10, <1>11 DEF JumpsDone, Pop, TriggerAgain, TakeEvent, Becomes, When
<1> QED
  BY <1>6, <1>7, <1>8, <1>9, <1>11

\* Where all that is entered by default is a region, nothing else is below.
LEMMA NothingBelow ==
    ASSUME NEW t \in Node,
           \A m \in Node \ {t} : ByDefault(t, m) => m \notin Real /\ ~Pseudo(m),
           NEW y \in Node, t \in Upward[y]
    PROVE  ByDefault(t, y)
<1> DEFINE Bad == {x \in Node : t \in Upward[x] /\ ~ByDefault(t, x)}
<1>1. SUFFICES ASSUME Bad # {} PROVE FALSE
  OBVIOUS
<1>2. PICK x \in Bad : \A z \in Bad : depth[x] <= depth[z]
  BY <1>1, Shallowest
<1>3. x \in Node /\ t \in Upward[x] /\ x # t /\ ~ByDefault(t, x)
  BY <1>2, DefaultStart
<1>4. x # Root
  BY <1>3, UpwardStep
<1>5. PICK q : q = parent[x]
  OBVIOUS
<1>6. q \in Node /\ t \in Upward[q] /\ depth[q] < depth[x] /\ x \in Kids(q)
  BY <1>3, <1>4, <1>5, UpwardStep, ParentIsAbove, DepthOfParent DEF Kids
<1>7. q \notin Bad
  BY <1>2, <1>6, DepthAssumption
<1>8. ByDefault(t, q)
  BY <1>6, <1>7
<1>9. ~Region(x)
  BY <1>3, <1>4, <1>5, <1>8, DefaultUp
<1>10. ~Parallel(q)
  BY <1>4, <1>5, <1>9 DEF Region
<1>11. PICK k : k = DefaultChild[q]
  OBVIOUS
<1>12. k \in Kids(q)
  BY <1>6, <1>10, <1>11, DefaultIsKid
<1>13. k \in Node /\ k # Root /\ parent[k] = q
  BY <1>12 DEF Kids
<1>14. k # t
  BY <1>6, <1>12, <1>13, KidAbove, UpwardStep
<1>15. ByDefault(t, k)
  BY <1>8, <1>11, <1>13, <1>14, DefaultUp
<1>16. k \notin Real /\ ~Pseudo(k) /\ NodeType[k] # "root"
  BY <1>13, <1>14, <1>15, NodeAssumption
<1>17. NodeType[k] = "parallel"
  BY <1>13, <1>16, TreeAssumption DEF Real, Pseudo
<1> QED
  BY <1>10, <1>13, <1>17, RegionType DEF Region

\* The target of a transition that counts nothing and leads to no pseudo-state is
\* around its source, and nothing but regions is below it.
LEMMA NothingCounted ==
    ASSUME NEW n, NEW t, NEW a, NEW f, Drawn(n, t, a, f),
           Counted(EntryUp(t, a, NoNode, f)) = {},
           \A m \in Node : ByDefault(t, m) => ~Pseudo(m)
    PROVE  /\ t \in Node /\ t \in Upward[n] /\ Top(n, a, f) = t /\ a = t
           /\ \A m \in Node : t \in Upward[m] /\ m # t => m \notin Real /\ ~Pseudo(m)
<1>1. n \in Node /\ t \in Node /\ a \in Node /\ a \in Upward[n] /\ a \in Upward[t] /\ ~Region(t)
  BY DrawnType DEF Drawn
<1>2. ASSUME NEW m \in Real PROVE ~UpCounts(t, a, NoNode, m)
  BY <1>1, <1>2, OfCountedUp
<1>3. ASSUME NEW m \in Node \ {t}, ByDefault(t, m) PROVE m \notin Real /\ ~Pseudo(m)
  BY <1>2, <1>3 DEF UpCounts
<1>4. a = t
  <2>1. CASE t \in Real
    BY <1>2, <2>1 DEF UpCounts
  <2>2. CASE t \notin Real
    <3>1. NodeType[t] # "parallel" /\ ~Pseudo(t)
      BY <1>1, RegionType, DefaultStart
    <3>2. NodeType[t] = "root"
      BY <1>1, <2>2, <3>1, TreeAssumption DEF Real, Pseudo
    <3>3. t = Root
      BY <1>1, <3>2, NodeAssumption
    <3> QED
      BY <1>1, <3>3, UpwardStep
  <2> QED
    BY <2>1, <2>2
<1>5. f = TRUE
  BY <1>4 DEF Drawn
<1>6. Top(n, a, f) = t
  BY <1>4, <1>5 DEF Top
<1>7. ASSUME NEW m \in Node, t \in Upward[m], m # t PROVE m \notin Real /\ ~Pseudo(m)
  BY <1>1, <1>3, <1>7, NothingBelow
<1> QED
  BY <1>1, <1>4, <1>6, <1>7

\* A transition: what it is to change will be counted, or it changes nothing.
LEMMA TransitInforms ==
    ASSUME Supported, Good(todo, state, active), MakeTransition,
           NEW changed, NEW told, Informed(Items(todo), active, changed, told)
    PROVE  Informed(Items(todo'), active, changed, told)
<1>1. PICK R : R = Items(Tail(todo))
  OBVIOUS
<1>2. PICK n : n = call.node
  OBVIOUS
<1>3. PICK t, a, f : Asked(t, a, f) /\ Items(todo') = TransitSet(n, t, a, f) \cup R
  BY <1>1, <1>2, MakeTransitionCalls
<1>4. PICK J : J = Items(todo')
  OBVIOUS
<1>5. Drawn(n, t, a, f) /\ n \in Node /\ t \in Node
  BY <1>2, <1>3, DrawnType DEF Asked
<1>6. todo # <<>> /\ call.op = "event" /\ Rank(call) = 7
  BY DEF MakeTransition, Calling, call, Rank
<1>7. /\ Items(todo) = {call} \cup R /\ (\A b \in R : Before(call, b))
      /\ Fine(Items(todo), state, active)
  BY <1>1, <1>6, GoodOpens DEF Opens, call
<1>8. \A b \in Items(todo) : Rank(b) >= 7
  BY <1>6, <1>7, RankType DEF Before, RankOrder
<1>9. \A b \in Items(todo) : Rank(b) >= 6
  BY <1>8, RankType
<1>10. Goal(Items(todo), active) = active /\ Staying(Items(todo), active) = active
       /\ ~Tells(Items(todo), changed)
  <2>1. \A c \in Items(todo) : c.op # "arrive"
    BY <1>8 DEF Rank
  <2> QED
    BY <1>9, <2>1, LateGoal, DoneSets DEF Tells
<1>11. active \subseteq Node /\ (\A m \in active \ {Root} : parent[m] \in active) /\ n \in active
  BY <1>2, <1>6, <1>7, <1>10 DEF Fine, Nested, Each, EventFine
<1>12. PICK e : e = EntryUp(t, a, NoNode, f)
  OBVIOUS
<1>13. e \in J /\ \E c \in J : c.op = "arrive"
  <2>1. e \in J /\ Arrive(n, t) \in J
    BY <1>3, <1>4, <1>12 DEF TransitSet
  <2> QED
    BY <2>1 DEF Arrive
<1>14. Brings(e) = Between(t, a, f) \cup {m \in Node : ByDefault(t, m)}
  BY <1>5, <1>12, OfBrings
<1>15. SUFFICES ASSUME Counted(e) = {}, \A p \in Goal(J, active) : ~Pseudo(p)
                PROVE  Knows(Goal(J, active), told)
  BY <1>4, <1>13 DEF Informed, Tells, Knows
<1>16. \A m \in Node : ByDefault(t, m) => m \in Goal(J, active)
  BY <1>13, <1>14 DEF Goal, Brought
<1>17. /\ t \in Upward[n] /\ Top(n, a, f) = t /\ a = t
       /\ \A m \in Node : t \in Upward[m] /\ m # t => m \notin Real /\ ~Pseudo(m)
  BY <1>5, <1>12, <1>15, <1>16, NothingCounted
<1>18. Underway(J, active, t, a, f, t)
  BY <1>3, <1>4, <1>5, <1>7, <1>8, <1>11, <1>17, TransitSets
<1>19. t \in active /\ t \in Goal(J, active)
  BY <1>5, <1>11, <1>16, <1>17, NestedUp, DefaultStart
<1>20. ASSUME NEW m \in Brought(J) PROVE t \in Upward[m] /\ m \in Node
  <2>1. PICK c \in J : m \in Brings(c)
    BY <1>20 DEF Brought
  <2>2. c = e
    <3>1. \A d \in TransitSet(n, t, a, f) \ {e} : Rank(d) \in {2, 3, 6}
      BY <1>12 DEF TransitSet, ExitUp, Leave, Arrive, Rank
    <3> QED
      BY <1>3, <1>4, <1>7, <1>8, <2>1, <3>1, BringsNone, RankType
  <2>3. m \in Between(t, a, f) \/ ByDefault(t, m)
    BY <1>14, <2>1, <2>2
  <2> QED
    BY <1>17, <1>20, <2>3 DEF Brought, Between, ByDefault
<1>21. ASSUME NEW m \in Node, m \in Real \/ Pseudo(m)
       PROVE  m \in Goal(J, active) <=> m \in active
  <2>1. CASE t \in Upward[m]
    BY <1>17, <1>19, <1>21, <2>1
  <2>2. CASE t \notin Upward[m]
    BY <1>18, <1>20, <2>2 DEF Goal, Underway
  <2> QED
    BY <2>1, <2>2
<1>22. Knows(active, told)
  BY <1>10 DEF Informed
<1>23. ~(\E p \in active : Pseudo(p))
  BY <1>11, <1>15, <1>21
<1>24. told = active \cap Real
  BY <1>22, <1>23 DEF Knows
<1>25. active \cap Real = Goal(J, active) \cap Real
  BY <1>21 DEF Real
<1> QED
  BY <1>24, <1>25 DEF Knows

\* The handler starts: the application knows where the machine starts.
LEMMA CallbackInforms ==
    ASSUME EngineInv, EventCallback, NoticeInv
    PROVE  Informed(Items(todo'), active, stateChange, notified)
<1>1. todo = <<>> /\ todo' = When(init, InitialWalk) \o <<Take>>
  BY DEF EventCallback
<1>2. CASE init
  <2>1. todo' = InitialWalk \o <<Take>> /\ active = {}
    BY <1>1, <1>2, AtRest DEF When
  <2>2. Items(todo') = FirstSet
    BY <2>1, FirstMakes DEF Makes
  <2>3. PICK e : e = EntryDown(Root, NoNode)
    OBVIOUS
  <2>4. \A c \in FirstSet \ {e} : Brings(c) = {}
    <3>1. Rank(RunJumps(NoEvent)) = 8 /\ Rank(Take) = 8
      BY OfLast DEF Take, Rank
    <3> QED
      BY <2>3, <3>1, BringsNone DEF FirstSet
  <2>5. e \in FirstSet
    BY <2>3 DEF FirstSet
  <2>6. Chain(Root) = {Root}
    BY DEF Chain, Region
  <2>7. ASSUME NEW m PROVE m \in Goal(FirstSet, {}) <=> m \in Node /\ ByDefault(Root, m)
    <3>1. m \in Brings(e) <=> m \in Node /\ ByDefault(Root, m)
      BY <2>3, <2>6, OfBrings, RootIsNode
    <3> QED
      BY <2>4, <2>5, <3>1 DEF Goal, Staying, Brought
  <2>8. notified = Goal(FirstSet, {}) \cap Real
    BY <1>2, <2>7 DEF NoticeInv, Real
  <2> QED
    BY <2>1, <2>2, <2>8 DEF Informed, Knows
<1>3. CASE ~init
  <2>1. Items(todo') = {Take} /\ Items(todo) = {}
    BY <1>1, <1>3, MakesOne, MakesNone DEF When, Makes
  <2>2. Goal(Items(todo), active) = active /\ ~Tells(Items(todo), stateChange)
    BY <2>1, LateGoal DEF Tells
  <2>3. Rank(Take) = 8
    BY DEF Take, Rank
  <2> QED
    BY <1>3, <2>1, <2>2, <2>3, LateGoal DEF NoticeInv, Informed
<1> QED
  BY <1>2, <1>3

\* What a step leaves alone.
LEMMA NoticeStays ==
    ASSUME Informed(Items(todo'), active', stateChange', notified'), ~init'
    PROVE  NoticeInv'
  BY DEF NoticeInv, Informed, Knows, Goal, Tells, Staying, Leaving, Brought, Items,
         Exits, Way, Brings, Enters, Tops, Counted, Sets

\* Every step keeps it that the application knows or will be told.
LEMMA NoticeStep == Supported /\ EngineInv /\ NoticeInv /\ [Next]_vars => NoticeInv'
<1> SUFFICES ASSUME Supported, EngineInv, NoticeInv, [Next]_vars PROVE NoticeInv'
  OBVIOUS
<1>1. CASE Environment \/ UNCHANGED vars
  <2>1. /\ todo' = todo /\ stays' = stays /\ init' = init /\ stateChange' = stateChange
        /\ notified' = notified
    <3>1. CASE Environment
      BY <3>1 DEF Environment, QueueEvent, TimeComes, TimerFires, TimerCallback, history
    <3>2. CASE UNCHANGED vars
      BY <3>2 DEF vars, engine, history
    <3> QED
      BY <1>1, <3>1, <3>2
  <2>2. CASE init
    BY <2>1, <2>2 DEF NoticeInv
  <2>3. CASE ~init
    BY <2>1, <2>3, ActiveStays, NoticeStays DEF NoticeInv
  <2> QED
    BY <2>2, <2>3
<1>2. CASE EventCallback
  <2>1. /\ stays' = stays /\ ~init' /\ stateChange' = stateChange /\ notified' = notified
    BY <1>2 DEF EventCallback, history
  <2> QED
    BY <1>2, <2>1, ActiveStays, CallbackInforms, NoticeStays
<1>3. CASE Engine /\ ~EventCallback
  <2>1. todo # <<>> /\ init' = init
    BY <1>3 DEF Engine, WalkEntryDown, WalkEntryUp, WalkExitDown, WalkExitUp, AssignState,
                RunEntry, RunExit, MakeTransition, PassOn, Descend, LeaveDone, ArriveDone,
                TakeEvent, JumpAgain, JumpsDone, Pop, TriggerAgain, Calling, engine
  <2>2. Good(todo, state, active) /\ ~init /\ ~init'
    BY <2>1, InvIsGood
  <2>3. Informed(Items(todo), active, stateChange, notified)
    BY <2>2 DEF NoticeInv
  <2>4. CASE WalkExitDown \/ WalkExitUp \/ WalkEntryDown \/ WalkEntryUp
    <3>1. stays' = stays /\ stateChange' = stateChange /\ notified' = notified
      BY <2>4 DEF WalkExitDown, WalkExitUp, WalkEntryDown, WalkEntryUp, engine, history
    <3> QED
      BY <2>2, <2>3, <2>4, <3>1, ActiveStays, WalksInform, NoticeStays
  <2>5. CASE AssignState
    <3>1. stays' = stays /\ notified' = notified
      BY <2>5 DEF AssignState, history
    <3> QED
      BY <2>2, <2>3, <2>5, <3>1, ActiveStays, AssignStateInforms, NoticeStays
  <2>6. CASE RunEntry \/ RunExit \/ LeaveDone
    <3>1. notified' = notified
      BY <2>6 DEF RunEntry, RunExit, LeaveDone, history
    <3> QED
      BY <2>2, <2>3, <2>6, <3>1, EndsInform, NoticeStays
  <2>7. CASE ArriveDone
    <3>1. stays' = stays /\ stateChange' = stateChange
      BY <2>7 DEF ArriveDone, engine
    <3> QED
      BY <2>2, <2>3, <2>7, <3>1, ActiveStays, ArriveInforms, NoticeStays
  <2>8. CASE MakeTransition
    <3>1. stays' = stays /\ stateChange' = stateChange /\ notified' = notified
      BY <2>8 DEF MakeTransition
    <3> QED
      BY <2>2, <2>3, <2>8, <3>1, ActiveStays, TransitInforms, NoticeStays
  <2>9. CASE PassOn \/ Descend \/ JumpsDone \/ JumpAgain \/ TakeEvent \/ Pop \/ TriggerAgain
    <3>1. stays' = stays /\ stateChange' = stateChange /\ notified' = notified
      BY <2>9 DEF PassOn, Descend, JumpsDone, JumpAgain, TakeEvent, Pop, TriggerAgain,
                  engine, history
    <3>2. \A b \in Items(todo) \cup Items(todo') : Rank(b) >= 7
      BY <2>2, <2>9, LateRanks
    <3>3. \A b \in Items(todo) : Rank(b) >= 6 /\ b.op # "arrive"
      BY <3>2, RankType DEF Rank
    <3>4. \A b \in Items(todo') : Rank(b) >= 6
      BY <3>2, RankType
    <3>5. Knows(active, notified)
      <4>1. Goal(Items(todo), active) = active
        BY <3>3, LateGoal
      <4> QED
        BY <2>3, <3>3, <4>1 DEF Informed, Tells
    <3>6. Informed(Items(todo'), active, stateChange, notified)
      BY <3>4, <3>5, LateGoal
    <3> QED
      BY <2>2, <3>1, <3>6, ActiveStays, NoticeStays
  <2> QED
    BY <1>3, <2>4, <2>5, <2>6, <2>7, <2>8, <2>9 DEF Engine
<1> QED
  BY <1>1, <1>2, <1>3 DEF Next

\* The application is told of every change: whenever the handler returns, the
\* states that are in are those it saw at the last callback, or started in
\* (set_state counts what a pointer is moved to, and vivid_transit calls back at
\* the end if that is any), where each condition and junction leads on.
THEOREM EngineNotifies == Supported /\ LeadsOn => (Spec => []ChangesNotified)
<1> SUFFICES ASSUME Supported, LeadsOn PROVE Spec => []ChangesNotified
  OBVIOUS
<1>1. Init => NoticeInv
  BY DEF Init, NoticeInv
<1>2. EngineInv /\ NoticeInv /\ [Next]_vars => NoticeInv'
  BY NoticeStep
<1>3. EngineInv /\ NoticeInv /\ CompleteWhenSeen => ChangesNotified
  <2> SUFFICES ASSUME NoticeInv, CompleteWhenSeen, todo = <<>>, ~init
               PROVE  notified = active \cap Real
    BY DEF ChangesNotified, Resting
  <2>1. Items(todo) = {}
    BY MakesNone DEF Makes
  <2>2. Goal({}, active) = active /\ ~Tells({}, stateChange)
    BY LateGoal DEF Tells
  <2>3. \A n \in active : ~Pseudo(n)
    BY DEF CompleteWhenSeen, CompleteAtRest, Resting
  <2> QED
    BY <2>1, <2>2, <2>3 DEF NoticeInv, Informed, Knows
<1>4. Spec => []EngineInv /\ []CompleteWhenSeen
  BY EngineHolds, EngineComplete
<1> QED
  BY <1>1, <1>2, <1>3, <1>4, PTL DEF Spec
================================================================================
