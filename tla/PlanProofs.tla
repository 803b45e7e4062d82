------------------------------ MODULE PlanProofs ------------------------------
(***************************************************************************)
(* What the component search and a migration plan rest on, for any number  *)
(* of repositories.  A group Tarjan's algorithm closes is a component:     *)
(* what is above its head on the stack leads to the head, and nothing      *)
(* below it can be reached.  A plan lists a caller before what it calls: a *)
(* repository becomes ready when the last of its callers was listed.       *)
(***************************************************************************)
EXTENDS Tarjan, MigrationPlan, FiniteSetTheorems, SequenceTheorems,
        WellFoundedInduction, TLAPS

\* A set of numbers has a smallest one.
LEMMA FirstNumber ==
  ASSUME NEW S \in SUBSET Nat, S # {} PROVE \E n \in S : \A m \in S : n <= m
<1>1. PICK n \in S : \A m \in S : ~(<<m, n>> \in OpToRel(<, Nat))
  BY NatLessThanWellFounded, WFMin, Zenon
<1>2. \A m \in S : ~(m < n) /\ m \in Nat /\ n \in Nat
  BY <1>1, Zenon DEF OpToRel
<1>. QED  BY <1>2

-----------------------------------------------------------------------------
(***************************************************************************)
(* Tarjan's algorithm.  The inductive invariant is stated of numbers num,  *)
(* lowlinks low, a set S of nodes on the stack, a work list td and groups  *)
(* cs, so that a turn of the loop can be taken apart: the node on top is   *)
(* entered, its neighbours are scanned, and the search goes down or up.    *)
(***************************************************************************)

Numbered(num) == {n \in Node : num[n] # 0}
Path(td) == {td[j].node : j \in DOMAIN td}
Active(num, td) == {n \in Path(td) : num[n] # 0}

\* Neighbour i of x has been dealt with: of a node that waits, the neighbours before
\* the one that is being searched.
Behind(td, x, i) ==
    \A j \in DOMAIN td : td[j].node = x => i <= td[j].next /\ (j # Len(td) => i # td[j].next)

SearchTypes(num, low, S, td, cs) ==
    /\ num \in [Node -> Nat] /\ low \in [Node -> Nat]
    /\ S \in SUBSET Node /\ td \in Seq([node : Node, next : Nat]) /\ cs \in SUBSET SUBSET Node

\* Numbers tell nodes apart; the numbered ones are on the stack or in a group.
NumbersTell(num, S, cs) ==
    /\ \A m, n \in Node : num[m] = num[n] /\ num[m] # 0 => m = n
    /\ \A n \in Node : num[n] <= Cardinality(Numbered(num))
    /\ S \cap UNION cs = {} /\ Numbered(num) = S \cup UNION cs

\* The work list is a path of nodes on the stack; only its last node may be without
\* a number.
PathOnStack(num, S, td) ==
    /\ Active(num, td) \subseteq S
    /\ \A j \in DOMAIN td : num[td[j].node] = 0 => j = Len(td) /\ td[j].next = 0
    /\ \A i, j \in DOMAIN td : i < j /\ num[td[j].node] # 0 => num[td[i].node] < num[td[j].node]
    /\ \A j \in DOMAIN td : j # Len(td) =>
         td[j].next \in DOMAIN adjacency[td[j].node] /\ adjacency[td[j].node][td[j].next] = td[j + 1].node

\* The stack holds nothing from before the search began.
NothingOlder(num, S, td) ==
    \A x \in S : td # <<>> /\ num[td[1].node] # 0 /\ num[td[1].node] <= num[x]

\* What has been dealt with is numbered, and lowers the link when it is on the stack.
ScannedLowers(num, low, S, td) ==
    \A x \in Numbered(num) : \A i \in DOMAIN adjacency[x] : Behind(td, x, i) =>
        /\ num[adjacency[x][i]] # 0
        /\ x \in S /\ adjacency[x][i] \in S => low[x] <= num[adjacency[x][i]]

\* A lowlink is the number of a node on the stack that can be reached, an older one
\* once the search of the node is over.
LinksReach(num, low, S, td) ==
    \A x \in S :
        /\ low[x] <= num[x] /\ (x \notin Path(td) => low[x] < num[x])
        /\ \E w \in S : num[w] = low[x] /\ LeadsTo(x, w)

\* A node being searched leads to all that is above it on the stack, and its link is
\* no higher than those of what was found from it and stays on the stack.
ActiveLead(num, low, S, td) ==
    \A a \in Active(num, td), x \in S :
        /\ num[a] <= num[x] => LeadsTo(a, x)
        /\ x \notin Path(td) /\ num[a] < num[x]
             /\ (\A b \in Active(num, td) : num[b] < num[x] => num[b] <= num[a])
             => low[a] <= low[x]

\* The groups so far are components, and nothing leads out of them.
GroupsFinal(cs) ==
    /\ \A c \in cs : c # {} /\ \A m \in c, n \in Node : (n \in c) <=> Together(m, n)
    /\ Closed(UNION cs)

Searching(num, low, S, td, cs) ==
    /\ SearchTypes(num, low, S, td, cs)
    /\ NumbersTell(num, S, cs)
    /\ PathOnStack(num, S, td)
    /\ NothingOlder(num, S, td)
    /\ ScannedLowers(num, low, S, td)
    /\ LinksReach(num, low, S, td)
    /\ ActiveLead(num, low, S, td)
    /\ GroupsFinal(cs)

\* The stack is in the order of the numbers.
Stacked(num, s) ==
    /\ s \in Seq(Node)
    /\ \A i, j \in DOMAIN s : i < j => num[s[i]] < num[s[j]]

\* The graph is one of those the search may be given.
GraphOK == adjacency \in Adjacencies

TarjanInv ==
    /\ GraphOK
    /\ Stacked(number, stack)
    /\ Searching(number, lowlink, Entries(stack), todo, components)
    /\ todo # <<>> => (Top.next = 0 <=> number[Top.node] = 0)

-----------------------------------------------------------------------------
(* Facts the steps need.                                                   *)

\* Every node leads to itself, and on over its edges.
LEMMA LeadsSelf == \A n \in Node : LeadsTo(n, n)
BY Zenon DEF LeadsTo

\* What a node leads to leads on.
LEMMA LeadsOn ==
  ASSUME NEW a \in Node, NEW b \in Node, NEW c \in Node, LeadsTo(a, b), LeadsTo(b, c)
  PROVE  LeadsTo(a, c)
BY Zenon DEF LeadsTo

\* An edge leads from its source to its target.
LEMMA LeadsOver ==
  ASSUME NEW x \in Node, NEW i \in DOMAIN adjacency[x]
  PROVE  LeadsTo(x, adjacency[x][i])
BY Zenon DEF LeadsTo, Closed, Successors

\* Least is what its name says, of numbers.
LEMMA LeastIs ==
  ASSUME NEW S \in SUBSET Nat, S # {}
  PROVE  Least(S) \in S /\ Least(S) \in Nat /\ \A y \in S : Least(S) <= y
<1>1. PICK n \in S : \A m \in S : n <= m
  BY FirstNumber, Zenon
<1>. QED  BY <1>1, Zenon DEF Least

\* There are finitely many nodes, so that those with a number can be counted.
LEMMA CountNumbered == \A num : IsFiniteSet(Numbered(num)) /\ Cardinality(Numbered(num)) \in Nat
<1>1. IsFiniteSet(Node)
  BY FS_Interval, TarjanAssumption DEF Node
<1>2. ASSUME NEW num PROVE IsFiniteSet(Numbered(num))
  BY <1>1, FS_Subset, Zenon DEF Numbered
<1>. QED  BY <1>2, FS_CardinalityType, Zenon

\* A node that gets a number is one more.
LEMMA OneMoreNumbered ==
  ASSUME NEW num, NEW num2, NEW v \in Node, num[v] = 0,
         \A n \in Node : num2[n] # 0 <=> (n = v \/ num[n] # 0)
  PROVE  Cardinality(Numbered(num2)) = Cardinality(Numbered(num)) + 1
<1>1. Numbered(num2) = Numbered(num) \cup {v} /\ v \notin Numbered(num)
  BY Zenon DEF Numbered
<1>2. Cardinality(Numbered(num) \cup {v}) = Cardinality(Numbered(num)) + 1
  BY <1>1, CountNumbered, FS_AddElement, Zenon
<1>. QED  BY <1>1, <1>2, Zenon

\* Neighbours are nodes, at positions from one.
LEMMA GraphIs ==
  ASSUME GraphOK
  PROVE  \A x \in Node : /\ Len(adjacency[x]) \in Nat /\ DOMAIN adjacency[x] = 1..Len(adjacency[x])
                         /\ \A i \in DOMAIN adjacency[x] : i \in Nat /\ i # 0 /\ adjacency[x][i] \in Node
<1>. SUFFICES ASSUME NEW x \in Node
              PROVE  /\ Len(adjacency[x]) \in Nat /\ DOMAIN adjacency[x] = 1..Len(adjacency[x])
                     /\ \A i \in DOMAIN adjacency[x] : i \in Nat /\ i # 0 /\ adjacency[x][i] \in Node
  BY Zenon
<1>1. adjacency[x] \in Seq(Node)
  BY TarjanAssumption, Zenon DEF GraphOK, Node
<1>2. Len(adjacency[x]) \in Nat /\ DOMAIN adjacency[x] = 1..Len(adjacency[x])
  BY <1>1, LenProperties, Zenon
<1>3. \A i \in 1..Len(adjacency[x]) : adjacency[x][i] \in Node
  BY <1>1, ElementOfSeq, Zenon
<1>. QED  BY <1>2, <1>3

\* What the work list is made of, and that a numbered node is on it once.
LEMMA OnThePath ==
  ASSUME NEW num, NEW low, NEW S, NEW td, NEW cs, Searching(num, low, S, td, cs)
  PROVE  /\ Len(td) \in Nat /\ DOMAIN td = 1..Len(td)
         /\ \A j \in 1..Len(td) : td[j] \in [node : Node, next : Nat]
         /\ \A j \in 1..Len(td) : td[j].node \in Node /\ td[j].next \in Nat
         /\ \A n \in Node : num[n] \in Nat /\ low[n] \in Nat
         /\ \A i, j \in 1..Len(td) : num[td[i].node] # 0 /\ td[i].node = td[j].node => i = j
         /\ S \subseteq Node /\ \A x \in S : num[x] # 0 /\ x \in Numbered(num) /\ num[x] \in Nat /\ low[x] \in Nat
<1>1. td \in Seq([node : Node, next : Nat]) /\ num \in [Node -> Nat] /\ low \in [Node -> Nat] /\ S \subseteq Node
  BY Zenon DEF Searching, SearchTypes
<1>2. /\ Len(td) \in Nat /\ DOMAIN td = 1..Len(td)
      /\ \A j \in 1..Len(td) : td[j] \in [node : Node, next : Nat]
  BY <1>1, LenProperties, ElementOfSeq, Zenon
<1>3. \A j \in 1..Len(td) : td[j].node \in Node /\ td[j].next \in Nat
  BY <1>2, Zenon
<1>4. \A n \in Node : num[n] \in Nat /\ low[n] \in Nat
  BY <1>1, Zenon
<1>5. \A i, j \in 1..Len(td) : i < j /\ num[td[j].node] # 0 => num[td[i].node] < num[td[j].node]
  BY <1>2, Zenon DEF Searching, PathOnStack
<1>6. \A i, j \in 1..Len(td) : num[td[i].node] # 0 /\ td[i].node = td[j].node => i = j
  <2>. SUFFICES ASSUME NEW i \in 1..Len(td), NEW j \in 1..Len(td),
                       num[td[i].node] # 0, td[i].node = td[j].node, i # j
                PROVE  FALSE
    BY Zenon
  <2>1. i < j \/ j < i
    BY <1>2
  <2>2. num[td[i].node] < num[td[i].node]
    BY <1>5, <2>1, Zenon
  <2>. QED  BY <1>3, <1>4, <2>2
<1>7. \A x \in S : num[x] # 0 /\ x \in Numbered(num)
  BY Zenon DEF Searching, NumbersTell, Numbered
<1>. QED  BY <1>1, <1>2, <1>3, <1>4, <1>6, <1>7, Zenon

-----------------------------------------------------------------------------
(* One turn of the loop.                                                   *)

\* The node on top of the work list gets the next number and goes on the stack.
EntersTop(num, low, td, k, v, card, num2, low2) ==
    /\ k \in Nat \ {0} /\ k = Len(td) /\ v \in Node /\ v = td[k].node /\ num[v] = 0
    /\ card = Cardinality(Numbered(num))
    /\ num2 \in [Node -> Nat] /\ num2[v] = card + 1 /\ \A n \in Node : n # v => num2[n] = num[n]
    /\ low2 \in [Node -> Nat] /\ low2[v] = card + 1 /\ \A n \in Node : n # v => low2[n] = low[n]

\* Entering the top keeps what the search relies on.
LEMMA EnterKeeps ==
  ASSUME GraphOK, NEW num, NEW low, NEW S, NEW td, NEW cs, Searching(num, low, S, td, cs),
         NEW k, NEW v, NEW card, NEW num2, NEW low2, EntersTop(num, low, td, k, v, card, num2, low2)
  PROVE  Searching(num2, low2, S \cup {v}, td, cs)
<1>0. k \in Nat /\ k # 0 /\ k \in 1..k /\ k = Len(td) /\ v \in Node /\ v = td[k].node /\ num[v] = 0
  BY DEF EntersTop
<1>1. /\ DOMAIN td = 1..k
      /\ \A j \in 1..k : td[j].node \in Node /\ td[j].next \in Nat
      /\ \A n \in Node : num[n] \in Nat /\ low[n] \in Nat
      /\ S \subseteq Node /\ \A x \in S : num[x] # 0
  BY <1>0, OnThePath
<1>2. num2 \in [Node -> Nat] /\ low2 \in [Node -> Nat] /\ S \in SUBSET Node /\ cs \in SUBSET SUBSET Node
      /\ td \in Seq([node : Node, next : Nat])
  BY SMTT(60) DEF Searching, SearchTypes, EntersTop
<1>3. card \in Nat
  BY CountNumbered, Zenon DEF EntersTop
<1>4. num2[v] = card + 1 /\ \A n \in Node : n # v => num2[n] = num[n]
  BY Zenon DEF EntersTop
<1>5. low2[v] = card + 1 /\ \A n \in Node : n # v => low2[n] = low[n]
  BY Zenon DEF EntersTop
<1>20. Cardinality(Numbered(num2)) = card + 1
  <2>1. \A n \in Node : num2[n] # 0 <=> (n = v \/ num[n] # 0)
    BY <1>0, <1>3, <1>4
  <2>. QED  BY <1>0, <2>1, OneMoreNumbered, Zenon DEF EntersTop
<1>6. \A n \in Node : num[n] <= card
  BY Zenon DEF Searching, NumbersTell, EntersTop
<1>7. v \notin S /\ v \notin UNION cs
  BY <1>0, <1>1, Zenon DEF Searching, NumbersTell, Numbered
<1>8. Numbered(num2) = Numbered(num) \cup {v}
  BY <1>0, <1>1, <1>3, <1>4 DEF Numbered
<1>9. Active(num2, td) = Active(num, td) \cup {v}
  <2>1. v \in Path(td) /\ Path(td) \subseteq Node
    BY <1>0, <1>1, Zenon DEF Path
  <2>. QED  BY <2>1, <1>3, <1>4 DEF Active
<1>10. SearchTypes(num2, low2, S \cup {v}, td, cs)
  BY <1>0, <1>2, Zenon DEF SearchTypes
<1>11. NumbersTell(num2, S \cup {v}, cs)
  <2>1. \A m, n \in Node : num[m] = num[n] /\ num[m] # 0 => m = n
    BY Zenon DEF Searching, NumbersTell
  <2>2. \A m, n \in Node : num2[m] = num2[n] /\ num2[m] # 0 => m = n
    BY <1>0, <1>1, <1>3, <1>4, <1>6, <2>1
  <2>3. \A n \in Node : num2[n] <= card + 1
    BY <1>0, <1>1, <1>3, <1>4, <1>6
  <2>4. S \cap UNION cs = {} /\ Numbered(num) = S \cup UNION cs
    BY Zenon DEF Searching, NumbersTell
  <2>. QED  BY <1>20, <1>7, <1>8, <2>2, <2>3, <2>4 DEF NumbersTell
<1>12. \A j \in 1..k : num[td[j].node] = 0 => j = k /\ td[j].next = 0
  BY <1>0, <1>1, Zenon DEF Searching, PathOnStack
<1>13. \A j \in 1..k : j # k => td[j].node # v /\ num[td[j].node] # 0 /\ num2[td[j].node] = num[td[j].node]
  BY <1>0, <1>1, <1>4, <1>12, Zenon
<1>14. PathOnStack(num2, S \cup {v}, td)
  <2>1. Active(num2, td) \subseteq S \cup {v}
    BY <1>9, Zenon DEF Searching, PathOnStack
  <2>2. \A j \in DOMAIN td : num2[td[j].node] # 0
    BY <1>0, <1>1, <1>3, <1>4, <1>13
  <2>3. \A i, j \in 1..k : i < j => num2[td[i].node] < num2[td[j].node]
    <3>. SUFFICES ASSUME NEW i \in 1..k, NEW j \in 1..k, i < j PROVE num2[td[i].node] < num2[td[j].node]
      BY Zenon
    <3>1. CASE j = k
      BY <3>1, <1>0, <1>1, <1>3, <1>4, <1>6, <1>13
    <3>2. CASE j # k
      <4>1. num[td[i].node] < num[td[j].node]
        BY <1>0, <1>1, <1>13, <3>2, Zenon DEF Searching, PathOnStack
      <4>. QED  BY <1>0, <1>1, <1>13, <3>2, <4>1
    <3>. QED  BY <3>1, <3>2, Zenon
  <2>4. \A j \in DOMAIN td : j # Len(td) =>
         td[j].next \in DOMAIN adjacency[td[j].node] /\ adjacency[td[j].node][td[j].next] = td[j + 1].node
    BY Zenon DEF Searching, PathOnStack
  <2>. QED  BY <1>0, <1>1, <2>1, <2>2, <2>3, <2>4, Zenon DEF PathOnStack
<1>15. NothingOlder(num2, S \cup {v}, td)
  <2>. SUFFICES ASSUME NEW x \in S \cup {v}
                PROVE  num2[td[1].node] # 0 /\ num2[td[1].node] <= num2[x]
    <3>1. td # <<>>
      BY <1>0, <1>2, EmptySeq, Zenon
    <3>. QED  BY <3>1, Zenon DEF NothingOlder
  <2>1. CASE k = 1
    <3>1. S = {}
      BY <1>0, <2>1, Zenon DEF Searching, NothingOlder
    <3>2. x = v /\ td[1].node = v
      BY <3>1, <2>1, <1>0, Zenon
    <3>3. card + 1 # 0 /\ card + 1 <= card + 1
      BY <1>3
    <3>. QED  BY <3>2, <3>3, <1>4, Zenon
  <2>2. CASE k # 1
    <3>1. 1 \in 1..k /\ num[td[1].node] # 0 /\ num2[td[1].node] = num[td[1].node] /\ td[1].node \in Node
      BY <1>0, <1>1, <1>13, <2>2
    <3>2. CASE x = v
      BY <1>0, <1>1, <1>3, <1>4, <1>6, <3>1, <3>2
    <3>3. CASE x \in S
      <4>1. num[td[1].node] <= num[x]
        BY <3>3, Zenon DEF Searching, NothingOlder
      <4>2. num2[x] = num[x]
        BY <1>0, <1>1, <1>4, <1>7, <3>3, Zenon
      <4>. QED  BY <3>1, <4>1, <4>2, Zenon
    <3>. QED  BY <3>2, <3>3, Zenon
  <2>. QED  BY <2>1, <2>2, Zenon
<1>16. ScannedLowers(num2, low2, S \cup {v}, td)
  <2>. SUFFICES ASSUME NEW x \in Numbered(num2), NEW i \in DOMAIN adjacency[x], Behind(td, x, i)
                PROVE  /\ num2[adjacency[x][i]] # 0
                       /\ x \in S \cup {v} /\ adjacency[x][i] \in S \cup {v} => low2[x] <= num2[adjacency[x][i]]
    BY Zenon DEF ScannedLowers
  <2>0. x \in Node /\ i \in Nat /\ i # 0 /\ adjacency[x][i] \in Node
    <3>1. x \in Node
      BY Zenon DEF Numbered
    <3>. QED  BY <3>1, GraphIs, Zenon
  <2>1. x # v
    <3>. SUFFICES ASSUME x = v PROVE FALSE
      BY Zenon
    <3>1. i <= td[k].next
      BY <1>0, <1>1, Zenon DEF Behind
    <3>2. td[k].next = 0
      BY <1>0, <1>1, <1>12, Zenon
    <3>. QED  BY <2>0, <3>1, <3>2
  <2>2. x \in Numbered(num)
    BY <1>8, <2>1, Zenon
  <2>3. /\ num[adjacency[x][i]] # 0
        /\ x \in S /\ adjacency[x][i] \in S => low[x] <= num[adjacency[x][i]]
    BY <2>2, Zenon DEF Searching, ScannedLowers
  <2>4. adjacency[x][i] # v
    BY <1>0, <2>3, Zenon
  <2>. QED  BY <1>4, <1>5, <2>0, <2>1, <2>3, <2>4, Zenon
<1>17. LinksReach(num2, low2, S \cup {v}, td)
  <2>. SUFFICES ASSUME NEW x \in S \cup {v}
                PROVE  /\ low2[x] <= num2[x] /\ (x \notin Path(td) => low2[x] < num2[x])
                       /\ \E w \in S \cup {v} : num2[w] = low2[x] /\ LeadsTo(x, w)
    BY Zenon DEF LinksReach
  <2>1. CASE x = v
    <3>1. v \in Path(td)
      BY <1>0, <1>1, Zenon DEF Path
    <3>. QED  BY <2>1, <3>1, <1>0, <1>3, <1>4, <1>5, LeadsSelf
  <2>2. CASE x \in S
    <3>1. /\ low[x] <= num[x] /\ (x \notin Path(td) => low[x] < num[x])
          /\ \E w \in S : num[w] = low[x] /\ LeadsTo(x, w)
      BY <2>2, Zenon DEF Searching, LinksReach
    <3>2. \A w \in S : num2[w] = num[w] /\ low2[w] = low[w]
      BY <1>1, <1>4, <1>5, <1>7, Zenon
    <3>. QED  BY <2>2, <3>1, <3>2, Zenon
  <2>. QED  BY <2>1, <2>2, Zenon
<1>18. ActiveLead(num2, low2, S \cup {v}, td)
  <2>. SUFFICES ASSUME NEW a \in Active(num2, td), NEW x \in S \cup {v}
                PROVE  /\ num2[a] <= num2[x] => LeadsTo(a, x)
                       /\ x \notin Path(td) /\ num2[a] < num2[x]
                            /\ (\A b \in Active(num2, td) : num2[b] < num2[x] => num2[b] <= num2[a])
                            => low2[a] <= low2[x]
    BY Zenon DEF ActiveLead
  <2>0. \A w \in S : w \in Node /\ w # v /\ num2[w] = num[w] /\ low2[w] = low[w] /\ num[w] <= card /\ num[w] \in Nat
    BY <1>1, <1>4, <1>5, <1>6, <1>7, Zenon
  <2>1. v \in Path(td)
    BY <1>0, <1>1, Zenon DEF Path
  <2>2. CASE a = v
    <3>1. x \in S => ~(num2[a] <= num2[x])
      BY <2>0, <2>2, <1>3, <1>4
    <3>2. x \in S => ~(num2[a] < num2[x])
      BY <2>0, <2>2, <1>3, <1>4
    <3>. QED  BY <2>1, <2>2, <3>1, <3>2, LeadsSelf, <1>0, <1>1, Zenon
  <2>3. CASE a # v
    <3>1. a \in Active(num, td) /\ a \in S
      BY <2>3, <1>9, Zenon DEF Searching, PathOnStack
    <3>2. CASE x = v
      <4>1. PICK j \in 1..k : td[j].node = a
        BY <1>0, <1>1, <3>1, Zenon DEF Active, Path
      <4>2. j < k /\ k - 1 \in 1..k /\ k - 1 # k
        BY <1>0, <1>1, <2>3, <4>1
      <4>. DEFINE p == td[k - 1].node
      <4>3. p \in Active(num, td) /\ p \in S /\ p \in Node
        <5>1. p \in Path(td) /\ p \in Node
          BY <1>0, <1>1, <4>2, Zenon DEF Path
        <5>2. p \in Active(num, td)
          BY <1>13, <4>2, <5>1, Zenon DEF Active
        <5>. QED  BY <5>1, <5>2, Zenon DEF Searching, PathOnStack
      <4>4. num[a] <= num[p]
        <5>1. CASE j = k - 1
          BY <5>1, <4>1, <4>3, <1>0, <1>1
        <5>2. CASE j < k - 1
          <6>1. num[a] < num[p]
            BY <5>2, <4>1, <4>2, <1>1, <1>13, Zenon DEF Searching, PathOnStack
          <6>. QED  BY <6>1, <3>1, <4>3, <1>0, <1>1
        <5>. QED  BY <5>1, <5>2, <4>2, <1>0, <1>1
      <4>5. LeadsTo(a, p)
        BY <3>1, <4>3, <4>4, Zenon DEF Searching, ActiveLead
      <4>6. td[k - 1].next \in DOMAIN adjacency[p] /\ adjacency[p][td[k - 1].next] = v
        <5>1. (k - 1) + 1 = k /\ k - 1 \in DOMAIN td /\ k - 1 # Len(td)
          BY <1>0, <1>1, <4>2
        <5>2. td[k - 1].next \in DOMAIN adjacency[p] /\ adjacency[p][td[k - 1].next] = td[(k - 1) + 1].node
          BY <5>1, Zenon DEF Searching, PathOnStack
        <5>. QED  BY <1>0, <5>1, <5>2, Zenon
      <4>. HIDE DEF p
      <4>7. LeadsTo(p, v)
        BY <4>3, <4>6, LeadsOver, Zenon
      <4>8. LeadsTo(a, v)
        BY <4>3, <4>5, <4>7, <3>1, <1>0, <1>1, LeadsOn, Zenon
      <4>. QED  BY <4>8, <3>2, <2>1, Zenon
    <3>3. CASE x \in S
      <4>1. num[a] <= num[x] => LeadsTo(a, x)
        BY <3>1, <3>3, Zenon DEF Searching, ActiveLead
      <4>2. ASSUME x \notin Path(td), num[a] < num[x],
                   \A b \in Active(num, td) : num[b] < num[x] => num[b] <= num[a]
            PROVE  low[a] <= low[x]
        BY <4>2, <3>1, <3>3, Zenon DEF Searching, ActiveLead
      <4>3. \A b \in Active(num, td) : b \in S
        BY Zenon DEF Searching, PathOnStack
      <4>. QED  BY <4>1, <4>2, <4>3, <1>9, <2>0, <3>1, <3>3, Zenon
    <3>. QED  BY <3>2, <3>3, Zenon
  <2>. QED  BY <2>2, <2>3, Zenon
<1>19. GroupsFinal(cs)
  BY Zenon DEF Searching
<1>. QED  BY <1>10, <1>11, <1>14, <1>15, <1>16, <1>17, <1>18, <1>19, Zenon DEF Searching

\* Neighbours of the node on top up to m are scanned: they have numbers, and those on
\* the stack lower its link to l.
ScansTop(num, low, S, td, k, v, m, l, low2, td2) ==
    /\ k \in Nat \ {0} /\ k = Len(td) /\ v \in Node /\ v = td[k].node /\ num[v] # 0
    /\ m \in Nat /\ td[k].next <= m
    /\ \A i \in DOMAIN adjacency[v] : td[k].next < i /\ i <= m =>
         /\ num[adjacency[v][i]] # 0
         /\ adjacency[v][i] \in S => l <= num[adjacency[v][i]]
    /\ l \in Nat /\ l <= low[v]
    /\ l = low[v] \/ \E i \in DOMAIN adjacency[v] : adjacency[v][i] \in S /\ num[adjacency[v][i]] = l
    /\ low2 \in [Node -> Nat] /\ low2[v] = l /\ \A n \in Node : n # v => low2[n] = low[n]
    /\ td2 \in Seq([node : Node, next : Nat]) /\ Len(td2) = k /\ td2[k].next = m
    /\ \A j \in 1..k : td2[j].node = td[j].node /\ (j # k => td2[j].next = td[j].next)

\* Scanning neighbours of the top keeps it too.
LEMMA ScanKeeps ==
  ASSUME GraphOK, NEW num, NEW low, NEW S, NEW td, NEW cs, Searching(num, low, S, td, cs),
         NEW k, NEW v, NEW m, NEW l, NEW low2, NEW td2, ScansTop(num, low, S, td, k, v, m, l, low2, td2)
  PROVE  Searching(num, low2, S, td2, cs)
<1>0. k \in Nat /\ k # 0 /\ k \in 1..k /\ k = Len(td) /\ v \in Node /\ v = td[k].node /\ num[v] # 0
  BY DEF ScansTop
<1>1. /\ DOMAIN td = 1..k
      /\ \A j \in 1..k : td[j].node \in Node /\ td[j].next \in Nat
      /\ \A n \in Node : num[n] \in Nat /\ low[n] \in Nat
      /\ S \subseteq Node /\ \A x \in S : num[x] # 0
      /\ \A j \in 1..k : td[j].node = v => j = k
  <2>1. \A i, j \in 1..k : num[td[i].node] # 0 /\ td[i].node = td[j].node => i = j
    BY <1>0, OnThePath
  <2>2. \A j \in 1..k : td[j].node = v => j = k
    BY <1>0, <2>1, Zenon
  <2>. QED  BY <1>0, <2>2, OnThePath
<1>2. low2 \in [Node -> Nat] /\ td2 \in Seq([node : Node, next : Nat]) /\ Len(td2) = k
  BY Zenon DEF ScansTop
<1>3. DOMAIN td2 = 1..k
  BY <1>2, LenProperties, Zenon
<1>4. l \in Nat /\ l <= low[v] /\ low2[v] = l /\ \A n \in Node : n # v => low2[n] = low[n]
  BY Zenon DEF ScansTop
<1>5. td2[k].next = m /\ m \in Nat /\ td[k].next <= m
      /\ \A j \in 1..k : td2[j].node = td[j].node /\ (j # k => td2[j].next = td[j].next)
  BY <1>0, Zenon DEF ScansTop
<1>6. Path(td2) = Path(td) /\ v \in Path(td)
  <2>1. Path(td2) = {td2[j].node : j \in 1..k} /\ Path(td) = {td[j].node : j \in 1..k}
    BY <1>1, <1>3, Zenon DEF Path
  <2>. QED  BY <1>0, <1>5, <2>1
<1>7. Active(num, td2) = Active(num, td) /\ v \in Active(num, td)
  BY <1>0, <1>6, Zenon DEF Active
<1>8. v \in S
  BY <1>7, Zenon DEF Searching, PathOnStack
<1>9. \A n \in Node : low2[n] <= low[n] /\ low2[n] \in Nat
  BY <1>1, <1>2, <1>4, SMTT(60)
<1>10. SearchTypes(num, low2, S, td2, cs)
  BY <1>2, Zenon DEF Searching, SearchTypes
<1>11. PathOnStack(num, S, td2)
  <2>1. Active(num, td2) \subseteq S
    BY <1>7, Zenon DEF Searching, PathOnStack
  <2>2. \A j \in DOMAIN td2 : num[td2[j].node] = 0 => j = Len(td2) /\ td2[j].next = 0
    <3>1. \A j \in 1..k : num[td[j].node] = 0 => j = k
      BY <1>0, <1>1, Zenon DEF Searching, PathOnStack
    <3>. QED  BY <1>0, <1>3, <1>5, <3>1, Zenon
  <2>3. \A i, j \in DOMAIN td2 : i < j /\ num[td2[j].node] # 0 => num[td2[i].node] < num[td2[j].node]
    BY <1>1, <1>3, <1>5, Zenon DEF Searching, PathOnStack
  <2>4. \A j \in 1..k : j # k =>
         td2[j].next \in DOMAIN adjacency[td2[j].node] /\ adjacency[td2[j].node][td2[j].next] = td2[j + 1].node
    <3>. SUFFICES ASSUME NEW j \in 1..k, j # k
                  PROVE  /\ td2[j].next \in DOMAIN adjacency[td2[j].node]
                         /\ adjacency[td2[j].node][td2[j].next] = td2[j + 1].node
      BY Zenon
    <3>1. j + 1 \in 1..k
      BY <1>0
    <3>2. td[j].next \in DOMAIN adjacency[td[j].node] /\ adjacency[td[j].node][td[j].next] = td[j + 1].node
      BY <1>0, <1>1, Zenon DEF Searching, PathOnStack
    <3>. QED  BY <1>5, <3>1, <3>2, Zenon
  <2>. QED  BY <1>2, <1>3, <2>1, <2>2, <2>3, <2>4, Zenon DEF PathOnStack
<1>12. NothingOlder(num, S, td2)
  <2>. SUFFICES ASSUME NEW x \in S PROVE td2 # <<>> /\ num[td2[1].node] # 0 /\ num[td2[1].node] <= num[x]
    BY Zenon DEF NothingOlder
  <2>1. num[td[1].node] # 0 /\ num[td[1].node] <= num[x]
    BY Zenon DEF Searching, NothingOlder
  <2>2. td2 # <<>>
    BY <1>0, <1>2, EmptySeq, Zenon
  <2>3. td2[1].node = td[1].node
    BY <1>0, <1>5
  <2>. QED  BY <2>1, <2>2, <2>3, Zenon
<1>13. ScannedLowers(num, low2, S, td2)
  <2>. SUFFICES ASSUME NEW x \in Numbered(num), NEW i \in DOMAIN adjacency[x], Behind(td2, x, i)
                PROVE  /\ num[adjacency[x][i]] # 0
                       /\ x \in S /\ adjacency[x][i] \in S => low2[x] <= num[adjacency[x][i]]
    BY Zenon DEF ScannedLowers
  <2>0. x \in Node /\ i \in Nat /\ adjacency[x][i] \in Node
    BY GraphIs, Zenon DEF Numbered
  <2>1. ASSUME Behind(td, x, i)
        PROVE  /\ num[adjacency[x][i]] # 0
               /\ x \in S /\ adjacency[x][i] \in S => low2[x] <= num[adjacency[x][i]]
    <3>1. /\ num[adjacency[x][i]] # 0
          /\ x \in S /\ adjacency[x][i] \in S => low[x] <= num[adjacency[x][i]]
      BY <2>1, Zenon DEF Searching, ScannedLowers
    <3>2. low2[x] <= low[x] /\ low2[x] \in Nat /\ low[x] \in Nat /\ num[adjacency[x][i]] \in Nat
      BY <1>1, <1>9, <2>0, Zenon
    <3>. QED  BY <3>1, <3>2
  <2>2. CASE x = v
    <3>1. i <= m
      BY <1>0, <1>3, <1>5, <2>2, Zenon DEF Behind
    <3>2. CASE i <= td[k].next
      <4>1. Behind(td, x, i)
        BY <1>0, <1>1, <2>2, <3>2, Zenon DEF Behind
      <4>. QED  BY <2>1, <4>1, Zenon
    <3>3. CASE td[k].next < i
      BY <1>4, <2>2, <3>1, <3>3, Zenon DEF ScansTop
    <3>. QED  BY <1>0, <1>1, <2>0, <3>2, <3>3
  <2>3. CASE x # v
    <3>1. Behind(td, x, i)
      <4>. SUFFICES ASSUME NEW j \in 1..k, td[j].node = x
                    PROVE  i <= td[j].next /\ (j # Len(td) => i # td[j].next)
        BY <1>1, Zenon DEF Behind
      <4>1. j # k
        BY <1>0, <2>3, Zenon
      <4>. QED  BY <1>0, <1>2, <1>3, <1>5, <4>1, Zenon DEF Behind
    <3>. QED  BY <2>1, <3>1, Zenon
  <2>. QED  BY <2>2, <2>3, Zenon
<1>14. LinksReach(num, low2, S, td2)
  <2>. SUFFICES ASSUME NEW x \in S
                PROVE  /\ low2[x] <= num[x] /\ (x \notin Path(td) => low2[x] < num[x])
                       /\ \E w \in S : num[w] = low2[x] /\ LeadsTo(x, w)
    BY <1>6, Zenon DEF LinksReach
  <2>1. /\ low[x] <= num[x] /\ (x \notin Path(td) => low[x] < num[x])
        /\ \E w \in S : num[w] = low[x] /\ LeadsTo(x, w)
    BY Zenon DEF Searching, LinksReach
  <2>2. low2[x] <= num[x]
    BY <1>1, <1>9, <2>1
  <2>3. CASE x # v
    BY <1>1, <1>4, <2>1, <2>3, Zenon
  <2>4. CASE x = v /\ l = low[v]
    BY <1>4, <1>6, <2>1, <2>2, <2>4, Zenon
  <2>5. CASE x = v /\ l # low[v]
    <3>1. PICK i \in DOMAIN adjacency[v] : adjacency[v][i] \in S /\ num[adjacency[v][i]] = l
      BY <2>5, Zenon DEF ScansTop
    <3>2. LeadsTo(v, adjacency[v][i])
      BY <1>0, LeadsOver, Zenon
    <3>. QED  BY <1>4, <1>6, <2>2, <2>5, <3>1, <3>2, Zenon
  <2>. QED  BY <2>3, <2>4, <2>5, Zenon
<1>15. ActiveLead(num, low2, S, td2)
  <2>. SUFFICES ASSUME NEW a \in Active(num, td), NEW x \in S
                PROVE  /\ num[a] <= num[x] => LeadsTo(a, x)
                       /\ x \notin Path(td) /\ num[a] < num[x]
                            /\ (\A b \in Active(num, td) : num[b] < num[x] => num[b] <= num[a])
                            => low2[a] <= low2[x]
    BY <1>6, <1>7, Zenon DEF ActiveLead
  <2>1. num[a] <= num[x] => LeadsTo(a, x)
    BY Zenon DEF Searching, ActiveLead
  <2>2. ASSUME x \notin Path(td), num[a] < num[x],
               \A b \in Active(num, td) : num[b] < num[x] => num[b] <= num[a]
        PROVE  low2[a] <= low2[x]
    <3>1. low[a] <= low[x]
      BY <2>2, Zenon DEF Searching, ActiveLead
    <3>2. a \in S /\ a \in Node /\ x \in Node /\ x # v
      BY <1>1, <1>6, <2>2, Zenon DEF Searching, PathOnStack
    <3>. QED  BY <1>1, <1>4, <1>9, <3>1, <3>2
  <2>. QED  BY <2>1, <2>2, Zenon
<1>16. NumbersTell(num, S, cs) /\ GroupsFinal(cs)
  BY Zenon DEF Searching
<1>. QED  BY <1>10, <1>11, <1>12, <1>13, <1>14, <1>15, <1>16, Zenon DEF Searching

\* An undiscovered neighbour, the one after those that were scanned, is put on top.
PushesTop(num, td, k, v, u, td2) ==
    /\ k \in Nat \ {0} /\ k = Len(td) /\ v \in Node /\ v = td[k].node /\ num[v] # 0
    /\ td[k].next + 1 \in DOMAIN adjacency[v] /\ u = adjacency[v][td[k].next + 1] /\ num[u] = 0
    /\ td2 \in Seq([node : Node, next : Nat]) /\ Len(td2) = k + 1
    /\ \A j \in 1..k : td2[j].node = td[j].node /\ (j # k => td2[j].next = td[j].next)
    /\ td2[k].next = td[k].next + 1 /\ td2[k + 1].node = u /\ td2[k + 1].next = 0

\* A new top of the work list keeps it.
LEMMA PushKeeps ==
  ASSUME GraphOK, NEW num, NEW low, NEW S, NEW td, NEW cs, Searching(num, low, S, td, cs),
         NEW k, NEW v, NEW u, NEW td2, PushesTop(num, td, k, v, u, td2)
  PROVE  Searching(num, low, S, td2, cs)
<1>0. k \in Nat /\ k # 0 /\ k \in 1..k /\ k = Len(td) /\ v \in Node /\ v = td[k].node /\ num[v] # 0 /\ num[u] = 0
  BY DEF PushesTop
<1>1. /\ DOMAIN td = 1..k
      /\ \A j \in 1..k : td[j].node \in Node /\ td[j].next \in Nat
      /\ \A n \in Node : num[n] \in Nat /\ low[n] \in Nat
      /\ S \subseteq Node /\ \A x \in S : num[x] # 0
      /\ \A j \in 1..k : td[j].node = v => j = k
  <2>1. \A i, j \in 1..k : num[td[i].node] # 0 /\ td[i].node = td[j].node => i = j
    BY <1>0, OnThePath
  <2>2. \A j \in 1..k : td[j].node = v => j = k
    BY <1>0, <2>1, Zenon
  <2>. QED  BY <1>0, <2>2, OnThePath
<1>2. td2 \in Seq([node : Node, next : Nat]) /\ Len(td2) = k + 1
  BY Zenon DEF PushesTop
<1>3. DOMAIN td2 = 1..(k + 1) /\ k + 1 \in 1..(k + 1) /\ \A j \in 1..(k + 1) : j \in 1..k \/ j = k + 1
  BY <1>0, <1>2, LenProperties
<1>4. \A j \in 1..k : td2[j].node = td[j].node /\ (j # k => td2[j].next = td[j].next) /\ j \in 1..(k + 1)
  BY <1>0 DEF PushesTop
<1>5. td2[k].next = td[k].next + 1 /\ td2[k + 1].node = u /\ td2[k + 1].next = 0
      /\ td[k].next + 1 \in DOMAIN adjacency[v] /\ u = adjacency[v][td[k].next + 1]
  BY Zenon DEF PushesTop
<1>6. Path(td2) = Path(td) \cup {u}
  <2>1. Path(td2) = {td2[j].node : j \in 1..(k + 1)} /\ Path(td) = {td[j].node : j \in 1..k}
    BY <1>1, <1>3, Zenon DEF Path
  <2>. QED  BY <1>3, <1>4, <1>5, <2>1
<1>7. Active(num, td2) = Active(num, td)
  BY <1>0, <1>6, Zenon DEF Active
<1>8. \A j \in 1..k : num[td[j].node] # 0
  BY <1>0, <1>1, Zenon DEF Searching, PathOnStack
<1>10. SearchTypes(num, low, S, td2, cs)
  BY <1>2, Zenon DEF Searching, SearchTypes
<1>11. PathOnStack(num, S, td2)
  <2>1. Active(num, td2) \subseteq S
    BY <1>7, Zenon DEF Searching, PathOnStack
  <2>2. \A j \in DOMAIN td2 : num[td2[j].node] = 0 => j = Len(td2) /\ td2[j].next = 0
    BY <1>2, <1>3, <1>4, <1>5, <1>8, Zenon
  <2>3. \A i, j \in 1..(k + 1) : i < j /\ num[td2[j].node] # 0 => num[td2[i].node] < num[td2[j].node]
    <3>. SUFFICES ASSUME NEW i \in 1..(k + 1), NEW j \in 1..(k + 1), i < j, num[td2[j].node] # 0
                  PROVE  num[td2[i].node] < num[td2[j].node]
      BY Zenon
    <3>1. j # k + 1
      BY <1>0, <1>5, Zenon
    <3>2. i \in 1..k /\ j \in 1..k
      BY <1>0, <3>1
    <3>. QED  BY <1>1, <1>4, <3>2, Zenon DEF Searching, PathOnStack
  <2>4. \A j \in 1..(k + 1) : j # k + 1 =>
         td2[j].next \in DOMAIN adjacency[td2[j].node] /\ adjacency[td2[j].node][td2[j].next] = td2[j + 1].node
    <3>. SUFFICES ASSUME NEW j \in 1..(k + 1), j # k + 1
                  PROVE  /\ td2[j].next \in DOMAIN adjacency[td2[j].node]
                         /\ adjacency[td2[j].node][td2[j].next] = td2[j + 1].node
      BY Zenon
    <3>1. CASE j = k
      BY <1>0, <1>4, <1>5, <3>1, Zenon
    <3>2. CASE j # k
      <4>1. j \in 1..k /\ j + 1 \in 1..k
        BY <1>0, <3>2
      <4>2. td[j].next \in DOMAIN adjacency[td[j].node] /\ adjacency[td[j].node][td[j].next] = td[j + 1].node
        BY <1>0, <1>1, <3>2, <4>1, Zenon DEF Searching, PathOnStack
      <4>. QED  BY <1>4, <3>2, <4>1, <4>2, Zenon
    <3>. QED  BY <3>1, <3>2, Zenon
  <2>. QED  BY <1>2, <1>3, <2>1, <2>2, <2>3, <2>4, Zenon DEF PathOnStack
<1>12. NothingOlder(num, S, td2)
  <2>. SUFFICES ASSUME NEW x \in S PROVE td2 # <<>> /\ num[td2[1].node] # 0 /\ num[td2[1].node] <= num[x]
    BY Zenon DEF NothingOlder
  <2>1. num[td[1].node] # 0 /\ num[td[1].node] <= num[x]
    BY Zenon DEF Searching, NothingOlder
  <2>2. td2 # <<>>
    BY <1>0, <1>2, EmptySeq
  <2>3. td2[1].node = td[1].node
    BY <1>0, <1>4
  <2>. QED  BY <2>1, <2>2, <2>3, Zenon
<1>13. ScannedLowers(num, low, S, td2)
  <2>. SUFFICES ASSUME NEW x \in Numbered(num), NEW i \in DOMAIN adjacency[x], Behind(td2, x, i)
                PROVE  Behind(td, x, i)
    BY Zenon DEF Searching, ScannedLowers
  <2>0. x \in Node /\ i \in Nat
    BY GraphIs, Zenon DEF Numbered
  <2>. SUFFICES ASSUME NEW j \in 1..k, td[j].node = x
                PROVE  i <= td[j].next /\ (j # k => i # td[j].next)
    BY <1>0, <1>1, Zenon DEF Behind
  <2>1. i <= td2[j].next /\ i # td2[j].next
    <3>1. j \in DOMAIN td2 /\ j # Len(td2) /\ td2[j].node = x
      BY <1>0, <1>2, <1>3, <1>4
    <3>. QED  BY <3>1, Zenon DEF Behind
  <2>2. CASE j = k
    <3>1. td[k].next \in Nat
      BY <1>0, <1>1, Zenon
    <3>2. i <= td[k].next + 1 /\ i # td[k].next + 1
      BY <1>5, <2>1, <2>2, Zenon
    <3>. QED  BY <2>0, <2>2, <3>1, <3>2
  <2>3. CASE j # k
    BY <1>4, <2>1, <2>3, Zenon
  <2>. QED  BY <2>2, <2>3, Zenon
<1>14. LinksReach(num, low, S, td2)
  BY <1>6, Zenon DEF Searching, LinksReach
<1>15. ActiveLead(num, low, S, td2)
  <2>. SUFFICES ASSUME NEW a \in Active(num, td), NEW x \in S
                PROVE  /\ num[a] <= num[x] => LeadsTo(a, x)
                       /\ x \notin Path(td2) /\ num[a] < num[x]
                            /\ (\A b \in Active(num, td) : num[b] < num[x] => num[b] <= num[a])
                            => low[a] <= low[x]
    BY <1>7, Zenon DEF ActiveLead
  <2>1. x \notin Path(td2) => x \notin Path(td)
    BY <1>6, Zenon
  <2>. QED  BY <2>1, Zenon DEF Searching, ActiveLead
<1>16. NumbersTell(num, S, cs) /\ GroupsFinal(cs)
  BY Zenon DEF Searching
<1>. QED  BY <1>10, <1>11, <1>12, <1>13, <1>14, <1>15, <1>16, Zenon DEF Searching

\* The node on top, all of whose neighbours are behind it, is taken off the work list.
PopsTop(num, td, k, v, td2) ==
    /\ k \in Nat \ {0} /\ k = Len(td) /\ v \in Node /\ v = td[k].node /\ num[v] # 0
    /\ \A i \in DOMAIN adjacency[v] : i <= td[k].next
    /\ td2 \in Seq([node : Node, next : Nat]) /\ Len(td2) = k - 1
    /\ \A j \in 1..(k - 1) : td2[j] = td[j]

\* What is left of the path, and whose neighbour the node was.
PathBelow(num, S, td, k, v, td2) ==
    /\ v \in S /\ Path(td) = Path(td2) \cup {v} /\ v \notin Path(td2)
    /\ Active(num, td2) = Active(num, td) \ {v}
    /\ \A b \in Active(num, td2) : b \in S /\ b \in Node /\ num[b] < num[v]
                                   /\ k # 1 /\ num[b] <= num[td[k - 1].node]
    /\ k # 1 => td[k - 1].node \in Active(num, td2)
    /\ \A x \in Node, i \in Nat : Behind(td2, x, i) /\ i \in DOMAIN adjacency[x] =>
         Behind(td, x, i) \/ (k # 1 /\ x = td[k - 1].node /\ adjacency[x][i] = v)

\* The top was the node with the highest number on the path.
LEMMA PopFacts ==
  ASSUME GraphOK, NEW num, NEW low, NEW S, NEW td, NEW cs, Searching(num, low, S, td, cs),
         NEW k, NEW v, NEW td2, PopsTop(num, td, k, v, td2)
  PROVE  PathBelow(num, S, td, k, v, td2)
<1>0. k \in Nat /\ k # 0 /\ k \in 1..k /\ k = Len(td) /\ v \in Node /\ v = td[k].node /\ num[v] # 0
  BY DEF PopsTop
<1>1. /\ DOMAIN td = 1..k
      /\ \A j \in 1..k : td[j].node \in Node /\ td[j].next \in Nat
      /\ \A n \in Node : num[n] \in Nat /\ low[n] \in Nat
      /\ S \subseteq Node
      /\ \A j \in 1..k : td[j].node = v => j = k
  <2>1. \A i, j \in 1..k : num[td[i].node] # 0 /\ td[i].node = td[j].node => i = j
    BY <1>0, OnThePath
  <2>2. \A j \in 1..k : td[j].node = v => j = k
    BY <1>0, <2>1, Zenon
  <2>. QED  BY <1>0, <2>2, OnThePath, Zenon
<1>2. td2 \in Seq([node : Node, next : Nat]) /\ Len(td2) = k - 1
  BY Zenon DEF PopsTop
<1>3. DOMAIN td2 = 1..(k - 1) /\ \A j \in 1..k : j \in 1..(k - 1) \/ j = k
  BY <1>0, <1>2, LenProperties
<1>4. \A j \in 1..(k - 1) : td2[j] = td[j] /\ j \in 1..k /\ j # k /\ j < k
  BY <1>0 DEF PopsTop
<1>5. Path(td) = Path(td2) \cup {v} /\ v \notin Path(td2)
  <2>1. Path(td2) = {td2[j].node : j \in 1..(k - 1)} /\ Path(td) = {td[j].node : j \in 1..k}
    BY <1>1, <1>3, Zenon DEF Path
  <2>2. v \notin Path(td2)
    BY <1>1, <1>4, <2>1, Zenon
  <2>3. Path(td) \subseteq Path(td2) \cup {v}
    BY <1>0, <1>3, <1>4, <2>1
  <2>4. Path(td2) \cup {v} \subseteq Path(td)
    BY <1>0, <1>4, <2>1
  <2>. QED  BY <2>2, <2>3, <2>4, Zenon
<1>6. Active(num, td2) = Active(num, td) \ {v} /\ v \in Active(num, td)
  BY <1>0, <1>5, Zenon DEF Active
<1>7. v \in S /\ \A b \in Active(num, td2) : b \in S
  BY <1>6, Zenon DEF Searching, PathOnStack
<1>8. \A i, j \in 1..k : i < j => num[td[i].node] < num[td[j].node]
  <2>1. \A j \in 1..k : num[td[j].node] # 0
    BY <1>0, <1>1, Zenon DEF Searching, PathOnStack
  <2>. QED  BY <1>1, <2>1, Zenon DEF Searching, PathOnStack
<1>9. ASSUME NEW b \in Active(num, td2)
      PROVE  num[b] < num[v] /\ k # 1 /\ num[b] <= num[td[k - 1].node]
  <2>1. PICK j \in 1..(k - 1) : td[j].node = b
    BY <1>3, <1>4, Zenon DEF Active, Path
  <2>2. k # 1 /\ k - 1 \in 1..k /\ j \in 1..k /\ j < k /\ (j = k - 1 \/ j < k - 1)
    BY <1>0, <2>1
  <2>3. num[b] < num[v]
    BY <1>0, <1>8, <2>1, <2>2, Zenon
  <2>4. num[b] <= num[td[k - 1].node]
    <3>1. num[b] \in Nat /\ num[td[k - 1].node] \in Nat
      BY <1>1, <2>1, <2>2, Zenon
    <3>2. num[b] = num[td[k - 1].node] \/ num[b] < num[td[k - 1].node]
      BY <1>8, <2>1, <2>2, Zenon
    <3>. QED  BY <3>1, <3>2
  <2>. QED  BY <2>2, <2>3, <2>4, Zenon
<1>10. ASSUME k # 1 PROVE td[k - 1].node \in Active(num, td2) /\ k - 1 \in 1..(k - 1) /\ k - 1 \in 1..k
  <2>1. k - 1 \in 1..(k - 1) /\ k - 1 \in 1..k /\ k - 1 # k
    BY <1>0, <1>10
  <2>2. num[td[k - 1].node] # 0
    BY <1>0, <1>1, <2>1, Zenon DEF Searching, PathOnStack
  <2>3. td[k - 1].node \in Path(td2)
    BY <1>3, <1>4, <2>1, Zenon DEF Path
  <2>. QED  BY <2>1, <2>2, <2>3, Zenon DEF Active
<1>11. ASSUME NEW x \in Node, NEW i \in Nat, Behind(td2, x, i), i \in DOMAIN adjacency[x]
       PROVE  Behind(td, x, i) \/ (k # 1 /\ x = td[k - 1].node /\ adjacency[x][i] = v)
  <2>. SUFFICES ASSUME NEW j \in 1..k, td[j].node = x, ~(i <= td[j].next /\ (j # k => i # td[j].next))
                PROVE  k # 1 /\ x = td[k - 1].node /\ adjacency[x][i] = v
    BY <1>0, <1>1, Zenon DEF Behind
  <2>1. j # k
    BY <1>0, <1>11, Zenon DEF PopsTop
  <2>2. j \in 1..(k - 1)
    BY <1>3, <2>1, Zenon
  <2>3. i <= td[j].next /\ (j # k - 1 => i # td[j].next)
    BY <1>2, <1>3, <1>4, <1>11, <2>2, Zenon DEF Behind
  <2>4. j = k - 1 /\ i = td[j].next /\ k # 1 /\ j + 1 = k
    BY <1>0, <2>1, <2>2, <2>3
  <2>5. adjacency[td[j].node][td[j].next] = td[j + 1].node
    BY <1>0, <1>1, <2>1, Zenon DEF Searching, PathOnStack
  <2>. QED  BY <1>0, <2>4, <2>5, Zenon
<1>. QED  BY <1>1, <1>5, <1>6, <1>7, <1>9, <1>10, <1>11, Zenon DEF PathBelow

\* What is left of the path is one, of nodes that stay on the stack.
LEMMA PopPath ==
  ASSUME GraphOK, NEW num, NEW low, NEW S, NEW td, NEW cs, Searching(num, low, S, td, cs),
         NEW k, NEW v, NEW td2, PopsTop(num, td, k, v, td2),
         NEW S2, Active(num, td2) \subseteq S2, S2 \subseteq S, k = 1 => S2 = {}
  PROVE  PathOnStack(num, S2, td2) /\ NothingOlder(num, S2, td2)
<1>0. k \in Nat /\ k # 0 /\ k \in 1..k /\ k = Len(td)
  BY DEF PopsTop
<1>1. DOMAIN td = 1..k
  BY <1>0, OnThePath, Zenon
<1>2. td2 \in Seq([node : Node, next : Nat]) /\ Len(td2) = k - 1
  BY Zenon DEF PopsTop
<1>3. DOMAIN td2 = 1..(k - 1)
  BY <1>0, <1>2, LenProperties, Zenon
<1>4. \A j \in 1..(k - 1) : td2[j] = td[j] /\ j \in 1..k /\ j # k
  BY <1>0 DEF PopsTop
<1>5. \A j \in 1..(k - 1) : num[td2[j].node] # 0
  BY <1>0, <1>1, <1>4, Zenon DEF Searching, PathOnStack
<1>6. \A i, j \in 1..(k - 1) : i < j => num[td2[i].node] < num[td2[j].node]
  BY <1>1, <1>4, <1>5, ZenonT(60) DEF Searching, PathOnStack
<1>7. \A j \in 1..(k - 1) : j # k - 1 =>
         td2[j].next \in DOMAIN adjacency[td2[j].node] /\ adjacency[td2[j].node][td2[j].next] = td2[j + 1].node
  <2>. SUFFICES ASSUME NEW j \in 1..(k - 1), j # k - 1
                PROVE  /\ td2[j].next \in DOMAIN adjacency[td2[j].node]
                       /\ adjacency[td2[j].node][td2[j].next] = td2[j + 1].node
    BY Zenon
  <2>1. j + 1 \in 1..(k - 1)
    BY <1>0
  <2>2. td[j].next \in DOMAIN adjacency[td[j].node] /\ adjacency[td[j].node][td[j].next] = td[j + 1].node
    BY <1>0, <1>1, <1>4, Zenon DEF Searching, PathOnStack
  <2>. QED  BY <1>4, <2>1, <2>2, Zenon
<1>8. PathOnStack(num, S2, td2)
  BY <1>2, <1>3, <1>5, <1>6, <1>7, Zenon DEF PathOnStack
<1>9. ASSUME NEW x \in S2 PROVE td2 # <<>> /\ num[td2[1].node] # 0 /\ num[td2[1].node] <= num[x]
  <2>1. k # 1
    BY <1>9, Zenon
  <2>2. num[td[1].node] # 0 /\ num[td[1].node] <= num[x]
    BY <1>9, Zenon DEF Searching, NothingOlder
  <2>3. td2 # <<>>
    BY <1>0, <1>2, <2>1, EmptySeq
  <2>4. td2[1] = td[1]
    BY <1>0, <1>4, <2>1
  <2>. QED  BY <2>2, <2>3, <2>4, Zenon
<1>. QED  BY <1>8, <1>9, Zenon DEF NothingOlder

\* The node below the top on the path learns the link of the top.
LearnsLink(low, td, k, v, low2) ==
    /\ low2 \in [Node -> Nat]
    /\ k # 1 => /\ low2[td[k - 1].node] \in {low[td[k - 1].node], low[v]}
                /\ low2[td[k - 1].node] <= low[td[k - 1].node] /\ low2[td[k - 1].node] <= low[v]
                /\ \A n \in Node : n # td[k - 1].node => low2[n] = low[n]

\* A node that reached an older one stays on the stack; the node below it on the path
\* learns its link.
LEMMA RetreatKeeps ==
  ASSUME GraphOK, NEW num, NEW low, NEW S, NEW td, NEW cs, Searching(num, low, S, td, cs),
         NEW k, NEW v, NEW td2, PopsTop(num, td, k, v, td2), low[v] < num[v],
         NEW low2, LearnsLink(low, td, k, v, low2)
  PROVE  Searching(num, low2, S, td2, cs)
<1>. DEFINE p == td[k - 1].node
<1>0. k \in Nat /\ k # 0 /\ k = Len(td) /\ v \in Node /\ v = td[k].node /\ num[v] # 0
  BY Zenon DEF PopsTop
<1>1. /\ \A n \in Node : num[n] \in Nat /\ low[n] \in Nat
      /\ S \subseteq Node /\ \A x \in S : num[x] # 0 /\ num[x] \in Nat
  BY OnThePath, Zenon
<1>2. /\ v \in S /\ Path(td) = Path(td2) \cup {v} /\ v \notin Path(td2)
      /\ Active(num, td2) = Active(num, td) \ {v}
      /\ \A b \in Active(num, td2) : b \in S /\ b \in Node /\ num[b] < num[v]
                                     /\ k # 1 /\ num[b] <= num[p]
      /\ k # 1 => p \in Active(num, td2)
  <2>1. PathBelow(num, S, td, k, v, td2)
    BY PopFacts, Zenon
  <2>. QED  BY <2>1, Zenon DEF PathBelow
<1>3. k # 1
  <2>. SUFFICES ASSUME k = 1 PROVE FALSE
    BY Zenon
  <2>1. PICK w \in S : num[w] = low[v]
    BY <1>2, Zenon DEF Searching, LinksReach
  <2>2. num[v] <= num[w]
    BY <1>0, Zenon DEF Searching, NothingOlder
  <2>. QED  BY <1>0, <1>1, <2>1, <2>2
<1>4. p \in Active(num, td2) /\ p \in S /\ p \in Node /\ num[p] < num[v] /\ p # v
      /\ p \in Path(td2)
  BY <1>0, <1>1, <1>2, <1>3, Zenon DEF Active
<1>5. low2[p] \in {low[p], low[v]} /\ low2[p] <= low[p] /\ low2[p] <= low[v]
      /\ \A n \in Node : n # p => low2[n] = low[n]
  BY <1>3, Zenon DEF LearnsLink
<1>6. \A x \in Node, i \in Nat : Behind(td2, x, i) /\ i \in DOMAIN adjacency[x] =>
              Behind(td, x, i) \/ (x = p /\ adjacency[x][i] = v)
  <2>1. PathBelow(num, S, td, k, v, td2)
    BY PopFacts, Zenon
  <2>. QED  BY <2>1, Zenon DEF PathBelow
<1>. HIDE DEF p
<1>7. \A n \in Node : low2[n] <= low[n] /\ low2[n] \in Nat
  BY <1>1, <1>4, <1>5 DEF LearnsLink
<1>8. v \in Active(num, td) /\ p \in Active(num, td)
  BY <1>0, <1>2, <1>4, Zenon DEF Active
<1>10. SearchTypes(num, low2, S, td2, cs)
  BY Zenon DEF Searching, SearchTypes, PopsTop, LearnsLink
<1>11. PathOnStack(num, S, td2) /\ NothingOlder(num, S, td2)
  <2>1. Active(num, td2) \subseteq S
    BY <1>2, Zenon
  <2>2. S \subseteq S /\ (k = 1 => S = {})
    BY <1>3, Zenon
  <2>. QED  BY <2>1, <2>2, PopPath, Zenon
<1>12. ScannedLowers(num, low2, S, td2)
  <2>. SUFFICES ASSUME NEW x \in Numbered(num), NEW i \in DOMAIN adjacency[x], Behind(td2, x, i)
                PROVE  /\ num[adjacency[x][i]] # 0
                       /\ x \in S /\ adjacency[x][i] \in S => low2[x] <= num[adjacency[x][i]]
    BY Zenon DEF ScannedLowers
  <2>0. x \in Node /\ i \in Nat /\ adjacency[x][i] \in Node
    BY GraphIs, Zenon DEF Numbered
  <2>1. CASE Behind(td, x, i)
    <3>1. /\ num[adjacency[x][i]] # 0
          /\ x \in S /\ adjacency[x][i] \in S => low[x] <= num[adjacency[x][i]]
      BY <2>1, Zenon DEF Searching, ScannedLowers
    <3>2. low2[x] <= low[x] /\ low2[x] \in Nat /\ low[x] \in Nat /\ num[adjacency[x][i]] \in Nat
      BY <1>1, <1>7, <2>0, Zenon
    <3>. QED  BY <3>1, <3>2
  <2>2. CASE x = p /\ adjacency[x][i] = v
    <3>1. low2[p] <= low[v] /\ low2[p] \in Nat /\ low[v] \in Nat /\ num[v] \in Nat
      BY <1>0, <1>1, <1>4, <1>5, <1>7, Zenon
    <3>. QED  BY <1>0, <2>2, <3>1
  <2>. QED  BY <1>6, <2>0, <2>1, <2>2, Zenon
<1>13. LinksReach(num, low2, S, td2)
  <2>. SUFFICES ASSUME NEW x \in S
                PROVE  /\ low2[x] <= num[x] /\ (x \notin Path(td2) => low2[x] < num[x])
                       /\ \E w \in S : num[w] = low2[x] /\ LeadsTo(x, w)
    BY Zenon DEF LinksReach
  <2>1. \A y \in S : /\ low[y] <= num[y] /\ (y \notin Path(td) => low[y] < num[y])
                     /\ \E w \in S : num[w] = low[y] /\ LeadsTo(y, w)
    BY Zenon DEF Searching, LinksReach
  <2>2. CASE x # p
    <3>1. low2[x] = low[x]
      BY <1>1, <1>5, <2>2, Zenon
    <3>2. x \notin Path(td2) => low[x] < num[x]
      BY <1>2, <2>1, Zenon
    <3>. QED  BY <2>1, <3>1, <3>2, Zenon
  <2>3. CASE x = p
    <3>1. low2[p] <= num[p]
      BY <1>1, <1>4, <1>7, <2>1
    <3>2. CASE low2[p] = low[p]
      BY <1>4, <2>1, <2>3, <3>1, <3>2, Zenon
    <3>3. CASE low2[p] = low[v]
      <4>1. PICK w \in S : num[w] = low[v] /\ LeadsTo(v, w)
        BY <1>2, <2>1, Zenon
      <4>2. LeadsTo(p, v)
        <5>1. num[p] <= num[v]
          BY <1>0, <1>1, <1>4
        <5>. QED  BY <1>2, <1>8, <5>1, Zenon DEF Searching, ActiveLead
      <4>3. LeadsTo(p, w)
        BY <1>0, <1>1, <1>4, <4>1, <4>2, LeadsOn, Zenon
      <4>. QED  BY <1>4, <2>3, <3>1, <3>3, <4>1, <4>3, Zenon
    <3>. QED  BY <1>5, <3>2, <3>3, Zenon
  <2>. QED  BY <2>2, <2>3, Zenon
<1>14. ActiveLead(num, low2, S, td2)
  <2>. SUFFICES ASSUME NEW a \in Active(num, td2), NEW x \in S
                PROVE  /\ num[a] <= num[x] => LeadsTo(a, x)
                       /\ x \notin Path(td2) /\ num[a] < num[x]
                            /\ (\A b \in Active(num, td2) : num[b] < num[x] => num[b] <= num[a])
                            => low2[a] <= low2[x]
    BY Zenon DEF ActiveLead
  <2>0. a \in Active(num, td) /\ a \in Node /\ x \in Node /\ a \in S
    BY <1>1, <1>2, Zenon
  <2>1. num[a] <= num[x] => LeadsTo(a, x)
    BY <2>0, Zenon DEF Searching, ActiveLead
  <2>2. ASSUME x \notin Path(td2), num[a] < num[x],
               \A b \in Active(num, td2) : num[b] < num[x] => num[b] <= num[a]
        PROVE  low2[a] <= low2[x]
    <3>1. x # p /\ low2[x] = low[x]
      BY <1>4, <1>5, <2>0, <2>2, Zenon
    <3>2. ASSUME num[v] <= num[x] PROVE a = p
      <4>1. num[p] < num[x]
        BY <1>0, <1>1, <1>4, <3>2
      <4>2. num[p] <= num[a] /\ num[a] <= num[p]
        BY <1>2, <1>4, <2>2, <4>1, Zenon
      <4>3. num[p] = num[a] /\ num[p] # 0
        BY <1>1, <1>4, <2>0, <4>2
      <4>. QED  BY <1>4, <2>0, <4>3, Zenon DEF Searching, NumbersTell
    <3>3. CASE x = v
      BY <1>0, <1>1, <1>5, <3>1, <3>2, <3>3
    <3>4. CASE x # v /\ num[v] < num[x]
      <4>1. x \notin Path(td)
        BY <1>2, <2>2, <3>4, Zenon
      <4>2. \A b \in Active(num, td) : num[b] <= num[v]
        BY <1>0, <1>1, <1>2
      <4>3. low[v] <= low[x]
        BY <1>8, <3>4, <4>1, <4>2, Zenon DEF Searching, ActiveLead
      <4>4. a = p
        BY <1>0, <1>1, <2>0, <3>2, <3>4
      <4>. QED  BY <1>0, <1>1, <1>4, <1>5, <1>7, <2>0, <3>1, <4>3, <4>4
    <3>5. CASE num[x] < num[v]
      <4>1. x \notin Path(td)
        BY <1>0, <1>1, <1>2, <2>2, <3>5
      <4>2. \A b \in Active(num, td) : num[b] < num[x] => num[b] <= num[a]
        BY <1>0, <1>1, <1>2, <2>0, <2>2, <3>5
      <4>3. low[a] <= low[x]
        BY <2>0, <2>2, <4>1, <4>2, Zenon DEF Searching, ActiveLead
      <4>. QED  BY <1>1, <1>7, <2>0, <3>1, <4>3
    <3>6. x = v \/ num[x] # num[v]
      BY <1>0, <2>0, Zenon DEF Searching, NumbersTell
    <3>. QED  BY <1>0, <1>1, <2>0, <3>3, <3>4, <3>5, <3>6
  <2>. QED  BY <2>1, <2>2, Zenon
<1>15. NumbersTell(num, S, cs) /\ GroupsFinal(cs)
  BY Zenon DEF Searching
<1>. QED  BY <1>10, <1>11, <1>12, <1>13, <1>14, <1>15, Zenon DEF Searching

\* Node v of the stack S takes with it the group c: itself and what is above it.
HeadsGroup(num, S, v, c) == c = {x \in S : num[v] <= num[x]}

\* A node that is its own link leads a component: with what is above it on the stack
\* it is whole, and nothing leads out but into the groups there are.
LEMMA GroupIs ==
  ASSUME GraphOK, NEW num, NEW low, NEW S, NEW td, NEW cs, Searching(num, low, S, td, cs),
         NEW k, NEW v, NEW td2, PopsTop(num, td, k, v, td2), low[v] = num[v],
         NEW c, HeadsGroup(num, S, v, c)
  PROVE  GroupsFinal(cs \cup {c})
<1>0. k \in Nat /\ k # 0 /\ k = Len(td) /\ v \in Node /\ v = td[k].node /\ num[v] # 0
  BY Zenon DEF PopsTop
<1>1. /\ \A n \in Node : num[n] \in Nat /\ low[n] \in Nat
      /\ S \subseteq Node /\ \A x \in S : num[x] # 0 /\ num[x] \in Nat /\ low[x] \in Nat
  BY OnThePath
<1>2. /\ v \in S /\ Path(td) = Path(td2) \cup {v} /\ v \notin Path(td2)
      /\ Active(num, td2) = Active(num, td) \ {v}
      /\ \A b \in Active(num, td2) : b \in S /\ b \in Node /\ num[b] < num[v]
  <2>1. PathBelow(num, S, td, k, v, td2)
    BY PopFacts, Zenon
  <2>. QED  BY <2>1, Zenon DEF PathBelow
<1>3. v \in Active(num, td) /\ \A b \in Active(num, td) : num[b] <= num[v]
  BY <1>0, <1>1, <1>2 DEF Active
<1>4. v \in c /\ c \subseteq S /\ c \subseteq Node /\ \A x \in c : num[v] <= num[x]
  BY <1>0, <1>1, <1>2 DEF HeadsGroup
<1>5. ASSUME NEW x \in c, x # v
      PROVE  x \notin Path(td) /\ num[v] < num[x] /\ num[v] <= low[x]
  <2>1. num[v] # num[x]
    BY <1>0, <1>4, <1>5, Zenon DEF Searching, NumbersTell
  <2>2. num[v] < num[x]
    BY <1>0, <1>1, <1>4, <2>1
  <2>3. x \notin Path(td)
    <3>. SUFFICES ASSUME x \in Path(td2) PROVE FALSE
      BY <1>2, <1>5, Zenon
    <3>1. x \in Active(num, td2)
      BY <1>1, <1>4, Zenon DEF Active
    <3>. QED  BY <1>0, <1>1, <1>2, <1>4, <2>2, <3>1
  <2>4. low[v] <= low[x]
    BY <1>3, <1>4, <2>2, <2>3, Zenon DEF Searching, ActiveLead
  <2>. QED  BY <2>2, <2>3, <2>4, Zenon
<1>6. \A x \in c : LeadsTo(v, x)
  BY <1>3, <1>4, Zenon DEF Searching, ActiveLead
<1>7. \A x \in c : LeadsTo(x, v)
  <2>. DEFINE T == {num[x] : x \in {y \in c : ~LeadsTo(y, v)}}
  <2>. SUFFICES ASSUME T # {} PROVE FALSE
    BY Zenon
  <2>1. T \in SUBSET Nat
    BY <1>1, <1>4, Zenon
  <2>2. PICK n \in T : \A m \in T : n <= m
    BY <2>1, FirstNumber, Zenon
  <2>3. PICK x \in c : ~LeadsTo(x, v) /\ n = num[x]
    BY <2>2, Zenon
  <2>4. \A y \in c : ~LeadsTo(y, v) => num[x] <= num[y]
    BY <2>2, <2>3, Zenon
  <2>. HIDE DEF T
  <2>5. x # v
    BY <1>0, <2>3, LeadsSelf, Zenon
  <2>6. num[v] <= low[x] /\ low[x] < num[x]
    BY <1>4, <1>5, <2>5, Zenon DEF Searching, LinksReach
  <2>7. PICK w \in S : num[w] = low[x] /\ LeadsTo(x, w)
    BY <1>4, Zenon DEF Searching, LinksReach
  <2>8. w \in c
    BY <2>6, <2>7, Zenon DEF HeadsGroup
  <2>9. LeadsTo(w, v)
    <3>1. ~(num[x] <= num[w])
      BY <1>1, <1>4, <2>6, <2>7
    <3>. QED  BY <2>4, <2>8, <3>1, Zenon
  <2>. QED  BY <1>0, <1>4, <2>3, <2>7, <2>8, <2>9, LeadsOn, Zenon
<1>8. \A x, y \in c : LeadsTo(x, y)
  BY <1>0, <1>4, <1>6, <1>7, LeadsOn, Zenon
<1>. DEFINE old == UNION cs
<1>9. Closed(old) /\ old \subseteq Node /\ S \cap old = {} /\ Numbered(num) = S \cup old
  BY Zenon DEF Searching, GroupsFinal, NumbersTell, SearchTypes
<1>10. Closed(old \cup c)
  <2>. SUFFICES ASSUME NEW x \in c, NEW i \in DOMAIN adjacency[x], adjacency[x][i] \notin old
                PROVE  adjacency[x][i] \in c
    BY <1>9, Zenon DEF Closed, Successors
  <2>1. x \in Node /\ x \in Numbered(num) /\ x \in S
    BY <1>4, <1>9, Zenon
  <2>2. i \in Nat /\ adjacency[x][i] \in Node
    BY <2>1, GraphIs, Zenon
  <2>3. Behind(td, x, i)
    <3>1. CASE x = v
      <4>1. DOMAIN td = 1..k /\ \A j \in 1..k : td[j].node = v => j = k
        <5>1. /\ DOMAIN td = 1..k
              /\ \A a, b \in 1..k : num[td[a].node] # 0 /\ td[a].node = td[b].node => a = b
          BY <1>0, OnThePath
        <5>. QED  BY <1>0, <5>1
      <4>2. i <= td[k].next
        BY <3>1, Zenon DEF PopsTop
      <4>. QED  BY <1>0, <3>1, <4>1, <4>2, Zenon DEF Behind
    <3>2. CASE x # v
      BY <1>5, <3>2, Zenon DEF Behind, Path
    <3>. QED  BY <3>1, <3>2, Zenon
  <2>4. num[adjacency[x][i]] # 0 /\ (adjacency[x][i] \in S => low[x] <= num[adjacency[x][i]])
    BY <2>1, <2>3, Zenon DEF Searching, ScannedLowers
  <2>5. adjacency[x][i] \in S
    BY <1>9, <2>2, <2>4, Zenon DEF Numbered
  <2>6. num[v] <= low[x]
    BY <1>0, <1>1, <1>5
  <2>7. num[v] <= num[adjacency[x][i]]
    BY <1>0, <1>1, <2>1, <2>2, <2>4, <2>5, <2>6
  <2>. QED  BY <2>5, <2>7, Zenon DEF HeadsGroup
<1>11. ASSUME NEW m \in c, NEW n \in Node PROVE (n \in c) <=> Together(m, n)
  <2>1. m \notin old /\ m \in Node
    BY <1>4, <1>9, Zenon
  <2>2. ASSUME n \in c PROVE Together(m, n)
    BY <1>8, <2>2, Zenon DEF Together
  <2>3. ASSUME n \in old PROVE ~LeadsTo(n, m)
    BY <1>9, <2>1, <2>3, Zenon DEF LeadsTo
  <2>4. ASSUME n \notin old, n \notin c PROVE ~LeadsTo(m, n)
    <3>1. old \cup c \in SUBSET Node /\ m \in old \cup c /\ n \notin old \cup c
      BY <1>4, <1>9, <2>4, Zenon
    <3>. QED  BY <1>10, <3>1, Zenon DEF LeadsTo
  <2>. QED  BY <2>2, <2>3, <2>4, Zenon DEF Together
<1>12. UNION (cs \cup {c}) = old \cup c
  BY Zenon
<1>. HIDE DEF old
<1>13. \A d \in cs : d # {} /\ \A m \in d, n \in Node : (n \in d) <=> Together(m, n)
  BY Zenon DEF Searching, GroupsFinal
<1>14. \A d \in cs \cup {c} : d # {} /\ \A m \in d, n \in Node : (n \in d) <=> Together(m, n)
  BY <1>4, <1>11, <1>13
<1>. QED  BY <1>10, <1>12, <1>14, Zenon DEF GroupsFinal

\* A node that is its own link takes its group off the stack.
LEMMA GroupKeeps ==
  ASSUME GraphOK, NEW num, NEW low, NEW S, NEW td, NEW cs, Searching(num, low, S, td, cs),
         NEW k, NEW v, NEW td2, PopsTop(num, td, k, v, td2), low[v] = num[v],
         NEW c, HeadsGroup(num, S, v, c), NEW low2, LearnsLink(low, td, k, v, low2),
         k = 1 => low2 = low
  PROVE  Searching(num, low2, S \ c, td2, cs \cup {c})
<1>. DEFINE S2 == S \ c
<1>0. k \in Nat /\ k # 0 /\ k = Len(td) /\ v \in Node /\ v = td[k].node /\ num[v] # 0
  BY Zenon DEF PopsTop
<1>1. /\ \A n \in Node : num[n] \in Nat /\ low[n] \in Nat
      /\ S \subseteq Node /\ \A x \in S : num[x] # 0 /\ num[x] \in Nat
  BY OnThePath
<1>2. PathBelow(num, S, td, k, v, td2)
  BY PopFacts, Zenon
<1>3. /\ v \in S /\ Path(td) = Path(td2) \cup {v} /\ v \notin Path(td2)
      /\ Active(num, td2) = Active(num, td) \ {v}
      /\ \A b \in Active(num, td2) : b \in S /\ b \in Node /\ num[b] < num[v]
  BY <1>2, Zenon DEF PathBelow
<1>4. /\ v \in c /\ c \subseteq S /\ S2 \subseteq S /\ v \notin S2
      /\ \A x \in S : x \in S2 <=> num[x] < num[v]
  BY <1>0, <1>1, <1>3 DEF HeadsGroup
<1>5. \A n \in Node : low2[n] = low[n] /\ low2[n] \in Nat
  <2>1. CASE k = 1
    BY <1>1, <2>1, Zenon
  <2>2. CASE k # 1
    <3>. DEFINE p == td[k - 1].node
    <3>1. p \in Active(num, td2)
      BY <1>2, <2>2, Zenon DEF PathBelow
    <3>2. p \in S /\ p \in Node /\ num[p] < num[v]
      BY <1>3, <3>1, Zenon
    <3>3. low2[p] \in {low[p], low[v]} /\ low2[p] <= low[p] /\ \A n \in Node : n # p => low2[n] = low[n]
      BY <2>2, Zenon DEF LearnsLink
    <3>. HIDE DEF p
    <3>4. low[p] <= num[p]
      BY <3>2, Zenon DEF Searching, LinksReach
    <3>5. low2[p] = low[p]
      BY <1>0, <1>1, <3>2, <3>3, <3>4
    <3>. QED  BY <1>1, <3>3, <3>5, Zenon
  <2>. QED  BY <2>1, <2>2, Zenon
<1>6. Active(num, td2) \subseteq S2
  BY <1>3, <1>4, Zenon
<1>7. SearchTypes(num, low2, S2, td2, cs \cup {c})
  <2>1. num \in [Node -> Nat] /\ cs \in SUBSET SUBSET Node
    BY Zenon DEF Searching, SearchTypes
  <2>2. S2 \in SUBSET Node /\ cs \cup {c} \in SUBSET SUBSET Node
    BY <1>1, <1>4, <2>1
  <2>. QED  BY <2>1, <2>2, Zenon DEF SearchTypes, PopsTop, LearnsLink
<1>8. PathOnStack(num, S2, td2) /\ NothingOlder(num, S2, td2)
  <2>1. k = 1 => S2 = {}
    <3>. SUFFICES ASSUME k = 1, NEW x \in S2 PROVE FALSE
      BY Zenon
    <3>1. num[v] <= num[x]
      BY <1>0, <1>4, Zenon DEF Searching, NothingOlder
    <3>. QED  BY <1>0, <1>1, <1>4, <3>1
  <2>. HIDE DEF S2
  <2>. QED  BY <1>4, <1>6, <2>1, PopPath, Zenon
<1>9. NumbersTell(num, S2, cs \cup {c})
  <2>1. /\ \A m, n \in Node : num[m] = num[n] /\ num[m] # 0 => m = n
        /\ \A n \in Node : num[n] <= Cardinality(Numbered(num))
        /\ S \cap UNION cs = {} /\ Numbered(num) = S \cup UNION cs
    BY Zenon DEF Searching, NumbersTell
  <2>2. UNION (cs \cup {c}) = c \cup UNION cs
    BY Zenon
  <2>3. S2 \cap UNION (cs \cup {c}) = {} /\ Numbered(num) = S2 \cup UNION (cs \cup {c})
    BY <1>4, <2>1, <2>2, Zenon
  <2>. QED  BY <2>1, <2>3, Zenon DEF NumbersTell
<1>. HIDE DEF S2
<1>10. ScannedLowers(num, low2, S2, td2)
  <2>. SUFFICES ASSUME NEW x \in Numbered(num), NEW i \in DOMAIN adjacency[x], Behind(td2, x, i)
                PROVE  /\ num[adjacency[x][i]] # 0
                       /\ x \in S2 /\ adjacency[x][i] \in S2 => low2[x] <= num[adjacency[x][i]]
    BY Zenon DEF ScannedLowers
  <2>0. x \in Node /\ i \in Nat /\ adjacency[x][i] \in Node
    BY GraphIs, Zenon DEF Numbered
  <2>1. CASE Behind(td, x, i)
    <3>1. /\ num[adjacency[x][i]] # 0
          /\ x \in S /\ adjacency[x][i] \in S => low[x] <= num[adjacency[x][i]]
      BY <2>1, Zenon DEF Searching, ScannedLowers
    <3>. QED  BY <1>4, <1>5, <2>0, <3>1, Zenon
  <2>2. CASE adjacency[x][i] = v
    BY <1>0, <1>3, <1>4, <2>2, Zenon
  <2>. QED  BY <1>2, <2>0, <2>1, <2>2, Zenon DEF PathBelow
<1>11. LinksReach(num, low2, S2, td2)
  <2>. SUFFICES ASSUME NEW x \in S2
                PROVE  /\ low2[x] <= num[x] /\ (x \notin Path(td2) => low2[x] < num[x])
                       /\ \E w \in S2 : num[w] = low2[x] /\ LeadsTo(x, w)
    BY Zenon DEF LinksReach
  <2>1. x \in S /\ x \in Node /\ x # v /\ num[x] < num[v] /\ low2[x] = low[x] /\ low[x] \in Nat
    BY <1>1, <1>3, <1>4, <1>5, Zenon
  <2>2. /\ low[x] <= num[x] /\ (x \notin Path(td) => low[x] < num[x])
        /\ \E w \in S : num[w] = low[x] /\ LeadsTo(x, w)
    BY <2>1, Zenon DEF Searching, LinksReach
  <2>3. x \notin Path(td2) => x \notin Path(td)
    BY <1>3, <2>1, Zenon
  <2>4. \A w \in S : num[w] = low[x] => w \in S2
    BY <1>0, <1>1, <1>4, <2>1, <2>2
  <2>. QED  BY <2>1, <2>2, <2>3, <2>4, Zenon
<1>12. ActiveLead(num, low2, S2, td2)
  <2>. SUFFICES ASSUME NEW a \in Active(num, td2), NEW x \in S2
                PROVE  /\ num[a] <= num[x] => LeadsTo(a, x)
                       /\ x \notin Path(td2) /\ num[a] < num[x]
                            /\ (\A b \in Active(num, td2) : num[b] < num[x] => num[b] <= num[a])
                            => low2[a] <= low2[x]
    BY Zenon DEF ActiveLead
  <2>0. a \in Active(num, td) /\ a \in Node /\ x \in Node /\ a \in S /\ x \in S /\ num[x] < num[v] /\ x # v
    BY <1>1, <1>3, <1>4, Zenon
  <2>1. num[a] <= num[x] => LeadsTo(a, x)
    BY <2>0, Zenon DEF Searching, ActiveLead
  <2>2. ASSUME x \notin Path(td2), num[a] < num[x],
               \A b \in Active(num, td2) : num[b] < num[x] => num[b] <= num[a]
        PROVE  low2[a] <= low2[x]
    <3>1. x \notin Path(td)
      BY <1>3, <2>0, <2>2, Zenon
    <3>2. \A b \in Active(num, td) : num[b] < num[x] => num[b] <= num[a]
      BY <1>0, <1>1, <1>3, <2>0, <2>2
    <3>3. low[a] <= low[x]
      BY <2>0, <2>2, <3>1, <3>2, Zenon DEF Searching, ActiveLead
    <3>. QED  BY <1>5, <2>0, <3>3, Zenon
  <2>. QED  BY <2>1, <2>2, Zenon
<1>13. GroupsFinal(cs \cup {c})
  BY GroupIs, Zenon
<1>. QED  BY <1>7, <1>8, <1>9, <1>10, <1>11, <1>12, <1>13, Zenon DEF Searching, S2

-----------------------------------------------------------------------------
(* The steps of the module.                                                *)

\* The links once the top of the work list has been entered.
LowNow == IF Top.next = 0 THEN [lowlink EXCEPT ![Top.node] = Entered[Top.node]] ELSE lowlink

\* The node on top of a work list that is not empty.
LEMMA TopIs ==
  ASSUME TarjanInv, todo # <<>>
  PROVE  /\ Len(todo) \in Nat \ {0} /\ todo \in Seq([node : Node, next : Nat])
         /\ Top.node \in Node /\ Top.next \in Nat /\ Top.node = todo[Len(todo)].node /\ Top.next = todo[Len(todo)].next
         /\ number \in [Node -> Nat] /\ lowlink \in [Node -> Nat] /\ stack \in Seq(Node)
<1>1. Searching(number, lowlink, Entries(stack), todo, components) /\ stack \in Seq(Node)
  BY Zenon DEF TarjanInv, Stacked
<1>2. todo \in Seq([node : Node, next : Nat]) /\ number \in [Node -> Nat] /\ lowlink \in [Node -> Nat]
  BY <1>1, Zenon DEF Searching, SearchTypes
<1>3. Len(todo) \in Nat \ {0}
  BY <1>2, EmptySeq, LenProperties, Zenon
<1>4. Top.node \in Node /\ Top.next \in Nat
  <2>1. Len(todo) \in 1..Len(todo)
    BY <1>3
  <2>. QED  BY <1>1, <2>1, OnThePath, Zenon DEF Top
<1>. QED  BY <1>1, <1>2, <1>3, <1>4, Zenon DEF Top

\* A node that goes on the stack is a member of it.
LEMMA EntriesAppend ==
  ASSUME NEW s \in Seq(Node), NEW x \in Node
  PROVE  Entries(Append(s, x)) = Entries(s) \cup {x}
<1>1. /\ Len(s) \in Nat /\ DOMAIN s = 1..Len(s) /\ DOMAIN Append(s, x) = 1..(Len(s) + 1)
      /\ Append(s, x)[Len(s) + 1] = x /\ \A i \in 1..Len(s) : Append(s, x)[i] = s[i]
  BY AppendProperties, LenProperties
<1>. QED  BY <1>1 DEF Entries

\* Entering the top of the work list keeps what the search relies on.
LEMMA TopEntered ==
  ASSUME TarjanInv, todo # <<>>
  PROVE  /\ Searching(Entered, LowNow, Entries(StackNow), todo, components)
         /\ Stacked(Entered, StackNow) /\ Entered[Top.node] # 0
<1>0. /\ GraphOK /\ Searching(number, lowlink, Entries(stack), todo, components) /\ Stacked(number, stack)
      /\ Top.next = 0 <=> number[Top.node] = 0
  BY Zenon DEF TarjanInv
<1>1. /\ Len(todo) \in Nat \ {0} /\ todo \in Seq([node : Node, next : Nat])
      /\ Top.node \in Node /\ Top.next \in Nat /\ Top.node = todo[Len(todo)].node
      /\ number \in [Node -> Nat] /\ lowlink \in [Node -> Nat] /\ stack \in Seq(Node)
  BY TopIs, Zenon
<1>2. CASE Top.next # 0
  <2>1. Entered = number /\ LowNow = lowlink /\ StackNow = stack
    BY <1>2, Zenon DEF Entered, LowNow, StackNow
  <2>. QED  BY <1>0, <1>2, <2>1, Zenon
<1>3. CASE Top.next = 0
  <2>. DEFINE v == Top.node
              card == Cardinality(Numbered(number))
  <2>1. card \in Nat
    BY CountNumbered, Zenon
  <2>2. Entered = [number EXCEPT ![v] = card + 1] /\ StackNow = Append(stack, v)
    BY <1>3, Zenon DEF Entered, StackNow, Numbered
  <2>3. LowNow = [lowlink EXCEPT ![v] = Entered[v]]
    BY <1>3, Zenon DEF LowNow
  <2>. HIDE DEF v, card
  <2>4. v \in Node /\ v = todo[Len(todo)].node /\ number[v] = 0
    BY <1>0, <1>1, <1>3, Zenon DEF v
  <2>5. /\ Entered \in [Node -> Nat] /\ Entered[v] = card + 1
        /\ \A n \in Node : n # v => Entered[n] = number[n]
    BY <1>1, <2>1, <2>2, <2>4, SMTT(60)
  <2>6. /\ LowNow \in [Node -> Nat] /\ LowNow[v] = card + 1
        /\ \A n \in Node : n # v => LowNow[n] = lowlink[n]
    BY <1>1, <2>1, <2>3, <2>4, <2>5, Zenon
  <2>7. card + 1 # 0
    BY <2>1
  <2>8. EntersTop(number, lowlink, todo, Len(todo), v, card, Entered, LowNow)
    BY <1>1, <2>4, <2>5, <2>6, Zenon DEF EntersTop, card
  <2>9. Searching(Entered, LowNow, Entries(stack) \cup {v}, todo, components)
    BY <1>0, <2>8, EnterKeeps, Zenon
  <2>10. Entries(StackNow) = Entries(stack) \cup {v}
    <3>1. stack \in Seq(Node) /\ v \in Node
      BY <1>1, <2>4, Zenon
    <3>2. Entries(Append(stack, v)) = Entries(stack) \cup {v}
      BY <3>1, EntriesAppend, Zenon
    <3>. QED  BY <2>2, <3>2, Zenon
  <2>11. Stacked(Entered, StackNow)
    <3>1. /\ Len(stack) \in Nat /\ DOMAIN stack = 1..Len(stack) /\ DOMAIN StackNow = 1..(Len(stack) + 1)
          /\ StackNow \in Seq(Node) /\ StackNow[Len(stack) + 1] = v
          /\ \A i \in 1..Len(stack) : StackNow[i] = stack[i]
      BY <1>1, <2>2, <2>4, AppendProperties, LenProperties
    <3>2. \A x \in Entries(stack) : x \in Node /\ x # v /\ number[x] \in Nat /\ number[x] < card + 1
      <4>1. \A x \in Entries(stack) : x \in Node /\ number[x] # 0 /\ number[x] \in Nat
        BY <1>0, OnThePath
      <4>2. \A x \in Node : number[x] <= card
        BY <1>0, Zenon DEF Searching, NumbersTell, card
      <4>. QED  BY <2>1, <2>4, <4>1, <4>2
    <3>3. \A i \in 1..Len(stack) : /\ Entered[StackNow[i]] = number[stack[i]]
                                   /\ Entered[StackNow[i]] < card + 1
      BY <2>5, <3>1, <3>2, Zenon DEF Entries
    <3>4. \A i, j \in 1..Len(stack) : i < j => number[stack[i]] < number[stack[j]]
      BY <1>0, <3>1, Zenon DEF Stacked
    <3>5. \A i, j \in DOMAIN StackNow : i < j => Entered[StackNow[i]] < Entered[StackNow[j]]
      BY <2>5, <3>1, <3>3, <3>4
    <3>. QED  BY <3>1, <3>5, Zenon DEF Stacked
  <2>. QED  BY <2>5, <2>7, <2>9, <2>10, <2>11, Zenon DEF v
<1>. QED  BY <1>2, <1>3, Zenon

\* The work list td with neighbour m the last one its last entry has dealt with.
NextIs(td, m, td2) == td2 = [td EXCEPT ![Len(td)].next = m]

\* The work list td once neighbours up to m of its top have been dealt with.
AfterScan(m, td) ==
    /\ m \in Nat /\ Top.next <= m
    /\ \A i \in DOMAIN adjacency[Top.node] : Top.next < i /\ i <= m => i \in Scanned
    /\ NextIs(todo, m, td)

\* The same nodes wait, with the same neighbours but for the last of them.
GoesOn(td, m, td2) ==
    /\ td2 \in Seq([node : Node, next : Nat]) /\ Len(td2) = Len(td) /\ td2[Len(td)].next = m
    /\ \A j \in 1..Len(td) : td2[j].node = td[j].node /\ (j # Len(td) => td2[j] = td[j])

\* A work list whose last entry goes on with another neighbour.
LEMMA NextSet ==
  ASSUME NEW td \in Seq([node : Node, next : Nat]), Len(td) # 0, NEW m \in Nat,
         NEW td2, NextIs(td, m, td2)
  PROVE  GoesOn(td, m, td2)
<1>. DEFINE k == Len(td)
            R == [node : Node, next : Nat]
<1>1. k \in Nat /\ DOMAIN td = 1..k /\ \A j \in 1..k : td[j] \in R
  BY LenProperties, ElementOfSeq, Zenon
<1>2. k \in 1..k
  BY <1>1
<1>0. td2 = [td EXCEPT ![k].next = m]
  BY Zenon DEF NextIs
<1>3. DOMAIN td2 = 1..k /\ td2[k] = [td[k] EXCEPT !.next = m] /\ \A j \in 1..k : j # k => td2[j] = td[j]
  BY <1>0, <1>1, <1>2, Zenon
<1>4. td[k] \in R
  BY <1>1, <1>2, Zenon
<1>5. td2[k].node = td[k].node /\ td2[k].next = m /\ td2[k] \in R
  BY <1>3, <1>4, Zenon
<1>6. \A j \in 1..k : td2[j] \in R
  BY <1>1, <1>3, <1>5, Zenon
<1>7. td2 \in [1..k -> R]
  BY <1>0, <1>1, <1>2, <1>3, <1>6, Zenon
<1>8. td2 \in Seq(R) /\ Len(td2) = k
  <2>. HIDE DEF R, k
  <2>. QED  BY <1>1, <1>7
<1>. QED  BY <1>3, <1>5, <1>8, Zenon DEF GoesOn

\* The neighbours before the first undiscovered one lower the link of the top.
LEMMA TopScanned ==
  ASSUME TarjanInv, todo # <<>>, NEW m, NEW td, AfterScan(m, td)
  PROVE  ScansTop(Entered, LowNow, Entries(StackNow), todo, Len(todo), Top.node, m, Lowered,
                  [lowlink EXCEPT ![Top.node] = Lowered], td)
<1>. DEFINE v == Top.node
            S == Entries(StackNow)
            base == IF Top.next = 0 THEN Entered[v] ELSE lowlink[v]
            met == {Entered[w] : w \in {adjacency[v][i] : i \in Scanned} \cap S}
<1>0. GraphOK /\ Searching(Entered, LowNow, S, todo, components) /\ Entered[v] # 0
  BY TopEntered, Zenon DEF TarjanInv
<1>1. /\ Len(todo) \in Nat \ {0} /\ todo \in Seq([node : Node, next : Nat])
      /\ v \in Node /\ Top.next \in Nat /\ v = todo[Len(todo)].node /\ Top.next = todo[Len(todo)].next
      /\ lowlink \in [Node -> Nat]
  BY TopIs, Zenon
<1>2. /\ \A n \in Node : Entered[n] \in Nat /\ LowNow[n] \in Nat
      /\ \A x \in S : x \in Node
  BY <1>0, OnThePath, Zenon
<1>3. base = LowNow[v] /\ \A n \in Node : n # v => LowNow[n] = lowlink[n]
  BY <1>1, Zenon DEF LowNow
<1>4. Lowered = Least({base} \cup met)
  BY Zenon DEF Lowered
<1>5. \A i \in DOMAIN adjacency[v] : i \in Nat /\ i # 0 /\ adjacency[v][i] \in Node
  BY <1>0, <1>1, GraphIs, Zenon
<1>6. Len(adjacency[v]) \in Nat /\ DOMAIN adjacency[v] = 1..Len(adjacency[v])
  BY <1>0, <1>1, GraphIs, Zenon
<1>. HIDE DEF base, S, v
<1>7. ASSUME NEW i \in Scanned PROVE i \in DOMAIN adjacency[v] /\ Entered[adjacency[v][i]] # 0
  <2>1. Unseen = {h \in Top.next + 1..Len(adjacency[v]) : Entered[adjacency[v][h]] = 0}
    BY Zenon DEF Unseen, v
  <2>2. Unseen \in SUBSET Nat
    BY <1>1, <1>6, <2>1
  <2>3. i \in Top.next + 1..Len(adjacency[v]) /\ i \notin Unseen
    <3>1. CASE Unseen = {}
      BY <3>1, Zenon DEF Scanned, v
    <3>2. CASE Unseen # {}
      <4>1. Least(Unseen) \in Unseen /\ Least(Unseen) \in Nat /\ \A y \in Unseen : Least(Unseen) <= y
        BY <2>2, <3>2, LeastIs, Zenon
      <4>2. i \in Top.next + 1..(Least(Unseen) - 1)
        BY <3>2, Zenon DEF Scanned
      <4>3. Least(Unseen) \in Top.next + 1..Len(adjacency[v])
        BY <2>1, <4>1, Zenon
      <4>4. ~(Least(Unseen) <= i) /\ i \in Top.next + 1..Len(adjacency[v])
        BY <1>1, <1>6, <4>1, <4>2, <4>3, SMTT(60)
      <4>. QED  BY <4>1, <4>4, Zenon
    <3>. QED  BY <3>1, <3>2, Zenon
  <2>4. Entered[adjacency[v][i]] # 0
    BY <2>1, <2>3, Zenon
  <2>5. i \in 1..Len(adjacency[v])
    BY <1>1, <1>6, <2>3
  <2>. QED  BY <1>6, <2>4, <2>5, Zenon
<1>8. {base} \cup met \in SUBSET Nat /\ {base} \cup met # {}
  BY <1>1, <1>2, <1>3, ZenonT(60)
<1>9. Lowered \in {base} \cup met /\ Lowered \in Nat /\ \A y \in {base} \cup met : Lowered <= y
  BY <1>4, <1>8, LeastIs, Zenon
<1>10. \A i \in Scanned : adjacency[v][i] \in S => Lowered <= Entered[adjacency[v][i]]
  BY <1>9, Zenon
<1>11. Lowered = LowNow[v] \/ \E i \in DOMAIN adjacency[v] : adjacency[v][i] \in S /\ Entered[adjacency[v][i]] = Lowered
  BY <1>3, <1>7, <1>9
<1>12. Lowered <= LowNow[v]
  BY <1>3, <1>9, Zenon
<1>. HIDE DEF met
<1>13. /\ [lowlink EXCEPT ![v] = Lowered] \in [Node -> Nat]
       /\ [lowlink EXCEPT ![v] = Lowered][v] = Lowered
       /\ \A n \in Node : n # v => [lowlink EXCEPT ![v] = Lowered][n] = LowNow[n]
  BY <1>1, <1>3, <1>9, Zenon
<1>14. m \in Nat /\ Top.next <= m /\ \A i \in DOMAIN adjacency[v] : Top.next < i /\ i <= m => i \in Scanned
  BY Zenon DEF AfterScan, v
<1>15. /\ td \in Seq([node : Node, next : Nat]) /\ Len(td) = Len(todo) /\ td[Len(todo)].next = m
       /\ \A j \in 1..Len(todo) : td[j].node = todo[j].node /\ (j # Len(todo) => td[j].next = todo[j].next)
  <2>1. NextIs(todo, m, td)
    BY Zenon DEF AfterScan
  <2>2. todo \in Seq([node : Node, next : Nat]) /\ Len(todo) # 0 /\ m \in Nat
    BY <1>1, <1>14, Zenon
  <2>3. GoesOn(todo, m, td)
    BY <2>1, <2>2, NextSet, Zenon
  <2>. QED  BY <2>3, Zenon DEF GoesOn
<1>16. /\ \A i \in DOMAIN adjacency[v] : todo[Len(todo)].next < i /\ i <= m =>
            /\ Entered[adjacency[v][i]] # 0
            /\ adjacency[v][i] \in S => Lowered <= Entered[adjacency[v][i]]
       /\ todo[Len(todo)].next <= m
  BY <1>1, <1>7, <1>10, <1>14, Zenon
<1>17. ScansTop(Entered, LowNow, S, todo, Len(todo), v, m, Lowered, [lowlink EXCEPT ![v] = Lowered], td)
  BY <1>0, <1>1, <1>9, <1>11, <1>12, <1>13, <1>14, <1>15, <1>16, Zenon DEF ScansTop
<1>. QED  BY <1>17, Zenon DEF v, S

\* A work list without its last entry.
BelowTop(td, td2) ==
    /\ td2 \in Seq([node : Node, next : Nat]) /\ Len(td2) = Len(td) - 1
    /\ \A j \in 1..(Len(td) - 1) : td2[j] = td[j]

\* SubSeq takes the last entry off.
LEMMA LastOff ==
  ASSUME NEW td \in Seq([node : Node, next : Nat]), Len(td) # 0
  PROVE  BelowTop(td, SubSeq(td, 1, Len(td) - 1))
<1>1. Len(td) \in Nat /\ \A j \in 1..Len(td) : td[j] \in [node : Node, next : Nat]
  BY LenProperties, ElementOfSeq, Zenon
<1>2. Len(td) - 1 \in 0..Len(td) /\ \A j \in 1..(Len(td) - 1) : j \in 1..Len(td) /\ 1 + j - 1 = j
  BY <1>1
<1>3. \A j \in 1..(Len(td) - 1) : td[j] \in [node : Node, next : Nat]
  BY <1>1, <1>2, Zenon
<1>. DEFINE R == [node : Node, next : Nat]
            n == Len(td) - 1
<1>4. n \in Nat /\ 1 \in 1..(Len(td) + 1) /\ n \in 0..Len(td)
  BY <1>1
<1>5. \A j \in 1..n : td[j] \in R
  BY <1>3, Zenon
<1>. HIDE DEF R, n
<1>6. n \in Int /\ 1 \in Int /\ (1 <= n => n - 1 + 1 = n) /\ (~(1 <= n) => n = 0)
  BY <1>4
<1>7. /\ SubSeq(td, 1, n) \in Seq(R) /\ Len(SubSeq(td, 1, n)) = IF 1 <= n THEN n - 1 + 1 ELSE 0
      /\ \A j \in 1..n - 1 + 1 : SubSeq(td, 1, n)[j] = td[1 + j - 1]
  BY <1>5, <1>6, SubSeqProperties
<1>8. Len(SubSeq(td, 1, n)) = n /\ \A j \in 1..n : SubSeq(td, 1, n)[j] = td[j]
  BY <1>4, <1>7
<1>. QED  BY <1>7, <1>8, Zenon DEF BelowTop, n, R

\* The nodes of s from position at on.
FromOn(s, at, c) == c = {s[i] : i \in at..Len(s)}

\* What is on the stack from a node on is what has no lower number.
LEMMA StackSplit ==
  ASSUME NEW num, NEW s, Stacked(num, s), \A x \in Node : num[x] \in Nat,
         NEW at \in DOMAIN s, NEW v, s[at] = v, NEW c, FromOn(s, at, c)
  PROVE  /\ HeadsGroup(num, Entries(s), v, c)
         /\ Entries(SubSeq(s, 1, at - 1)) = Entries(s) \ c
         /\ Stacked(num, SubSeq(s, 1, at - 1))
<1>1. /\ s \in Seq(Node) /\ Len(s) \in Nat /\ DOMAIN s = 1..Len(s)
      /\ \A i, j \in 1..Len(s) : i < j => num[s[i]] < num[s[j]]
  BY LenProperties, Zenon DEF Stacked
<1>2. \A i \in 1..Len(s) : s[i] \in Node /\ num[s[i]] \in Nat
  BY <1>1, ElementOfSeq, Zenon
<1>3. at \in 1..Len(s) /\ at \in Nat /\ at # 0 /\ at <= Len(s)
  BY <1>1
<1>. DEFINE t == SubSeq(s, 1, at - 1)
<1>4. /\ t \in Seq(Node) /\ Len(t) = at - 1 /\ DOMAIN t = 1..(at - 1)
      /\ \A i \in 1..(at - 1) : t[i] = s[i]
  BY <1>1, <1>2, <1>3, SubSeqProperties
<1>. HIDE DEF t
<1>5. \A i \in 1..Len(s) : /\ num[v] <= num[s[i]] <=> i \in at..Len(s)
                           /\ i \notin at..Len(s) <=> i \in 1..(at - 1)
  <2>. SUFFICES ASSUME NEW i \in 1..Len(s)
                PROVE  /\ num[v] <= num[s[i]] <=> i \in at..Len(s)
                       /\ i \notin at..Len(s) <=> i \in 1..(at - 1)
    BY Zenon
  <2>1. num[s[i]] \in Nat /\ num[v] \in Nat
    BY <1>2, <1>3, Zenon
  <2>2. (i < at => num[s[i]] < num[v]) /\ (at < i => num[v] < num[s[i]]) /\ (i = at => num[s[i]] = num[v])
    BY <1>1, <1>3, Zenon
  <2>. QED  BY <1>1, <1>3, <2>1, <2>2
<1>6. at..Len(s) \subseteq 1..Len(s) /\ 1..(at - 1) \subseteq 1..Len(s)
  BY <1>1, <1>3
<1>7. HeadsGroup(num, Entries(s), v, c)
  BY <1>1, <1>5, <1>6, Zenon DEF HeadsGroup, Entries, FromOn
<1>8. Entries(t) = Entries(s) \ c
  <2>1. \A i, j \in 1..Len(s) : s[i] = s[j] => i = j
    BY <1>1, <1>2
  <2>2. Entries(t) = {s[i] : i \in 1..(at - 1)}
    BY <1>4, Zenon DEF Entries
  <2>3. \A x \in Entries(s) : x \in Entries(t) <=> x \notin c
    BY <1>1, <1>5, <1>6, <2>1, <2>2, Zenon DEF Entries, FromOn
  <2>4. Entries(t) \subseteq Entries(s)
    BY <1>1, <1>6, <2>2, Zenon DEF Entries
  <2>. QED  BY <2>3, <2>4, Zenon
<1>9. Stacked(num, t)
  BY <1>1, <1>4, <1>6 DEF Stacked
<1>. QED  BY <1>7, <1>8, <1>9, Zenon DEF t

\* The graph stays as it is, and so does what leads where.
LEMMA SearchedNext ==
  ASSUME UNCHANGED adjacency, Searching(number', lowlink', Entries(stack'), todo', components')
  PROVE  Searching(number, lowlink, Entries(stack), todo, components)'
<1>1. SearchTypes(number, lowlink, Entries(stack), todo, components)'
  BY Zenon DEF Searching, SearchTypes, Entries
<1>2. NumbersTell(number, Entries(stack), components)'
  BY Zenon DEF Searching, NumbersTell, Numbered, Entries
<1>3. PathOnStack(number, Entries(stack), todo)' /\ NothingOlder(number, Entries(stack), todo)'
  BY Zenon DEF Searching, PathOnStack, NothingOlder, Active, Path, Entries
<1>4. ScannedLowers(number, lowlink, Entries(stack), todo)'
  BY Zenon DEF Searching, ScannedLowers, Numbered, Behind, Entries
<1>0. \A C : Closed(C)' <=> Closed(C)
  BY Zenon DEF Closed, Successors
<1>5. \A m, n : LeadsTo(m, n)' <=> LeadsTo(m, n)
  BY <1>0, Zenon DEF LeadsTo
<1>6. LinksReach(number, lowlink, Entries(stack), todo)'
  BY <1>5, Zenon DEF Searching, LinksReach, Path, Entries
<1>7. ActiveLead(number, lowlink, Entries(stack), todo)'
  BY <1>5, Zenon DEF Searching, ActiveLead, Active, Path, Entries
<1>8. GroupsFinal(components)'
  <2>1. GroupsFinal(components')
    BY Zenon DEF Searching
  <2>. QED  BY <1>0, <1>5, <2>1, Zenon DEF GroupsFinal, Together
<1>. QED  BY <1>1, <1>2, <1>3, <1>4, <1>6, <1>7, <1>8, Zenon DEF Searching

\* A search starts with nothing on the stack.
LEMMA StartKeeps == TarjanInv /\ Start => TarjanInv'
<1>. SUFFICES ASSUME TarjanInv, Start PROVE TarjanInv'
  BY Zenon
<1>. DEFINE u == Least({n \in Node : number[n] = 0})
<1>0. /\ GraphOK /\ Searching(number, lowlink, Entries(stack), todo, components) /\ Stacked(number, stack)
  BY Zenon DEF TarjanInv
<1>1. /\ todo = <<>> /\ todo' = << [node |-> u, next |-> 0] >>
      /\ adjacency' = adjacency /\ number' = number /\ lowlink' = lowlink /\ stack' = stack /\ components' = components
  BY Zenon DEF Start
<1>2. u \in Node /\ number[u] = 0
  <2>. DEFINE U == {n \in Node : number[n] = 0}
  <2>1. U # {} /\ U \in SUBSET Nat
    BY DEF Start, Node
  <2>2. u \in U
    BY <2>1, LeastIs, Zenon
  <2>. QED  BY <2>2, Zenon
<1>. HIDE DEF u
<1>3. Entries(stack) = {}
  BY <1>0, <1>1, Zenon DEF Searching, NothingOlder
<1>4. /\ todo' \in Seq([node : Node, next : Nat]) /\ Len(todo') = 1 /\ DOMAIN todo' = {1}
      /\ todo'[1].node = u /\ todo'[1].next = 0
  BY <1>1, <1>2
<1>5. Active(number, todo') = {}
  BY <1>2, <1>4, Zenon DEF Active, Path
<1>6. SearchTypes(number, lowlink, {}, todo', components)
  BY <1>0, <1>3, <1>4, Zenon DEF Searching, SearchTypes
<1>7. NumbersTell(number, {}, components) /\ GroupsFinal(components)
  BY <1>0, <1>3, Zenon DEF Searching
<1>8. PathOnStack(number, {}, todo')
  BY <1>2, <1>4, <1>5, Zenon DEF PathOnStack
<1>9. NothingOlder(number, {}, todo') /\ LinksReach(number, lowlink, {}, todo')
  BY Zenon DEF NothingOlder, LinksReach
<1>10. ActiveLead(number, lowlink, {}, todo')
  BY Zenon DEF ActiveLead
<1>11. ScannedLowers(number, lowlink, {}, todo')
  <2>1. \A x, i : Behind(todo, x, i)
    BY <1>1 DEF Behind
  <2>2. \A x \in Numbered(number) : \A i \in DOMAIN adjacency[x] : number[adjacency[x][i]] # 0
    BY <1>0, <2>1, Zenon DEF Searching, ScannedLowers
  <2>. QED  BY <2>2, Zenon DEF ScannedLowers
<1>12. Searching(number, lowlink, {}, todo', components)
  BY <1>6, <1>7, <1>8, <1>9, <1>10, <1>11, Zenon DEF Searching
<1>13. GraphOK' /\ Stacked(number, stack)' /\ (Top' = todo'[1])
  BY <1>0, <1>1, <1>4, Zenon DEF GraphOK, Stacked, Top
<1>14. Searching(number, lowlink, Entries(stack), todo, components)'
  <2>1. Entries(stack') = {}
    BY <1>1, <1>3, Zenon
  <2>2. Searching(number', lowlink', Entries(stack'), todo', components')
    BY <1>1, <1>12, <2>1, Zenon
  <2>. QED  BY <1>1, <2>2, SearchedNext, Zenon
<1>. QED  BY <1>1, <1>2, <1>4, <1>13, <1>14, Zenon DEF TarjanInv

\* An undiscovered neighbour goes on top of the work list.
LEMMA DescendKeeps == TarjanInv /\ Descend => TarjanInv'
<1>. SUFFICES ASSUME TarjanInv, Descend PROVE TarjanInv'
  BY Zenon
<1>. DEFINE k == Len(todo)
            v == Top.node
            h == Least(Unseen)
            u == adjacency[v][h]
            low == [lowlink EXCEPT ![v] = Lowered]
            S == Entries(StackNow)
            td1 == [todo EXCEPT ![k].next = h - 1]
            td3 == [todo EXCEPT ![k].next = h]
<1>0. /\ todo # <<>> /\ Unseen # {} /\ todo' = Append(td3, [node |-> u, next |-> 0])
      /\ number' = Entered /\ stack' = StackNow /\ lowlink' = low
      /\ adjacency' = adjacency /\ components' = components
  BY Zenon DEF Descend
<1>1. GraphOK /\ Searching(Entered, LowNow, S, todo, components) /\ Stacked(Entered, StackNow) /\ Entered[v] # 0
  BY <1>0, TopEntered, Zenon DEF TarjanInv
<1>2. /\ k \in Nat \ {0} /\ todo \in Seq([node : Node, next : Nat]) /\ v \in Node /\ v = todo[k].node
      /\ Top.next \in Nat /\ Top.next = todo[k].next
  BY <1>0, TopIs, Zenon
<1>3. Len(adjacency[v]) \in Nat /\ DOMAIN adjacency[v] = 1..Len(adjacency[v])
  BY <1>1, <1>2, GraphIs, Zenon
<1>. HIDE DEF k, v, h, u, low, S, td1, td3
<1>4. /\ h \in Nat /\ Top.next + 1 <= h /\ h \in 1..Len(adjacency[v]) /\ Entered[u] = 0
      /\ Scanned = Top.next + 1..(h - 1)
  <2>1. Unseen = {i \in Top.next + 1..Len(adjacency[v]) : Entered[adjacency[v][i]] = 0}
    BY Zenon DEF Unseen, v
  <2>2. Unseen \in SUBSET Nat
    BY <1>2, <1>3, <2>1
  <2>3. h \in Unseen /\ h \in Nat
    BY <1>0, <2>2, LeastIs, Zenon DEF h
  <2>4. h \in Top.next + 1..Len(adjacency[v]) /\ Entered[u] = 0
    BY <2>1, <2>3, Zenon DEF u
  <2>5. Scanned = Top.next + 1..(h - 1)
    BY <1>0, Zenon DEF Scanned, h
  <2>. QED  BY <1>2, <1>3, <2>3, <2>4, <2>5
<1>5. AfterScan(h - 1, td1)
  <2>1. h - 1 \in Nat /\ Top.next <= h - 1
    BY <1>2, <1>4
  <2>2. \A i \in DOMAIN adjacency[v] : Top.next < i /\ i <= h - 1 => i \in Scanned
    BY <1>2, <1>3, <1>4
  <2>. QED  BY <2>1, <2>2, Zenon DEF AfterScan, NextIs, td1, v, k
<1>6. Searching(Entered, low, S, td1, components)
  <2>1. ScansTop(Entered, LowNow, S, todo, k, v, h - 1, Lowered, low, td1)
    BY <1>0, <1>5, TopScanned, Zenon DEF k, v, S, low
  <2>. QED  BY <1>1, <2>1, ScanKeeps, Zenon
<1>7. GoesOn(todo, h - 1, td1) /\ GoesOn(todo, h, td3)
  <2>1. NextIs(todo, h - 1, td1) /\ NextIs(todo, h, td3)
    BY Zenon DEF NextIs, td1, td3, k
  <2>2. todo \in Seq([node : Node, next : Nat]) /\ Len(todo) # 0 /\ h - 1 \in Nat /\ h \in Nat
    BY <1>2, <1>4 DEF k
  <2>3. GoesOn(todo, h - 1, td1)
    BY <2>1, <2>2, NextSet, Zenon
  <2>4. GoesOn(todo, h, td3)
    BY <2>1, <2>2, NextSet, Zenon
  <2>. QED  BY <2>3, <2>4, Zenon
<1>8. /\ Len(td1) = k /\ td1[k].next = h - 1 /\ td1[k].node = v
      /\ td3 \in Seq([node : Node, next : Nat]) /\ Len(td3) = k /\ td3[k].next = h
      /\ \A j \in 1..k : td3[j].node = td1[j].node /\ (j # k => td3[j].next = td1[j].next)
  BY <1>2, <1>7, SMTT(60) DEF GoesOn, k
<1>9. u \in Node
  BY <1>1, <1>2, <1>3, <1>4, GraphIs, Zenon DEF u
<1>10. /\ todo' \in Seq([node : Node, next : Nat]) /\ Len(todo') = k + 1
       /\ todo'[k + 1] = [node |-> u, next |-> 0] /\ \A j \in 1..k : todo'[j] = td3[j]
  <2>1. [node |-> u, next |-> 0] \in [node : Node, next : Nat]
    BY <1>9, Zenon
  <2>. QED  BY <1>0, <1>8, <2>1, AppendProperties
<1>11. PushesTop(Entered, td1, k, v, u, todo')
  <2>1. td1[k].next + 1 = h /\ k \in 1..k
    BY <1>2, <1>4, <1>8
  <2>2. /\ \A j \in 1..k : todo'[j].node = td1[j].node /\ (j # k => todo'[j].next = td1[j].next)
        /\ todo'[k].next = td1[k].next + 1
    BY <1>8, <1>10, <2>1, Zenon
  <2>3. todo'[k + 1].node = u /\ todo'[k + 1].next = 0
    BY <1>10
  <2>. QED  BY <1>1, <1>2, <1>3, <1>4, <1>8, <1>10, <2>1, <2>2, <2>3, Zenon DEF PushesTop, u
<1>12. Searching(Entered, low, S, todo', components)
  BY <1>1, <1>6, <1>11, PushKeeps, Zenon
<1>13. Searching(number, lowlink, Entries(stack), todo, components)'
  <2>1. Searching(number', lowlink', Entries(stack'), todo', components')
    BY <1>0, <1>12, Zenon DEF S
  <2>. QED  BY <1>0, <2>1, SearchedNext, Zenon
<1>14. GraphOK' /\ Stacked(number, stack)'
  BY <1>0, <1>1, Zenon DEF GraphOK, Stacked
<1>15. Top.next' = 0 /\ number'[Top.node'] = 0
  BY <1>0, <1>4, <1>10 DEF Top
<1>. QED  BY <1>13, <1>14, <1>15, Zenon DEF TarjanInv

\* A node whose neighbours are done leaves the work list, alone or with its group.
LEMMA RetreatInv == TarjanInv /\ Retreat => TarjanInv'
<1>. SUFFICES ASSUME TarjanInv, Retreat PROVE TarjanInv'
  BY Zenon
<1>. DEFINE k == Len(todo)
            v == Top.node
            below == SubSeq(todo, 1, k - 1)
            p == below[Len(below)].node
            at == CHOOSE i \in DOMAIN StackNow : StackNow[i] = v
            own == [lowlink EXCEPT ![v] = Lowered]
            S == Entries(StackNow)
            c == {StackNow[i] : i \in at..Len(StackNow)}
            len == Len(adjacency[v])
            m == IF Top.next <= len THEN len ELSE Top.next
            td1 == [todo EXCEPT ![k].next = m]
<1>0. /\ todo # <<>> /\ Unseen = {} /\ todo' = below /\ number' = Entered /\ adjacency' = adjacency
      /\ lowlink' = IF below = <<>> THEN own ELSE [own EXCEPT ![p] = Least({own[p], own[v]})]
      /\ Lowered = Entered[v] => components' = components \cup {c} /\ stack' = SubSeq(StackNow, 1, at - 1)
      /\ Lowered # Entered[v] => components' = components /\ stack' = StackNow
  BY Zenon DEF Retreat
<1>1. GraphOK /\ Searching(Entered, LowNow, S, todo, components) /\ Stacked(Entered, StackNow) /\ Entered[v] # 0
  BY <1>0, TopEntered, Zenon DEF TarjanInv
<1>2. /\ k \in Nat \ {0} /\ todo \in Seq([node : Node, next : Nat]) /\ v \in Node /\ v = todo[k].node
      /\ Top.next \in Nat /\ Top.next = todo[k].next /\ lowlink \in [Node -> Nat]
  BY <1>0, TopIs, Zenon
<1>3. len \in Nat /\ DOMAIN adjacency[v] = 1..len
  BY <1>1, <1>2, GraphIs, Zenon
<1>4. m \in Nat /\ Top.next <= m /\ len <= m
  BY <1>2, <1>3
<1>5. Scanned = Top.next + 1..len
  BY <1>0, Zenon DEF Scanned
<1>. HIDE DEF k, v, below, p, at, own, S, c, len, m, td1
<1>6. AfterScan(m, td1)
  <2>1. \A i \in DOMAIN adjacency[v] : Top.next < i /\ i <= m => i \in Scanned
    BY <1>2, <1>3, <1>5
  <2>. QED  BY <1>4, <2>1, Zenon DEF AfterScan, NextIs, td1, v, k
<1>7. ScansTop(Entered, LowNow, S, todo, k, v, m, Lowered, own, td1)
  BY <1>0, <1>6, TopScanned, Zenon DEF k, v, S, own
<1>8. Searching(Entered, own, S, td1, components)
  BY <1>1, <1>7, ScanKeeps, Zenon
<1>9. own[v] = Lowered /\ own \in [Node -> Nat]
  BY <1>7, Zenon DEF ScansTop
<1>10. /\ Len(td1) = k /\ td1[k].next = m /\ td1[k].node = v
       /\ \A j \in 1..k : j # k => td1[j] = todo[j]
  <2>1. NextIs(todo, m, td1)
    BY Zenon DEF NextIs, td1, k
  <2>2. todo \in Seq([node : Node, next : Nat]) /\ Len(todo) # 0
    BY <1>2, Zenon DEF k
  <2>3. GoesOn(todo, m, td1)
    BY <1>4, <2>1, <2>2, NextSet, Zenon
  <2>. QED  BY <1>2, <2>3, SMTT(60) DEF GoesOn, k
<1>11. /\ below \in Seq([node : Node, next : Nat]) /\ Len(below) = k - 1
       /\ \A j \in 1..(k - 1) : below[j] = td1[j]
  <2>1. todo \in Seq([node : Node, next : Nat]) /\ Len(todo) # 0
    BY <1>2, Zenon DEF k
  <2>2. BelowTop(todo, below)
    BY <2>1, LastOff, Zenon DEF below, k
  <2>3. /\ below \in Seq([node : Node, next : Nat]) /\ Len(below) = k - 1
        /\ \A j \in 1..(k - 1) : below[j] = todo[j]
    BY <2>2, Zenon DEF BelowTop, k
  <2>4. \A j \in 1..(k - 1) : j \in 1..k /\ j # k
    BY <1>2
  <2>. QED  BY <1>10, <2>3, <2>4, Zenon
<1>12. PopsTop(Entered, td1, k, v, below)
  <2>1. \A i \in DOMAIN adjacency[v] : i <= td1[k].next
    BY <1>3, <1>4, <1>10
  <2>. QED  BY <1>1, <1>2, <1>10, <1>11, <2>1, Zenon DEF PopsTop
<1>13. PathBelow(Entered, S, td1, k, v, below)
  BY <1>1, <1>8, <1>12, PopFacts, Zenon
<1>14. below = <<>> <=> k = 1
  BY <1>2, <1>11, EmptySeq
<1>15. k # 1 => p = td1[k - 1].node /\ p \in Node /\ Entered[p] # 0
  <2>. SUFFICES ASSUME k # 1 PROVE p = td1[k - 1].node /\ p \in Node /\ Entered[p] # 0
    BY Zenon
  <2>1. p = td1[k - 1].node
    BY <1>2, <1>11, SMTT(60) DEF p
  <2>2. td1[k - 1].node \in Active(Entered, below) /\ td1[k - 1].node \in Node
    BY <1>13, Zenon DEF PathBelow
  <2>. QED  BY <2>1, <2>2, Zenon DEF Active
<1>16. LearnsLink(own, td1, k, v, lowlink') /\ (k = 1 => lowlink' = own)
  <2>1. CASE k = 1
    BY <1>0, <1>9, <1>14, <2>1, Zenon DEF LearnsLink
  <2>2. CASE k # 1
    <3>1. lowlink' = [own EXCEPT ![p] = Least({own[p], own[v]})] /\ p = td1[k - 1].node /\ p \in Node
      BY <1>0, <1>14, <1>15, <2>2, Zenon
    <3>2. {own[p], own[v]} \in SUBSET Nat /\ {own[p], own[v]} # {}
      BY <1>2, <1>9, <3>1, Zenon
    <3>3. /\ Least({own[p], own[v]}) \in {own[p], own[v]} /\ Least({own[p], own[v]}) \in Nat
          /\ \A y \in {own[p], own[v]} : Least({own[p], own[v]}) <= y
      BY <3>2, LeastIs, Zenon
    <3>4. /\ lowlink' \in [Node -> Nat] /\ lowlink'[p] = Least({own[p], own[v]})
          /\ \A n \in Node : n # p => lowlink'[n] = own[n]
      BY <1>9, <3>1, <3>3, Zenon
    <3>. QED  BY <2>2, <3>1, <3>3, <3>4, Zenon DEF LearnsLink
  <2>. QED  BY <2>1, <2>2, Zenon
<1>17. \A n \in Node : Entered[n] \in Nat /\ own[n] \in Nat
  BY <1>8, OnThePath, Zenon
<1>18. v \in S
  BY <1>13, Zenon DEF PathBelow
<1>19. /\ Searching(Entered, lowlink', Entries(stack'), below, components')
       /\ Stacked(Entered, stack')
  <2>1. CASE Lowered = Entered[v]
    <3>1. at \in DOMAIN StackNow /\ StackNow[at] = v
      BY <1>18, Zenon DEF S, Entries, at
    <3>2. /\ HeadsGroup(Entered, S, v, c) /\ Entries(SubSeq(StackNow, 1, at - 1)) = S \ c
          /\ Stacked(Entered, SubSeq(StackNow, 1, at - 1))
      <4>1. FromOn(StackNow, at, c)
        BY Zenon DEF FromOn, c
      <4>2. \A x \in Node : Entered[x] \in Nat
        BY <1>17, Zenon
      <4>. QED  BY <1>1, <3>1, <4>1, <4>2, StackSplit DEF S
    <3>3. own[v] = Entered[v]
      BY <1>9, <2>1, Zenon
    <3>4. Searching(Entered, lowlink', S \ c, below, components \cup {c})
      BY <1>1, <1>8, <1>12, <1>16, <3>2, <3>3, GroupKeeps, Zenon
    <3>. QED  BY <1>0, <2>1, <3>2, <3>4, Zenon
  <2>2. CASE Lowered # Entered[v]
    <3>1. own[v] <= Entered[v]
      BY <1>8, <1>18, Zenon DEF Searching, LinksReach
    <3>2. own[v] < Entered[v]
      BY <1>2, <1>9, <1>17, <2>2, <3>1, SMTT(60)
    <3>3. Searching(Entered, lowlink', S, below, components)
      BY <1>1, <1>8, <1>12, <1>16, <3>2, RetreatKeeps, Zenon
    <3>. QED  BY <1>0, <1>1, <2>2, <3>3, Zenon DEF S
  <2>. QED  BY <2>1, <2>2, Zenon
<1>20. Searching(number, lowlink, Entries(stack), todo, components)'
  <2>1. Searching(number', lowlink', Entries(stack'), todo', components')
    BY <1>0, <1>19, Zenon
  <2>. QED  BY <1>0, <2>1, SearchedNext, Zenon
<1>21. GraphOK' /\ Stacked(number, stack)'
  BY <1>0, <1>1, <1>19, Zenon DEF GraphOK, Stacked
<1>22. ASSUME todo' # <<>> PROVE Top.next' # 0 /\ number'[Top.node'] # 0
  <2>1. k # 1
    BY <1>0, <1>14, <1>22, Zenon
  <2>2. k - 1 \in 1..(k - 1) /\ k - 1 \in 1..k /\ k - 1 # k
    BY <1>2, <2>1
  <2>3. Top' = td1[k - 1]
    BY <1>0, <1>11, <2>2, Zenon DEF Top
  <2>4. DOMAIN td1 = 1..k
    BY <1>8, <1>10, OnThePath, Zenon
  <2>5. td1[k - 1].next \in DOMAIN adjacency[td1[k - 1].node]
    BY <1>8, <1>10, <2>2, <2>4, Zenon DEF Searching, PathOnStack
  <2>6. td1[k - 1].next # 0
    BY <1>1, <1>15, <2>1, <2>5, GraphIs, Zenon
  <2>. QED  BY <1>0, <1>15, <2>1, <2>3, <2>6, Zenon
<1>. QED  BY <1>20, <1>21, <1>22, Zenon DEF TarjanInv

\* The groups that have been reported are components, as is every node in one when
\* the search is over.
LEMMA TarjanInvTells == TarjanInv => GroupsAreComponents
<1>. SUFFICES ASSUME TarjanInv PROVE GroupsAreComponents
  BY Zenon
<1>1. Searching(number, lowlink, Entries(stack), todo, components)
  BY Zenon DEF TarjanInv
<1>2. ASSUME Finished PROVE UNION components = Node
  <2>1. Entries(stack) = {}
    BY <1>1, <1>2, Zenon DEF Searching, NothingOlder, Finished
  <2>2. Numbered(number) = Node
    BY <1>2, Zenon DEF Numbered, Finished
  <2>3. Numbered(number) = Entries(stack) \cup UNION components
    BY <1>1, Zenon DEF Searching, NumbersTell
  <2>. QED  BY <2>1, <2>2, <2>3, Zenon
<1>3. \A c \in components : c # {} /\ \A m \in c, n \in Node : (n \in c) <=> Together(m, n)
  BY <1>1, Zenon DEF Searching, GroupsFinal
<1>4. \A c \in components : c # {} /\ \A m \in c, n \in Node : (n \in c) = Together(m, n)
  BY <1>3 DEF Together, LeadsTo
<1>. QED  BY <1>2, <1>4, Zenon DEF GroupsAreComponents

\* Nothing has been searched at first.
LEMMA TarjanInitInv == TarjanInit => TarjanInv
<1>. SUFFICES ASSUME TarjanInit PROVE TarjanInv
  BY Zenon
<1>1. /\ GraphOK /\ number = [n \in Node |-> 0] /\ lowlink = [n \in Node |-> 0]
      /\ stack = <<>> /\ todo = <<>> /\ components = {}
  BY Zenon DEF TarjanInit, GraphOK
<1>2. Entries(stack) = {} /\ Path(todo) = {} /\ Numbered(number) = {} /\ Active(number, todo) = {} /\ DOMAIN todo = {}
  BY <1>1 DEF Entries, Path, Numbered, Active
<1>3. Stacked(number, stack)
  BY <1>1 DEF Stacked
<1>4. SearchTypes(number, lowlink, {}, todo, components)
  BY <1>1 DEF SearchTypes
<1>5. NumbersTell(number, {}, components)
  <2>1. Cardinality(Numbered(number)) = 0
    BY <1>2, FS_EmptySet, Zenon
  <2>. QED  BY <1>1, <1>2, <2>1 DEF NumbersTell
<1>6. PathOnStack(number, {}, todo) /\ NothingOlder(number, {}, todo)
  BY <1>2, Zenon DEF PathOnStack, NothingOlder
<1>7. ScannedLowers(number, lowlink, {}, todo) /\ LinksReach(number, lowlink, {}, todo) /\ ActiveLead(number, lowlink, {}, todo)
  BY <1>2, Zenon DEF ScannedLowers, LinksReach, ActiveLead
<1>8. GroupsFinal(components)
  BY <1>1, Zenon DEF GroupsFinal, Closed
<1>. QED  BY <1>1, <1>2, <1>3, <1>4, <1>5, <1>6, <1>7, <1>8, Zenon DEF TarjanInv, Searching

\* Every group tarjan_scc has reported is a whole strongly connected component of the
\* dependencies, whatever the graph and the order of its edges; when it returns every
\* node is in one of them (federation.rs, tarjan_scc).
THEOREM GroupsAlwaysComponents == TarjanSpec => []GroupsAreComponents
<1>1. TarjanInv /\ [TarjanNext]_tarjanVars => TarjanInv'
  <2>. SUFFICES ASSUME TarjanInv, [TarjanNext]_tarjanVars PROVE TarjanInv'
    BY Zenon
  <2>1. CASE UNCHANGED tarjanVars
    <3>1. /\ adjacency' = adjacency /\ number' = number /\ lowlink' = lowlink /\ stack' = stack
          /\ todo' = todo /\ components' = components
      BY <2>1, Zenon DEF tarjanVars
    <3>2. Searching(number, lowlink, Entries(stack), todo, components)'
      <4>1. Searching(number', lowlink', Entries(stack'), todo', components')
        BY <3>1, Zenon DEF TarjanInv
      <4>. QED  BY <3>1, <4>1, SearchedNext, Zenon
    <3>3. GraphOK' /\ Stacked(number, stack)' /\ (todo # <<>> => (Top.next = 0 <=> number[Top.node] = 0))'
      BY <3>1, Zenon DEF TarjanInv, GraphOK, Stacked, Top
    <3>. QED  BY <3>2, <3>3, Zenon DEF TarjanInv
  <2>. QED  BY <2>1, StartKeeps, DescendKeeps, RetreatInv, Zenon DEF TarjanNext
<1>. QED  BY <1>1, TarjanInitInv, TarjanInvTells, PTL DEF TarjanSpec

-----------------------------------------------------------------------------
(* weave plan-migration.                                                   *)

\* A finite set can be listed by increasing keys, when no two elements have the same.
LEMMA Listable ==
  ASSUME NEW S, IsFiniteSet(S), NEW f \in [S -> Nat], \A a, b \in S : f[a] = f[b] => a = b
  PROVE  \E q \in [1..Cardinality(S) -> S] :
             \A i, j \in 1..Cardinality(S) : i < j => f[q[i]] < f[q[j]] /\ q[i] # q[j]
<1>. DEFINE Lists(T, q) == \A i, j \in 1..Cardinality(T) : i < j => f[q[i]] < f[q[j]] /\ q[i] # q[j]
            B == {T \in FiniteSubsetsOf(S) : \A q \in [1..Cardinality(T) -> T] : ~Lists(T, q)}
<1>. SUFFICES ASSUME S \in B PROVE FALSE
  BY Zenon DEF FiniteSubsetsOf
<1>1. PICK T \in B : \A U \in B : ~(<<U, T>> \in StrictSubsetOrdering(S))
  BY FS_StrictSubsetOrderingWellFounded, WFMin, Zenon
<1>2. T \in SUBSET S /\ IsFiniteSet(T) /\ \A q \in [1..Cardinality(T) -> T] : ~Lists(T, q)
  BY Zenon DEF FiniteSubsetsOf
<1>3. T # {}
  <2>1. Cardinality({}) = 0 /\ 1..0 = {}
    BY FS_EmptySet
  <2>2. [i \in 1..0 |-> 0] \in [1..0 -> {}] /\ Lists({}, [i \in 1..0 |-> 0])
    BY <2>1, Zenon
  <2>. QED  BY <1>2, <2>1, <2>2, Zenon
<1>4. PICK m \in T : \A a \in T : f[m] <= f[a]
  <2>. DEFINE K == {f[a] : a \in T}
  <2>1. K \in SUBSET Nat /\ K # {}
    BY <1>2, <1>3
  <2>. HIDE DEF K
  <2>2. PICK n \in K : \A k \in K : n <= k
    BY <2>1, FirstNumber, Zenon
  <2>. QED  BY <2>2 DEF K
<1>. DEFINE U == T \ {m}
<1>5. IsFiniteSet(U) /\ U \in FiniteSubsetsOf(S) /\ Cardinality(T) = Cardinality(U) + 1
      /\ Cardinality(U) \in Nat
  <2>1. IsFiniteSet(U) /\ Cardinality(U) = Cardinality(T) - 1
    BY <1>2, <1>4, FS_RemoveElement, Zenon
  <2>2. Cardinality(U) \in Nat /\ Cardinality(T) \in Nat
    BY <1>2, <2>1, FS_CardinalityType, Zenon
  <2>3. U \in FiniteSubsetsOf(S)
    BY <1>2, <2>1, Zenon DEF FiniteSubsetsOf
  <2>. QED  BY <2>1, <2>2, <2>3
<1>6. <<U, T>> \in StrictSubsetOrdering(S)
  BY <1>2, <1>4, Zenon DEF StrictSubsetOrdering
<1>7. PICK q \in [1..Cardinality(U) -> U] : Lists(U, q)
  BY <1>1, <1>5, <1>6, Zenon
<1>. DEFINE n == Cardinality(U)
            p == [i \in 1..n + 1 |-> IF i = 1 THEN m ELSE q[i - 1]]
<1>. HIDE DEF n
<1>8. n \in Nat /\ q \in [1..n -> U] /\ \A i, j \in 1..n : i < j => f[q[i]] < f[q[j]] /\ q[i] # q[j]
  BY <1>5, <1>7, Zenon DEF n
<1>9. \A i \in 1..n + 1 : i = 1 \/ (i - 1 \in 1..n /\ q[i - 1] \in T /\ q[i - 1] # m)
  <2>1. \A i \in 1..n + 1 : i = 1 \/ i - 1 \in 1..n
    BY <1>8
  <2>2. \A k \in 1..n : q[k] \in T /\ q[k] # m
    BY <1>8, Zenon
  <2>. QED  BY <2>1, <2>2, Zenon
<1>a. p \in [1..n + 1 -> T]
  BY <1>4, <1>9, Zenon
<1>10. ASSUME NEW i \in 1..n + 1, NEW j \in 1..n + 1, i < j PROVE f[p[i]] < f[p[j]] /\ p[i] # p[j]
  <2>1. CASE i = 1
    <3>0. j # 1
      BY <1>10, <2>1
    <3>1. j - 1 \in 1..n /\ q[j - 1] \in T /\ q[j - 1] # m /\ j # 1
      BY <1>9, <3>0, Zenon
    <3>2. f[m] <= f[q[j - 1]] /\ f[m] # f[q[j - 1]] /\ f[m] \in Nat /\ f[q[j - 1]] \in Nat
      BY <1>2, <1>4, <3>1, Zenon
    <3>. QED  BY <2>1, <3>1, <3>2, <1>10
  <2>2. CASE i # 1
    <3>1. i - 1 \in 1..n /\ j - 1 \in 1..n /\ i - 1 < j - 1 /\ j # 1
      BY <1>8, <1>10, <2>2
    <3>. QED  BY <1>8, <3>1, <2>2, Zenon
  <2>. QED  BY <2>1, <2>2, Zenon
<1>. HIDE DEF p
<1>11. Cardinality(T) = n + 1
  BY <1>5, Zenon DEF n
<1>. QED  BY <1>2, <1>a, <1>10, <1>11, Zenon

\* The repositories and the references among them are finitely many, and a
\* repository is named once or more.
LEMMA FiniteSurvey ==
  ASSUME survey \in Surveys
  PROVE  /\ survey.roots \in Seq(Nat) /\ Linked \subseteq Nat /\ IsFiniteSet(Linked)
         /\ IsFiniteSet(OrderingEdges)
         /\ \A r \in Linked : Position(r) \in Nat /\ survey.roots[Position(r)] = r
<1>1. survey.roots \in Seq(Nat) /\ \A r \in Linked : IsFiniteSet(survey.uses[r])
  BY PlanAssumption, Zenon DEF Linked
<1>. DEFINE n == Len(survey.roots)
<1>2. n \in Nat /\ DOMAIN survey.roots = 1..n /\ survey.roots \in [1..n -> Nat]
  BY <1>1
<1>3. Linked \subseteq Nat /\ survey.roots \in Surjection(1..n, Linked)
  BY <1>2, Zenon DEF Linked, Surjection
<1>4. IsFiniteSet(Linked)
  BY <1>2, <1>3, FS_Interval, FS_Surjection
<1>5. IsFiniteSet(Calls)
  <2>. DEFINE used == [r \in Linked |-> survey.uses[r]]
              sets == {survey.uses[r] : r \in Linked}
  <2>1. used \in Surjection(Linked, sets)
    BY Zenon DEF Surjection
  <2>2. IsFiniteSet(sets)
    BY <2>1, <1>4, FS_Surjection, Zenon
  <2>. QED  BY <1>1, <2>2, FS_UNION, Zenon DEF Calls
<1>6. IsFiniteSet([caller : Linked, target : Linked, use : Calls])
  <2>. DEFINE triples == (Linked \X Linked) \X Calls
              records == [caller : Linked, target : Linked, use : Calls]
              made == [t \in triples |-> [caller |-> t[1][1], target |-> t[1][2], use |-> t[2]]]
  <2>1. IsFiniteSet(triples)
    BY <1>4, <1>5, FS_Product, Zenon
  <2>2. made \in [triples -> records]
    BY Zenon
  <2>3. ASSUME NEW x \in records PROVE \E t \in triples : made[t] = x
    <3>. DEFINE t == <<<<x.caller, x.target>>, x.use>>
    <3>1. t \in triples /\ made[t] = x
      BY Zenon
    <3>. QED  BY <3>1, Zenon
  <2>4. made \in Surjection(triples, records)
    BY <2>2, <2>3, Zenon DEF Surjection
  <2>. QED  BY <2>1, <2>4, FS_Surjection
<1>7. IsFiniteSet(OrderingEdges)
  <2>1. OrderingEdges \in SUBSET [caller : Linked, target : Linked, use : Calls]
    BY Zenon DEF OrderingEdges, CrossReferences
  <2>. QED  BY <1>6, <2>1, FS_Subset, Zenon
<1>8. \A r \in Linked : \E i \in DOMAIN survey.roots : survey.roots[i] = r
  BY Zenon DEF Linked
<1>9. \A r \in Linked : Position(r) \in DOMAIN survey.roots /\ survey.roots[Position(r)] = r
  BY <1>8, Zenon DEF Position
<1>10. \A r \in Linked : Position(r) \in Nat
  BY <1>2, <1>9
<1>. QED  BY <1>1, <1>3, <1>4, <1>7, <1>9, <1>10, Zenon

\* A sequence of elements of a set, none of them twice.
NoneTwice(q, S) == q \in Seq(S) /\ \A i, j \in DOMAIN q : i < j => q[i] # q[j]

\* A set of repositories, listed by label.
LEMMA ByLabel ==
  ASSUME NEW S \in SUBSET Nat, IsFiniteSet(S)
  PROVE  NoneTwice(InOrder(S, LAMBDA a, b : a < b), S)
<1>. DEFINE f == [a \in S |-> a]
            n == Cardinality(S)
            Good(q) == \A i, j \in DOMAIN q : i < j => q[i] < q[j] /\ q[i] # q[j]
<1>1. f \in [S -> Nat] /\ \A a, b \in S : f[a] = f[b] => a = b
  BY Zenon
<1>2. PICK q \in [1..n -> S] : \A i, j \in 1..n : i < j => f[q[i]] < f[q[j]] /\ q[i] # q[j]
  <2>. HIDE DEF f
  <2>. QED  BY <1>1, Listable, ZenonT(60)
<1>3. \E p \in [1..n -> S] : Good(p)
  BY <1>2, Zenon
<1>. DEFINE p == CHOOSE p \in [1..n -> S] : Good(p)
<1>4. p \in [1..n -> S] /\ Good(p)
  BY <1>3, Zenon
<1>5. InOrder(S, LAMBDA a, b : a < b) = p
  BY Zenon DEF InOrder
<1>. HIDE DEF p
<1>6. n \in Nat
  BY FS_CardinalityType, Zenon
<1>7. p \in Seq(S)
  BY <1>4, <1>6
<1>. QED  BY <1>4, <1>5, <1>7, Zenon DEF NoneTwice

\* A set of linked repositories, listed as configured.
LEMMA ByPosition ==
  ASSUME survey \in Surveys, NEW S \in SUBSET Linked, IsFiniteSet(S)
  PROVE  NoneTwice(InOrder(S, LAMBDA a, b : Position(a) < Position(b)), S)
<1>. DEFINE f == [a \in S |-> Position(a)]
            n == Cardinality(S)
            Good(q) == \A i, j \in DOMAIN q : i < j => Position(q[i]) < Position(q[j]) /\ q[i] # q[j]
<1>1. f \in [S -> Nat] /\ \A a, b \in S : f[a] = f[b] => a = b
  BY FiniteSurvey, Zenon
<1>2. PICK q \in [1..n -> S] : \A i, j \in 1..n : i < j => f[q[i]] < f[q[j]] /\ q[i] # q[j]
  <2>. HIDE DEF f
  <2>. QED  BY <1>1, Listable, Zenon
<1>3. \E p \in [1..n -> S] : Good(p)
  BY <1>2, Zenon
<1>. DEFINE p == CHOOSE p \in [1..n -> S] : Good(p)
<1>4. p \in [1..n -> S] /\ Good(p)
  BY <1>3, Zenon
<1>5. InOrder(S, LAMBDA a, b : Position(a) < Position(b)) = p
  BY Zenon DEF InOrder
<1>. HIDE DEF p
<1>6. n \in Nat
  BY FS_CardinalityType, Zenon
<1>7. p \in Seq(S)
  BY <1>4, <1>6
<1>. QED  BY <1>4, <1>5, <1>7, Zenon DEF NoneTwice

Members(q) == {q[i] : i \in DOMAIN q}
Incoming(r, gone) == {x \in OrderingEdges : x.target = r /\ x.caller \notin gone}

\* Where kahn stands: it counts the references that are left, and a repository is
\* ready or ordered only when its callers are ordered before it.
Topological(order, ready, indegree) ==
    /\ NoneTwice(order, Concerned) /\ NoneTwice(ready, Concerned)
    /\ Members(order) \cap Members(ready) = {}
    /\ indegree = [r \in Concerned |-> Cardinality(Incoming(r, Members(order)))]
    /\ \A r \in Members(order) \cup Members(ready) : Incoming(r, Members(order)) = {}
    /\ \A i, j \in DOMAIN order : i < j =>
         \A x \in OrderingEdges : ~(x.caller = order[j] /\ x.target = order[i])

\* The provider is one of the linked repositories.
LEMMA ProviderIsLinked ==
  ASSUME survey \in Surveys, Providers # {}
  PROVE  ProviderRepo \in Linked /\ Concerned \subseteq Linked /\ IsFiniteSet(Concerned)
<1>1. Providers \in SUBSET Nat
  BY FiniteSurvey DEF Providers
<1>2. \E i \in Providers : \A j \in Providers : i <= j
  BY <1>1, FirstNumber, Zenon
<1>3. ProviderRepo \in Linked
  BY <1>2, Zenon DEF ProviderRepo, Providers, Linked
<1>4. Affected \subseteq Linked
  BY Zenon DEF Affected, CallersOf, CrossReferences
<1>5. Concerned \subseteq Linked
  BY <1>3, <1>4, Zenon DEF Concerned
<1>. QED  BY <1>3, <1>5, FiniteSurvey, FS_Subset, Zenon

\* The members of a sequence without repetition.
LEMMA MembersIn ==
  ASSUME NEW S, NEW q, NoneTwice(q, S)
  PROVE  Members(q) \subseteq S /\ \A T : S \subseteq T => NoneTwice(q, T)
<1>1. \A i \in DOMAIN q : q[i] \in S
  BY DEF NoneTwice
<1>2. \A T : S \subseteq T => q \in Seq(T)
  BY <1>1 DEF NoneTwice
<1>. QED  BY <1>1, <1>2, Zenon DEF NoneTwice, Members

\* The empty list.
LEMMA NoMembers == DOMAIN <<>> = {} /\ Members(<<>>) = {} /\ \A S : NoneTwice(<<>>, S)
<1>1. \A S : \A q \in Seq(S) : q = <<>> => Len(q) = 0 /\ DOMAIN q = 1..Len(q)
  OBVIOUS
<1>2. \A S : <<>> \in Seq(S)
  OBVIOUS
<1>3. DOMAIN <<>> = {}
  BY <1>1, <1>2
<1>. QED  BY <1>2, <1>3, Zenon DEF Members, NoneTwice

\* The start of kahn.
LEMMA KahnStarts ==
  ASSUME survey \in Surveys, Providers # {},
         NEW indegree, indegree = [r \in Concerned |-> Cardinality({x \in OrderingEdges : x.target = r})],
         NEW ready, ready = InOrder({r \in Concerned : indegree[r] = 0}, LAMBDA a, b : a < b)
  PROVE  Topological(<<>>, ready, indegree)
<1>. DEFINE free == {r \in Concerned : indegree[r] = 0}
<1>1. free \in SUBSET Nat /\ IsFiniteSet(free) /\ free \subseteq Concerned
  BY FiniteSurvey, ProviderIsLinked, FS_Subset, Zenon
<1>2. NoneTwice(ready, free)
  <2>. HIDE DEF free
  <2>1. ready = InOrder(free, LAMBDA a, b : a < b)
    BY Zenon DEF free
  <2>. QED  BY <1>1, <2>1, ByLabel, Zenon
<1>3. NoneTwice(ready, Concerned) /\ Members(ready) \subseteq free
  <2>. HIDE DEF free
  <2>. QED  BY <1>1, <1>2, MembersIn, Zenon
<1>4. DOMAIN <<>> = {} /\ Members(<<>>) = {} /\ NoneTwice(<<>>, Concerned)
  BY NoMembers, Zenon
<1>5. \A r : Incoming(r, {}) = {x \in OrderingEdges : x.target = r} /\ IsFiniteSet(Incoming(r, {}))
  BY FiniteSurvey, FS_Subset, Zenon DEF Incoming
<1>6. \A r \in Concerned : indegree[r] = Cardinality(Incoming(r, {}))
  BY <1>5, Zenon
<1>7. \A r \in free : Incoming(r, {}) = {}
  BY <1>5, <1>6, FS_EmptySet, Zenon
<1>8. indegree = [r \in Concerned |-> Cardinality(Incoming(r, {}))]
  BY <1>5, Zenon
<1>. HIDE DEF free
<1>9. \A r \in Members(<<>>) \cup Members(ready) : Incoming(r, Members(<<>>)) = {}
  BY <1>3, <1>4, <1>7, Zenon
<1>. QED  BY <1>3, <1>4, <1>8, <1>9, Zenon DEF Topological

\* Taking the last of a sequence without repetition.
LEMMA TakeLast ==
  ASSUME NEW S, NEW q, NoneTwice(q, S), q # <<>>
  PROVE  /\ q[Len(q)] \in S /\ q[Len(q)] \in Members(q)
         /\ NoneTwice(SubSeq(q, 1, Len(q) - 1), S)
         /\ Members(SubSeq(q, 1, Len(q) - 1)) = Members(q) \ {q[Len(q)]}
<1>. DEFINE n == Len(q)
            front == SubSeq(q, 1, n - 1)
<1>1. n \in Nat /\ n > 0 /\ DOMAIN q = 1..n /\ q \in Seq(S)
  BY DEF NoneTwice
<1>2. \A T : \A s \in Seq(T) : Len(s) > 0 =>
        /\ SubSeq(s, 1, Len(s) - 1) \in Seq(T) /\ DOMAIN SubSeq(s, 1, Len(s) - 1) = 1..Len(s) - 1
        /\ \A i \in 1..Len(s) - 1 : SubSeq(s, 1, Len(s) - 1)[i] = s[i]
  OBVIOUS
<1>3. front \in Seq(S) /\ DOMAIN front = 1..n - 1 /\ \A i \in 1..n - 1 : front[i] = q[i]
  BY <1>1, <1>2, Zenon
<1>. HIDE DEF n, front
<1>4. \A i \in 1..n : i \in 1..n - 1 \/ i = n
  BY <1>1
<1>5. n \in 1..n /\ \A i \in 1..n - 1 : i \in 1..n /\ i < n
  BY <1>1
<1>6. \A i \in 1..n - 1 : q[i] # q[n]
  BY <1>1, <1>5, Zenon DEF NoneTwice
<1>7. NoneTwice(front, S)
  BY <1>1, <1>3, <1>5, Zenon DEF NoneTwice
<1>8. Members(front) = Members(q) \ {q[n]}
  BY <1>1, <1>3, <1>4, <1>5, <1>6, Zenon DEF Members
<1>9. q[n] \in S
  BY <1>1, <1>5
<1>10. q[n] \in Members(q)
  BY <1>1, <1>5, Zenon DEF Members
<1>. QED  BY <1>7, <1>8, <1>9, <1>10, Zenon DEF n, front

\* Putting two sequences without repetition and with nothing in common together.
Joined(p, q) == p \o q
\* Two lists without a common member and without repetition, joined.
LEMMA PutTogether ==
  ASSUME NEW S, NEW p, NEW q, NoneTwice(p, S), NoneTwice(q, S), \A x \in Members(p) : x \notin Members(q)
  PROVE  /\ NoneTwice(Joined(p, q), S)
         /\ \A x : x \in Members(Joined(p, q)) <=> x \in Members(p) \/ x \in Members(q)
<1>. DEFINE m == Len(p)
            n == Len(q)
            both == Joined(p, q)
<1>1. m \in Nat /\ n \in Nat /\ DOMAIN p = 1..m /\ DOMAIN q = 1..n /\ p \in Seq(S) /\ q \in Seq(S)
  BY DEF NoneTwice
<1>2. both \in Seq(S) /\ DOMAIN both = 1..m + n
      /\ \A i \in 1..m + n : both[i] = IF i <= m THEN p[i] ELSE q[i - m]
  BY <1>1 DEF Joined
<1>. HIDE DEF m, n, both
<1>3. \A i \in 1..m + n : \/ i <= m /\ i \in 1..m /\ both[i] = p[i]
                          \/ i > m /\ i - m \in 1..n /\ both[i] = q[i - m]
  BY <1>1, <1>2
<1>4. /\ \A i \in 1..m : i \in 1..m + n /\ both[i] = p[i]
      /\ \A i \in 1..n : i + m \in 1..m + n /\ both[i + m] = q[i]
  BY <1>1, <1>2
<1>5. Members(both) = Members(p) \cup Members(q)
  <2>1. Members(both) \subseteq Members(p) \cup Members(q)
    BY <1>1, <1>2, <1>3, Zenon DEF Members
  <2>2. Members(p) \subseteq Members(both)
    BY <1>1, <1>2, <1>4, ZenonT(60) DEF Members
  <2>3. ASSUME NEW i \in 1..n PROVE q[i] \in Members(both)
    <3>1. i + m \in DOMAIN both /\ both[i + m] = q[i]
      BY <1>2, <1>4, Zenon
    <3>. QED  BY <3>1, Zenon DEF Members
  <2>4. Members(q) \subseteq Members(both)
    BY <1>1, <2>3, Zenon DEF Members
  <2>. QED  BY <2>1, <2>2, <2>4, Zenon
<1>6. \A i \in 1..m, j \in 1..n : p[i] # q[j]
  BY <1>1, Zenon DEF Members
<1>7. ASSUME NEW i \in 1..m + n, NEW j \in 1..m + n, i < j PROVE both[i] # both[j]
  <2>1. CASE j <= m
    BY <1>1, <1>3, <1>7, <2>1 DEF NoneTwice
  <2>2. CASE i <= m /\ j > m
    BY <1>1, <1>3, <1>6, <2>2
  <2>3. CASE i > m
    <3>1. i - m \in 1..n /\ j - m \in 1..n /\ i - m < j - m /\ both[i] = q[i - m] /\ both[j] = q[j - m]
      BY <1>1, <1>3, <1>7, <2>3
    <3>. QED  BY <1>1, <3>1, Zenon DEF NoneTwice
  <2>. QED  BY <1>1, <2>1, <2>2, <2>3
<1>. QED  BY <1>2, <1>5, <1>7, Zenon DEF NoneTwice, both

\* One turn of kahn's loop.
LEMMA KahnPops ==
  ASSUME survey \in Surveys, Providers # {},
         NEW order, NEW ready, NEW indegree, Topological(order, ready, indegree), ready # <<>>,
         NEW next, next = ready[Len(ready)],
         NEW lowered, lowered = [r \in Concerned |-> indegree[r] - Cardinality(Between(next, r))],
         NEW listed, NoneTwice(listed, {r \in Concerned : Between(next, r) # {} /\ lowered[r] = 0})
  PROVE  Topological(Append(order, next), SubSeq(ready, 1, Len(ready) - 1) \o listed, lowered)
<1>. DEFINE freed == {r \in Concerned : Between(next, r) # {} /\ lowered[r] = 0}
            longer == Append(order, next)
            front == SubSeq(ready, 1, Len(ready) - 1)
            rest == Joined(front, listed)
            gone == Members(order)
<1>1. /\ NoneTwice(order, Concerned) /\ NoneTwice(ready, Concerned) /\ gone \cap Members(ready) = {}
      /\ indegree = [r \in Concerned |-> Cardinality(Incoming(r, gone))]
      /\ \A r \in gone \cup Members(ready) : Incoming(r, gone) = {}
  BY Zenon DEF Topological
<1>2. NoneTwice(front, Concerned) /\ next \in Concerned /\ next \in Members(ready)
      /\ Members(front) = Members(ready) \ {next}
  BY <1>1, TakeLast, Zenon
<1>3. next \notin gone /\ Incoming(next, gone) = {}
  BY <1>1, <1>2, Zenon
<1>4. \A r \in freed : Incoming(r, gone) # {}
  BY <1>3, Zenon DEF Between, Incoming
<1>5. freed \cap (gone \cup Members(ready)) = {}
  BY <1>1, <1>4, Zenon
<1>6. Members(listed) \subseteq freed /\ NoneTwice(listed, Concerned)
  <2>1. freed \subseteq Concerned
    BY Zenon
  <2>. HIDE DEF freed
  <2>2. NoneTwice(listed, freed)
    BY Zenon DEF freed
  <2>. QED  BY <2>1, <2>2, MembersIn, Zenon
<1>7. NoneTwice(rest, Concerned) /\ Members(rest) = Members(front) \cup Members(listed)
  <2>1. \A x \in Members(front) : x \notin Members(listed)
    BY <1>2, <1>5, <1>6, Zenon
  <2>2. NoneTwice(front, Concerned) /\ NoneTwice(listed, Concerned)
    BY <1>2, <1>6, Zenon
  <2>. HIDE DEF front, freed
  <2>4. NoneTwice(Joined(front, listed), Concerned)
    BY <2>1, <2>2, PutTogether, Zenon
  <2>5. \A x : x \in Members(Joined(front, listed)) <=> x \in Members(front) \/ x \in Members(listed)
    BY <2>1, <2>2, PutTogether, Zenon
  <2>. QED  BY <2>4, <2>5, Zenon
<1>8. order \in Seq(Concerned) /\ longer \in Seq(Concerned) /\ DOMAIN longer = 1..Len(order) + 1
      /\ Len(order) \in Nat /\ DOMAIN order = 1..Len(order)
      /\ longer[Len(order) + 1] = next /\ \A i \in 1..Len(order) : longer[i] = order[i]
  BY <1>1, <1>2 DEF NoneTwice
<1>9. \A i \in 1..Len(order) + 1 : i \in 1..Len(order) \/ i = Len(order) + 1
  BY <1>8
<1>10. Len(order) + 1 \in 1..Len(order) + 1 /\ \A i \in 1..Len(order) : i \in 1..Len(order) + 1 /\ i < Len(order) + 1
  BY <1>8
<1>. HIDE DEF longer, front, rest, freed
<1>11. Members(longer) = gone \cup {next}
  BY <1>8, <1>9, <1>10, Zenon DEF Members
<1>12. NoneTwice(longer, Concerned)
  <2>. SUFFICES ASSUME NEW i \in 1..Len(order) + 1, NEW j \in 1..Len(order) + 1, i < j PROVE longer[i] # longer[j]
    BY <1>8, Zenon DEF NoneTwice
  <2>1. i \in 1..Len(order) /\ longer[i] = order[i]
    BY <1>8
  <2>2. CASE j = Len(order) + 1
    BY <1>3, <1>8, <2>1, <2>2, Zenon DEF Members
  <2>3. CASE j \in 1..Len(order)
    BY <1>1, <1>8, <2>1, <2>3, ZenonT(60) DEF NoneTwice
  <2>. QED  BY <1>9, <2>2, <2>3, Zenon
<1>13. Members(longer) \cap Members(rest) = {}
  BY <1>1, <1>2, <1>3, <1>5, <1>6, <1>7, <1>11, Zenon
<1>14. ASSUME NEW r \in Concerned
       PROVE  /\ IsFiniteSet(Incoming(r, gone \cup {next}))
              /\ lowered[r] = Cardinality(Incoming(r, gone \cup {next}))
  <2>1. Incoming(r, gone \cup {next}) = Incoming(r, gone) \ Between(next, r)
    BY Zenon DEF Incoming, Between
  <2>2. Incoming(r, gone) \cap Between(next, r) = Between(next, r)
    BY <1>3, Zenon DEF Incoming, Between
  <2>3. IsFiniteSet(Incoming(r, gone))
    BY FiniteSurvey, FS_Subset, Zenon DEF Incoming
  <2>4. lowered[r] = Cardinality(Incoming(r, gone)) - Cardinality(Between(next, r))
    BY <1>1, Zenon
  <2>5. /\ IsFiniteSet(Incoming(r, gone) \ Between(next, r))
        /\ Cardinality(Incoming(r, gone) \ Between(next, r))
             = Cardinality(Incoming(r, gone)) - Cardinality(Incoming(r, gone) \cap Between(next, r))
    BY <2>3, FS_Difference, Zenon
  <2>. QED  BY <2>1, <2>2, <2>4, <2>5, Zenon
<1>15. lowered = [r \in Concerned |-> Cardinality(Incoming(r, Members(longer)))]
  BY <1>11, <1>14, Zenon
<1>16. ASSUME NEW r \in Members(longer) \cup Members(rest) PROVE Incoming(r, Members(longer)) = {}
  <2>1. CASE r \in gone \cup Members(ready)
    BY <1>1, <1>11, <2>1, Zenon DEF Incoming
  <2>2. CASE r \in freed
    <3>1. r \in Concerned /\ lowered[r] = 0
      BY <2>2, Zenon DEF freed
    <3>. QED  BY <1>11, <1>14, <3>1, FS_EmptySet, Zenon
  <2>. QED  BY <1>2, <1>6, <1>7, <1>11, <2>1, <2>2, Zenon
<1>17. ASSUME NEW i \in DOMAIN longer, NEW j \in DOMAIN longer, i < j, NEW x \in OrderingEdges,
              x.caller = longer[j], x.target = longer[i]
       PROVE  FALSE
  <2>1. i \in 1..Len(order) /\ longer[i] = order[i]
    BY <1>8, <1>17
  <2>2. CASE j = Len(order) + 1
    <3>1. Incoming(order[i], gone) = {}
      BY <1>1, <1>8, <2>1, Zenon DEF Members
    <3>2. x.caller = next /\ x.target = order[i]
      BY <1>8, <1>17, <2>1, <2>2, Zenon
    <3>. QED  BY <1>3, <3>1, <3>2, Zenon DEF Incoming
  <2>3. CASE j \in 1..Len(order)
    <3>1. x.caller = order[j] /\ x.target = order[i] /\ i \in DOMAIN order /\ j \in DOMAIN order
      BY <1>8, <1>17, <2>1, <2>3, Zenon
    <3>. QED  BY <1>17, <3>1, Zenon DEF Topological
  <2>. QED  BY <1>8, <1>9, <2>2, <2>3, Zenon
<1>18. Topological(longer, rest, lowered)
  BY <1>7, <1>12, <1>13, <1>15, <1>16, <1>17, Zenon DEF Topological
<1>. QED  BY <1>18, Zenon DEF longer, rest, front, Joined

\* An order without repetition that is as long as the repositories are many has all
\* of them.
LEMMA AllOrdered ==
  ASSUME NEW S, IsFiniteSet(S), NEW q, NoneTwice(q, S), Len(q) = Cardinality(S)
  PROVE  Members(q) = S
<1>. DEFINE n == Len(q)
<1>1. n \in Nat /\ DOMAIN q = 1..n /\ q \in [1..n -> S]
  BY DEF NoneTwice
<1>2. \A i, j \in 1..n : q[i] = q[j] => i = j
  BY <1>1 DEF NoneTwice
<1>3. q \in [1..n -> Members(q)] /\ \A x \in Members(q) : \E i \in 1..n : q[i] = x
  BY <1>1, Zenon DEF Members
<1>4. q \in Bijection(1..n, Members(q))
  <2>1. q \in Surjection(1..n, Members(q))
    BY <1>3, Zenon DEF Surjection
  <2>2. q \in Injection(1..n, Members(q))
    BY <1>1, <1>2, <1>3, Zenon DEF Injection, IsInjective
  <2>. QED  BY <2>1, <2>2, Zenon DEF Bijection
<1>5. ExistsBijection(1..n, Members(q))
  BY <1>4, Zenon DEF ExistsBijection
<1>6. Cardinality(Members(q)) = n
  BY <1>1, <1>5, FS_CountingElements, Zenon
<1>7. Members(q) \in SUBSET S
  BY MembersIn, Zenon
<1>. QED  BY <1>6, <1>7, FS_Subset, Zenon

MovesCallersFirst(made) ==
    /\ made[Len(made)].repo = ProviderRepo
    /\ \A r \in Linked \ {ProviderRepo}, u \in Calls :
         u \in survey.uses[r] /\ u.name = Deprecated /\ Deprecated \notin survey.sources[r]
           => \E i \in DOMAIN made : made[i].repo = r /\ u.file \in made[i].files
    /\ \A i, j \in DOMAIN made : i < j => made[i].repo # made[j].repo /\ ~DependsOn(made[j].repo, made[i].repo)

\* The plan that an order of all repositories makes.
LEMMA KahnEnds ==
  ASSUME survey \in Surveys, Providers # {}, Affected # {},
         NEW order, NEW ready, NEW indegree, Topological(order, ready, indegree),
         Len(order) = Cardinality(Concerned),
         NEW made, made = [i \in DOMAIN order |->
                 [repo |-> order[i], files |-> IF order[i] = ProviderRepo THEN {} ELSE CallerFiles(order[i])]]
  PROVE  MovesCallersFirst(made)
<1>. DEFINE n == Len(order)
<1>1. NoneTwice(order, Concerned)
  BY Zenon DEF Topological
<1>2. Members(order) = Concerned
  BY <1>1, ProviderIsLinked, AllOrdered, Zenon
<1>3. n \in Nat /\ DOMAIN order = 1..n /\ \A i \in 1..n : order[i] \in Concerned
  BY <1>1 DEF NoneTwice
<1>4. /\ \A i \in 1..n : made[i].repo = order[i]
      /\ \A i \in 1..n : order[i] # ProviderRepo => made[i].files = CallerFiles(order[i])
      /\ DOMAIN made = 1..n /\ Len(made) = n
  BY <1>3
<1>5. \A r \in Concerned : \E i \in 1..n : order[i] = r
  BY <1>2, <1>3, Zenon DEF Members
<1>. HIDE DEF n
<1>6. Affected \subseteq Concerned /\ ProviderRepo \in Concerned /\ Concerned \subseteq Linked
  BY ProviderIsLinked, Zenon DEF Concerned
<1>7. \A r \in Affected : \E x \in OrderingEdges : x.caller = r /\ x.target = ProviderRepo
  BY <1>6, Zenon DEF Affected, CallersOf, OrderingEdges
<1>8. Deprecated \in survey.sources[ProviderRepo]
  BY Zenon DEF Affected, CallersOf, CrossReferences
<1>9. order[n] = ProviderRepo /\ n \in 1..n
  <2>1. PICK k \in 1..n : order[k] = ProviderRepo
    BY <1>5, <1>6, Zenon
  <2>2. n \in 1..n
    BY <1>3
  <2>3. ASSUME k < n PROVE FALSE
    <3>1. order[n] # ProviderRepo /\ order[n] \in Concerned
      BY <1>1, <1>3, <2>1, <2>2, <2>3, Zenon DEF NoneTwice
    <3>2. order[n] \in Affected
      BY <3>1, Zenon DEF Concerned
    <3>3. PICK x \in OrderingEdges : x.caller = order[n] /\ x.target = order[k]
      BY <1>7, <3>2, <2>1, Zenon
    <3>. QED  BY <1>3, <2>1, <2>2, <2>3, <3>3, Zenon DEF Topological
  <2>. QED  BY <1>3, <2>1, <2>2, <2>3
<1>10. ASSUME NEW r \in Linked \ {ProviderRepo}, NEW u \in Calls,
              u \in survey.uses[r], u.name = Deprecated, Deprecated \notin survey.sources[r]
       PROVE  \E i \in DOMAIN made : made[i].repo = r /\ u.file \in made[i].files
  <2>. DEFINE x == [caller |-> r, target |-> ProviderRepo, use |-> u]
  <2>1. x \in [caller : Linked, target : Linked, use : Calls]
    BY <1>6, Zenon
  <2>2. x.caller = r /\ x.target = ProviderRepo /\ x.use = u
    BY Zenon
  <2>. HIDE DEF x
  <2>3. x \in CallersOf(ProviderRepo)
    BY <1>8, <1>10, <2>1, <2>2, Zenon DEF CallersOf, CrossReferences
  <2>4. r \in Affected /\ u.file \in CallerFiles(r)
    BY <2>2, <2>3, Zenon DEF Affected, CallerFiles
  <2>5. PICK i \in 1..n : order[i] = r
    BY <1>5, <1>6, <2>4, Zenon
  <2>. QED  BY <1>4, <2>4, <2>5, Zenon
<1>11. ASSUME NEW a \in Concerned, NEW b \in Concerned, DependsOn(a, b)
       PROVE  \E x \in OrderingEdges : x.caller = a /\ x.target = b
  <2>1. PICK u \in survey.uses[a] : u.name \in survey.sources[b] \ survey.sources[a]
    BY <1>11, Zenon DEF DependsOn
  <2>. DEFINE x == [caller |-> a, target |-> b, use |-> u]
  <2>2. x \in [caller : Linked, target : Linked, use : Calls]
    BY <1>6, Zenon DEF Calls
  <2>3. x.caller = a /\ x.target = b /\ x.use = u
    BY Zenon
  <2>. HIDE DEF x
  <2>4. a # b
    BY <1>11, Zenon DEF DependsOn
  <2>5. x \in CrossReferences
    BY <2>1, <2>2, <2>3, <2>4, Zenon DEF CrossReferences
  <2>6. x \in OrderingEdges
    BY <2>3, <2>5, Zenon DEF OrderingEdges
  <2>. QED  BY <2>3, <2>6, Zenon
<1>12. ASSUME NEW i \in 1..n, NEW j \in 1..n, i < j
       PROVE  order[i] # order[j] /\ ~DependsOn(order[j], order[i])
  <2>1. order[i] # order[j]
    BY <1>1, <1>3, <1>12, Zenon DEF NoneTwice
  <2>2. ASSUME DependsOn(order[j], order[i]) PROVE FALSE
    <3>1. PICK x \in OrderingEdges : x.caller = order[j] /\ x.target = order[i]
      BY <1>3, <1>11, <2>2, Zenon
    <3>. QED  BY <1>3, <1>12, <3>1, Zenon DEF Topological
  <2>. QED  BY <2>1, <2>2, Zenon
<1>13. \A i, j \in DOMAIN made : i < j => made[i].repo # made[j].repo /\ ~DependsOn(made[j].repo, made[i].repo)
  BY <1>4, <1>12
<1>14. made[Len(made)].repo = ProviderRepo
  BY <1>4, <1>9, Zenon
<1>. QED  BY <1>10, <1>13, <1>14, Zenon DEF MovesCallersFirst

KahnInv ==
    /\ survey \in Surveys
    /\ DOMAIN kahn = {"pc", "indegree", "ready", "order", "outcome"}
    /\ kahn.pc # "done" => kahn.outcome.kind = "none"
    /\ kahn.pc = "load" => kahn.order = <<>>
    /\ kahn.pc = "sort" => /\ Providers # {} /\ Affected # {}
                           /\ Topological(kahn.order, kahn.ready, kahn.indegree)
    /\ PlanMovesCallersFirst

\* What is computed from the survey stays while the survey does.
LEMMA SameSurvey ==
  ASSUME survey' = survey
  PROVE  /\ Linked' = Linked /\ Calls' = Calls /\ Providers' = Providers /\ ProviderRepo' = ProviderRepo
         /\ Affected' = Affected /\ Concerned' = Concerned /\ OrderingEdges' = OrderingEdges
         /\ (Topological(kahn.order, kahn.ready, kahn.indegree)' <=>
               Topological(kahn'.order, kahn'.ready, kahn'.indegree))
<1>1. Linked' = Linked
  BY Zenon DEF Linked
<1>2. Calls' = Calls
  BY <1>1, Zenon DEF Calls
<1>3. Providers' = Providers
  BY Zenon DEF Providers
<1>4. ProviderRepo' = ProviderRepo
  BY <1>3, Zenon DEF ProviderRepo
<1>5. CrossReferences' = CrossReferences
  BY <1>1, <1>2, Zenon DEF CrossReferences
<1>6. Affected' = Affected
  BY <1>4, <1>5, Zenon DEF Affected, CallersOf
<1>7. Concerned' = Concerned
  BY <1>4, <1>6, Zenon DEF Concerned
<1>8. OrderingEdges' = OrderingEdges
  BY <1>5, <1>7, Zenon DEF OrderingEdges
<1>9. Topological(kahn.order, kahn.ready, kahn.indegree)' <=>
        Topological(kahn'.order, kahn'.ready, kahn'.indegree)
  BY <1>7, <1>8, Zenon DEF Topological, Incoming
<1>. QED  BY <1>1, <1>2, <1>3, <1>4, <1>6, <1>7, <1>8, <1>9, Zenon

\* What a plan is judged by.
SamePlanning ==
    /\ survey' = survey /\ Linked' = Linked /\ Calls' = Calls /\ ProviderRepo' = ProviderRepo
    /\ \A a, b : DependsOn(a, b)' <=> DependsOn(a, b)

\* It is the same as long as the survey is.
LEMMA PlanningStays == ASSUME survey' = survey PROVE SamePlanning
<1>1. \A a, b : DependsOn(a, b)' <=> DependsOn(a, b)
  BY Zenon DEF DependsOn
<1>. QED  BY <1>1, SameSurvey, Zenon DEF SamePlanning

\* Every step of Kahn's loop keeps the part of the plan there is in order.
LEMMA NextPlan == KahnInv /\ [PlanNext]_planVars => KahnInv'
<1>. SUFFICES ASSUME KahnInv, [PlanNext]_planVars PROVE KahnInv'
  BY Zenon
<1>a. survey \in Surveys /\ DOMAIN kahn = {"pc", "indegree", "ready", "order", "outcome"}
  BY Zenon DEF KahnInv
<1>1. CASE StartPlan
  <2>1. survey' = survey /\ kahn.pc = "load" /\ kahn.order = <<>> /\ kahn.outcome.kind = "none"
    BY <1>1, Zenon DEF StartPlan, KahnInv
  <2>. DEFINE counts == [r \in Concerned |-> Cardinality({x \in OrderingEdges : x.target = r})]
              first == InOrder({r \in Concerned : counts[r] = 0}, LAMBDA a, b : a < b)
  <2>2. \/ kahn' = [kahn EXCEPT !.pc = "done", !.outcome = [kind |-> "error"]]
        \/ /\ Providers # {} /\ Affected # {}
           /\ kahn' = [kahn EXCEPT !.pc = "sort", !.indegree = counts, !.ready = first]
    BY <1>1, Zenon DEF StartPlan
  <2>3. Providers # {} => Topological(<<>>, first, counts)
    BY <1>a, KahnStarts, Zenon
  <2>. HIDE DEF counts, first
  <2>4. \/ DOMAIN kahn' = DOMAIN kahn /\ kahn'.pc = "done" /\ kahn'.outcome = [kind |-> "error"]
        \/ /\ Providers # {} /\ Affected # {} /\ DOMAIN kahn' = DOMAIN kahn
           /\ kahn'.pc = "sort" /\ kahn'.indegree = counts /\ kahn'.ready = first /\ kahn'.order = <<>>
           /\ kahn'.outcome.kind = "none"
    BY <1>a, <2>1, <2>2, Zenon
  <2>. QED  BY <1>a, <2>1, <2>3, <2>4, SameSurvey DEF KahnInv, PlanMovesCallersFirst
<1>2. CASE PopReady
  <2>1. survey' = survey /\ kahn.pc = "sort" /\ kahn.ready # <<>> /\ kahn.outcome.kind = "none"
        /\ Providers # {} /\ Affected # {} /\ Topological(kahn.order, kahn.ready, kahn.indegree)
    BY <1>2, Zenon DEF PopReady, KahnInv
  <2>. DEFINE next == kahn.ready[Len(kahn.ready)]
              lowered == [r \in Concerned |-> kahn.indegree[r] - Cardinality(Between(next, r))]
              freed == {r \in Concerned : Between(next, r) # {} /\ lowered[r] = 0}
              listed == InOrder(freed, LAMBDA a, b : Position(a) < Position(b))
              longer == Append(kahn.order, next)
              rest == SubSeq(kahn.ready, 1, Len(kahn.ready) - 1) \o listed
  <2>2. kahn' = [kahn EXCEPT !.order = longer, !.indegree = lowered, !.ready = rest]
    BY <1>2, Zenon DEF PopReady
  <2>3. NoneTwice(listed, freed)
    <3>1. freed \subseteq Concerned
      BY Zenon
    <3>. HIDE DEF freed
    <3>2. freed \in SUBSET Linked /\ IsFiniteSet(freed)
      BY <1>a, <2>1, <3>1, ProviderIsLinked, FS_Subset, Zenon
    <3>. QED  BY <1>a, <3>2, ByPosition, Zenon
  <2>4. Topological(longer, rest, lowered)
    <3>. HIDE DEF listed, next, lowered
    <3>1. next = kahn.ready[Len(kahn.ready)]
      BY Zenon DEF next
    <3>2. lowered = [r \in Concerned |-> kahn.indegree[r] - Cardinality(Between(next, r))]
      BY Zenon DEF lowered
    <3>. QED  BY <1>a, <2>1, <2>3, <3>1, <3>2, KahnPops, ZenonT(60)
  <2>. HIDE DEF longer, rest, lowered
  <2>5. DOMAIN kahn' = DOMAIN kahn /\ kahn'.pc = kahn.pc /\ kahn'.outcome = kahn.outcome
        /\ kahn'.order = longer /\ kahn'.ready = rest /\ kahn'.indegree = lowered
    BY <1>a, <2>2, Zenon
  <2>. QED  BY <1>a, <2>1, <2>4, <2>5, SameSurvey, Zenon DEF KahnInv, PlanMovesCallersFirst
<1>3. CASE EndPlan
  <2>1. survey' = survey /\ kahn.pc = "sort"
        /\ Providers # {} /\ Affected # {} /\ Topological(kahn.order, kahn.ready, kahn.indegree)
    BY <1>3, Zenon DEF EndPlan, KahnInv
  <2>. DEFINE made == [i \in DOMAIN kahn.order |->
                 [repo |-> kahn.order[i], files |-> IF kahn.order[i] = ProviderRepo THEN {} ELSE CallerFiles(kahn.order[i])]]
  <2>2. DOMAIN kahn' = DOMAIN kahn /\ kahn'.pc = "done"
    BY <1>a, <1>3, Zenon DEF EndPlan
  <2>3. kahn'.outcome = IF Len(kahn.order) = Cardinality(Concerned)
                        THEN [kind |-> "plan", steps |-> made] ELSE [kind |-> "cycle", cycles |-> Cycles]
    BY <1>a, <1>3, Zenon DEF EndPlan
  <2>. HIDE DEF made
  <2>4. kahn'.outcome.kind = "plan" => Len(kahn.order) = Cardinality(Concerned) /\ kahn'.outcome.steps = made
    BY <2>3
  <2>5. ASSUME Len(kahn.order) = Cardinality(Concerned)
        PROVE  MovesCallersFirst(made)
    <3>1. made = [i \in DOMAIN kahn.order |->
                 [repo |-> kahn.order[i], files |-> IF kahn.order[i] = ProviderRepo THEN {} ELSE CallerFiles(kahn.order[i])]]
      BY Zenon DEF made
    <3>. QED  BY <1>a, <2>1, <2>5, <3>1, KahnEnds, Zenon
  <2>6. PlanMovesCallersFirst'
    <3>1. SamePlanning
      BY <2>1, PlanningStays, Zenon
    <3>2. ASSUME kahn'.outcome.kind = "plan" PROVE MovesCallersFirst(kahn'.outcome.steps)
      BY <2>4, <2>5, <3>2, Zenon
    <3>. QED  BY <3>1, <3>2, ZenonT(60) DEF SamePlanning, PlanMovesCallersFirst, MovesCallersFirst
  <2>. QED  BY <1>a, <2>1, <2>2, <2>6, Zenon DEF KahnInv
<1>4. CASE UNCHANGED planVars
  <2>1. survey' = survey /\ kahn' = kahn
    BY <1>4, Zenon DEF planVars
  <2>2. SamePlanning
    BY <2>1, PlanningStays, Zenon
  <2>3. PlanMovesCallersFirst'
    BY <2>1, <2>2, ZenonT(60) DEF SamePlanning, KahnInv, PlanMovesCallersFirst
  <2>. QED  BY <1>a, <2>1, <2>3, SameSurvey, Zenon DEF KahnInv
<1>. QED  BY <1>1, <1>2, <1>3, <1>4, Zenon DEF PlanNext

\* A migration plan lists every repository that calls the deprecated symbol, with
\* the files that do, before the provider, and none after one that it depends on,
\* for any number of linked repositories and any calls among them.
THEOREM PlansMoveCallersFirst == PlanSpec => []PlanMovesCallersFirst
<1>1. PlanInit => KahnInv
  BY DEF PlanInit, NotPlanned, KahnInv, PlanMovesCallersFirst
<1>2. KahnInv => PlanMovesCallersFirst
  BY Zenon DEF KahnInv
<1>. QED  BY <1>1, <1>2, NextPlan, PTL DEF PlanSpec
===============================================================================
