-------------------------------- MODULE Tarjan --------------------------------
(***************************************************************************)
(* tarjan_scc (crates/weave-graph-core/src/federation.rs), which groups the*)
(* circular dependencies of two linked repositories: Tarjan's algorithm    *)
(* with the recursion unrolled into a stack of positions.  One step is one *)
(* turn of the loop in strong_connect.                                     *)
(***************************************************************************)
EXTENDS Naturals, Sequences, FiniteSets

CONSTANTS N,           \* the nodes are 1..N, in the order tarjan_scc is given them
          Adjacencies  \* possible adjacency lists: node -> sequence of nodes

ASSUME TarjanAssumption == N \in Nat /\ Adjacencies \subseteq [1..N -> Seq(1..N)]

VARIABLES adjacency,
          number,      \* `index`: the number a node was discovered with
          lowlink,
          stack,
          todo,        \* `work`: nodes to continue with, each with its next neighbour
          components   \* `result`
tarjanVars == <<adjacency, number, lowlink, stack, todo, components>>

Node == 1..N
Least(S) == CHOOSE x \in S : \A y \in S : x <= y
Top == todo[Len(todo)]
Entries(s) == {s[i] : i \in DOMAIN s}

TarjanInit ==
    /\ adjacency \in Adjacencies
    /\ number = [n \in Node |-> 0] /\ lowlink = [n \in Node |-> 0]   \* 0: not discovered
    /\ stack = <<>> /\ todo = <<>> /\ components = {}

\* tarjan_scc: the next node that has no number starts a search.
Start ==
    /\ todo = <<>>
    /\ \E n \in Node : number[n] = 0
    /\ todo' = << [node |-> Least({n \in Node : number[n] = 0}), next |-> 0] >>
    /\ UNCHANGED <<adjacency, number, lowlink, stack, components>>

\* The numbers and the stack once the top of the work list has been entered.
Entered == IF Top.next = 0 THEN [number EXCEPT ![Top.node] = Cardinality({n \in Node : number[n] # 0}) + 1] ELSE number
StackNow == IF Top.next = 0 THEN Append(stack, Top.node) ELSE stack

\* The neighbours from the next one on that are not discovered, and the lowlink
\* after the neighbours before the first of them: one on the stack lowers it.
Unseen == {i \in Top.next + 1..Len(adjacency[Top.node]) : Entered[adjacency[Top.node][i]] = 0}
Scanned == Top.next + 1..(IF Unseen = {} THEN Len(adjacency[Top.node]) ELSE Least(Unseen) - 1)
\* Mutant form: a discovered neighbour lowers the link, on the stack or not.
LoweredAnyway ==
    Least({IF Top.next = 0 THEN Entered[Top.node] ELSE lowlink[Top.node]}
          \cup {Entered[w] : w \in {adjacency[Top.node][i] : i \in Scanned}})

Lowered ==
    Least({IF Top.next = 0 THEN Entered[Top.node] ELSE lowlink[Top.node]}
          \cup {Entered[w] : w \in {adjacency[Top.node][i] : i \in Scanned} \cap Entries(StackNow)})

\* An undiscovered neighbour is searched first; the node waits below it.
Descend ==
    /\ todo # <<>> /\ Unseen # {}
    /\ todo' = Append([todo EXCEPT ![Len(todo)].next = Least(Unseen)],
                      [node |-> adjacency[Top.node][Least(Unseen)], next |-> 0])
    /\ number' = Entered /\ stack' = StackNow
    /\ lowlink' = [lowlink EXCEPT ![Top.node] = Lowered]
    /\ UNCHANGED <<adjacency, components>>

\* All neighbours are done: the node below learns the lowlink, and a node that is
\* its own lowlink takes its component off the stack.
Retreat ==
    LET v == Top.node
        below == SubSeq(todo, 1, Len(todo) - 1)
        p == below[Len(below)].node
        at == CHOOSE i \in DOMAIN StackNow : StackNow[i] = v
        own == [lowlink EXCEPT ![v] = Lowered]
    IN /\ todo # <<>> /\ Unseen = {}
       /\ todo' = below
       /\ number' = Entered
       /\ lowlink' = IF below = <<>> THEN own ELSE [own EXCEPT ![p] = Least({own[p], own[v]})]
       /\ IF Lowered = Entered[v]
          THEN /\ components' = components \cup {{StackNow[i] : i \in at..Len(StackNow)}}
               /\ stack' = SubSeq(StackNow, 1, at - 1)
          ELSE stack' = StackNow /\ UNCHANGED components
       /\ UNCHANGED adjacency

TarjanNext == Start \/ Descend \/ Retreat
TarjanSpec == TarjanInit /\ [][TarjanNext]_tarjanVars

-----------------------------------------------------------------------------
(* Properties.                                                             *)

Finished == todo = <<>> /\ \A n \in Node : number[n] # 0

\* What the edges lead to, from a node: all that every closed set it is in holds.
Successors(n) == {adjacency[n][i] : i \in DOMAIN adjacency[n]}
Closed(S) == \A n \in S : Successors(n) \subseteq S
LeadsTo(m, n) == \A S \in SUBSET Node : m \in S /\ Closed(S) => n \in S
Together(m, n) == LeadsTo(m, n) /\ LeadsTo(n, m)

\* A group is final when it is reported: it is a whole strongly connected
\* component, although the search of other nodes goes on; and when the search is
\* over every node is in one (federation.rs:61, 93).
GroupsAreComponents ==
    /\ Finished => UNION components = Node
    /\ \A c \in components : c # {} /\ \A m \in c, n \in Node : (n \in c) = Together(m, n)
=============================================================================
