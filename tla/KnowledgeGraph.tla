--------------------------- MODULE KnowledgeGraph ---------------------------
(***************************************************************************)
(* The SQLite graph (graph.py) used by several processes, each with its    *)
(* own connection: graph_node and graph_edge are transactions of their     *)
(* own, so an edge is added by three of them, and the consolidation's      *)
(* orphan sweep selects in one and deletes in another.  graph_neighbors    *)
(* and graph_causal_chain are functions of the edges.                      *)
(***************************************************************************)
EXTENDS Naturals, Sequences, FiniteSets, FiniteSetsExt, SequencesExt, Functions

CONSTANTS
  Writers, Ids, Kinds,
  Backed,        \* ids with a fact, entity or live-note file
  MaxEdges, MaxCalls, MaxHops

VARIABLES
  nodes,         \* per id: its type, or "absent"
  edges,         \* rows in order of insertion: [from, rel, to]
  at,            \* per writer: the call under way and its next transaction
  calls,
  described,     \* history: per id, the type last given by graph_node
  raced,         \* history: a sweep, a kill or a second graph_edge met an unfinished graph_edge
  asked, told    \* the last traversal and its answer

gvars == <<nodes, edges, at, calls, described, raced, asked, told>>
Resting == [op |-> "none"]
Unasked == [kind |-> "none"]
Relations == {"caused_by", "resulted_in"}
RangeOf(s) == {s[i] : i \in DOMAIN s}

(* ---- traversals: breadth first, a node expanded once ---- *)
Rows(from, relations) == SelectSeq(edges, LAMBDA e : e.from = from /\ e.rel \in relations)
Step(row, next, depth) == [edge |-> row, next |-> next, depth |-> depth + 1]

\* graph_neighbors: marks a node when it takes it from the queue.
NeighborsOf(start, hops) ==
  LET queue[n \in Nat] ==    \* [queue, visited, results] after n nodes were taken
        IF n = 0 THEN [queue |-> <<<<start, 0>>>>, visited |-> {}, results |-> <<>>]
        ELSE LET s == queue[n - 1] IN
             IF s.queue = <<>> THEN s
             ELSE LET cur == Head(s.queue)[1]
                      depth == Head(s.queue)[2]
                      rows == Rows(cur, Relations)
                      steps == [i \in DOMAIN rows |-> Step(rows[i], rows[i].to, depth)]
                  IN IF cur \in s.visited \/ depth > hops THEN [s EXCEPT !.queue = Tail(@)]
                     ELSE [queue |-> Tail(s.queue) \o IF depth + 1 < hops THEN [i \in DOMAIN rows |-> <<rows[i].to, depth + 1>>] ELSE <<>>,
                           visited |-> s.visited \cup {cur}, results |-> s.results \o steps]
  IN queue[1 + Len(edges)].results

\* graph_causal_chain: the edges out of a node, or for "forward" its effects by either relation.
Causes(cur) == LET rows == Rows(cur, {"caused_by"})
               IN [i \in DOMAIN rows |-> [row |-> rows[i], next |-> rows[i].to]]
Effects_OneRelation(cur) ==
  LET rows == Rows(cur, {"resulted_in"})
  IN [i \in DOMAIN rows |-> [row |-> rows[i], next |-> rows[i].to]]
Effects(cur) ==
  LET forward == Rows(cur, {"resulted_in"})
      reverse == SelectSeq(edges, LAMBDA e : e.to = cur /\ e.rel = "caused_by")
  IN [i \in DOMAIN forward |-> [row |-> forward[i], next |-> forward[i].to]]
     \o [i \in DOMAIN reverse |-> [row |-> reverse[i], next |-> reverse[i].from]]
Fresh(found, visited) ==   \* the nodes of found not yet visited, each once, in order
  FoldLeft(LAMBDA acc, f : IF f.next \in visited \cup RangeOf(acc) THEN acc ELSE Append(acc, f.next), <<>>, found)
ChainOf(start, backward, hops) ==
  LET walk[n \in Nat] ==
        IF n = 0 THEN [queue |-> <<<<start, 0>>>>, visited |-> {start}, results |-> <<>>]
        ELSE LET s == walk[n - 1] IN
             IF s.queue = <<>> THEN s
             ELSE LET cur == Head(s.queue)[1]
                      depth == Head(s.queue)[2]
                      found == IF backward THEN Causes(cur) ELSE Effects(cur)
                      fresh == Fresh(found, s.visited)
                  IN IF depth >= hops THEN [s EXCEPT !.queue = Tail(@)]
                     ELSE [queue |-> Tail(s.queue) \o [i \in DOMAIN fresh |-> <<fresh[i], depth + 1>>],
                           visited |-> s.visited \cup RangeOf(fresh),
                           results |-> s.results \o [i \in DOMAIN found |-> Step(found[i].row, found[i].next, depth)]]
  IN IF hops < 1 THEN <<>> ELSE walk[Cardinality(Ids) + 1].results

-----------------------------------------------------------------------------
GInit ==
  /\ nodes = [i \in Ids |-> "absent"] /\ edges = <<>> /\ at = [w \in Writers |-> Resting] /\ calls = 0
  /\ described = [i \in Ids |-> "none"] /\ raced = FALSE /\ asked = Unasked /\ told = <<>>

Put(i, kind) == [nodes EXCEPT ![i] = kind]
EdgesUnderWay(w) == \E v \in Writers \ {w} : at[v].op = "edge"
SweepsUnderWay == \E v \in Writers : at[v].op = "sweep"

\* One transaction: an existing node takes the new type and label.
GraphNode(w, i, kind) ==
  /\ at[w] = Resting /\ calls < MaxCalls /\ calls' = calls + 1
  /\ nodes' = Put(i, kind) /\ described' = [described EXCEPT ![i] = kind]
  /\ asked' = Unasked /\ told' = <<>>
  /\ UNCHANGED <<edges, at, raced>>

Call(w, call) ==
  /\ at[w] = Resting /\ calls < MaxCalls /\ calls' = calls + 1
  /\ at' = [at EXCEPT ![w] = call] /\ asked' = Unasked /\ told' = <<>>
  /\ UNCHANGED <<nodes, edges, described>>
Go(w, step) == at' = [at EXCEPT ![w].step = step] /\ UNCHANGED <<calls, described, asked, told>>
Return(w) == at' = [at EXCEPT ![w] = Resting] /\ UNCHANGED <<calls, described, asked, told>>

(* ---- graph_edge: the two nodes, then the edge unless it is there ---- *)
GraphEdge(w, e) ==
  Call(w, [op |-> "edge", step |-> "from", edge |-> e]) /\ raced' = (raced \/ SweepsUnderWay \/ EdgesUnderWay(w))
FromNode(w) == /\ at[w].op = "edge" /\ at[w].step = "from"
               /\ nodes' = Put(at[w].edge.from, "entity") /\ Go(w, "to") /\ UNCHANGED <<edges, raced>>
ToNode(w) == /\ at[w].op = "edge" /\ at[w].step = "to"
             /\ nodes' = Put(at[w].edge.to, "entity") /\ Go(w, "dup") /\ UNCHANGED <<edges, raced>>
FindDuplicate_Never(w) == at[w].op = "edge" /\ at[w].step = "dup" /\ Go(w, "insert") /\ UNCHANGED <<nodes, edges, raced>>
\* The SELECT takes no lock that keeps another process from inserting.
FindDuplicate(w) ==
  /\ at[w].op = "edge" /\ at[w].step = "dup"
  /\ IF at[w].edge \in RangeOf(edges) THEN Return(w) ELSE Go(w, "insert")
  /\ UNCHANGED <<nodes, edges, raced>>
InsertEdge(w) ==
  /\ at[w].op = "edge" /\ at[w].step = "insert" /\ Len(edges) < MaxEdges
  /\ edges' = Append(edges, at[w].edge) /\ Return(w) /\ UNCHANGED <<nodes, raced>>

(* ---- _consolidate_orphans ---- *)
Linked(i) == \E n \in DOMAIN edges : i \in {edges[n].from, edges[n].to}
Orphans_Unbacked == {i \in Ids : nodes[i] # "absent" /\ i \notin Backed}
Orphans == {i \in Ids : nodes[i] # "absent" /\ ~Linked(i) /\ i \notin Backed}
SelectOrphans(w) ==
  /\ Orphans # {}
  /\ Call(w, [op |-> "sweep", step |-> "delete", ids |-> Orphans]) /\ raced' = (raced \/ EdgesUnderWay(w))
DeleteOrphans(w) ==
  /\ at[w].op = "sweep"
  /\ nodes' = [i \in Ids |-> IF i \in at[w].ids THEN "absent" ELSE nodes[i]]
  /\ Return(w) /\ UNCHANGED <<edges, raced>>

\* A process dies, or its statement fails (a node inserted twice, a locked database).
KillWriter(w) == at[w] # Resting /\ raced' = TRUE /\ Return(w) /\ UNCHANGED <<nodes, edges>>

Ask(q, answer) == /\ \A w \in Writers : at[w] = Resting
                  /\ asked = Unasked /\ asked' = q /\ told' = answer
                  /\ UNCHANGED <<nodes, edges, at, calls, described, raced>>
GraphNeighbors(i, hops) == Ask([kind |-> "neighbors", start |-> i, hops |-> hops], NeighborsOf(i, hops))
GraphCausalChain(i, back, hops) ==
  Ask([kind |-> IF back THEN "backward" ELSE "forward", start |-> i, hops |-> hops], ChainOf(i, back, hops))

GNext ==
  \/ \E w \in Writers :
       \/ \E i \in Ids, k \in Kinds : GraphNode(w, i, k)
       \/ \E e \in [from : Ids, rel : Relations, to : Ids] : GraphEdge(w, e)
       \/ FromNode(w) \/ ToNode(w) \/ FindDuplicate(w) \/ InsertEdge(w)
       \/ SelectOrphans(w) \/ DeleteOrphans(w) \/ KillWriter(w)
  \/ \E i \in Ids, hops \in 0..MaxHops : GraphNeighbors(i, hops) \/ \E b \in BOOLEAN : GraphCausalChain(i, b, hops)
GSpec == GInit /\ [][GNext]_gvars

-----------------------------------------------------------------------------
\* Without a race every edge is there once and joins two nodes, and a node that is
\* linked or has a file is not swept away.
GraphIsWhole ==
  ~raced => /\ \A m, n \in DOMAIN edges : edges[m] = edges[n] => m = n
            /\ \A n \in DOMAIN edges : nodes[edges[n].from] # "absent" /\ nodes[edges[n].to] # "absent"
            /\ \A i \in Backed : described[i] # "none" => nodes[i] # "absent"

\* Distance from the start along a relation, by growing the set of nodes reached.
Within(next(_), start, n) == LET grow[k \in 0..n] == IF k = 0 THEN {start} ELSE grow[k - 1] \cup UNION {next(i) : i \in grow[k - 1]}
                             IN grow[n]
Targets(i) == {e.to : e \in {f \in RangeOf(edges) : f.from = i}}
CausesOf(i) == {e.to : e \in {f \in RangeOf(edges) : f.from = i /\ f.rel = "caused_by"}}
EffectsOf(i) == {j \in Ids : (\E e \in RangeOf(edges) : e = [from |-> i, rel |-> "resulted_in", to |-> j])
                             \/ i \in CausesOf(j)}
\* A traversal tells exactly what lies within its hops, each at its least depth or,
\* on a cycle, one step beyond a node already told.
TraversalsReachTheirHops ==
  LET Tells(next(_), hops) ==
        /\ {told[n].next : n \in DOMAIN told} = UNION {next(i) : i \in Within(next, asked.start, hops - 1)}
        /\ \A n \in DOMAIN told : \E i \in Within(next, asked.start, told[n].depth - 1) : told[n].next \in next(i)
        /\ \A n \in DOMAIN told : told[n].depth \in 1..hops
  IN CASE asked.kind = "neighbors" /\ asked.hops > 0 -> Tells(Targets, asked.hops)
       [] asked.kind = "backward" /\ asked.hops > 0 -> Tells(CausesOf, asked.hops)
       [] asked.kind = "forward" /\ asked.hops > 0 -> Tells(EffectsOf, asked.hops)
       [] OTHER -> TRUE

\* "Auto-creates nodes if missing" (graph.py:376): a node that was described keeps its type.
DescribedNodesKeepTheirType == \A i \in Ids : nodes[i] # "absent" /\ described[i] # "none" => nodes[i] = described[i]
=============================================================================
