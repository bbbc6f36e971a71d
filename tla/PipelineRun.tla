---------------------------- MODULE PipelineRun ----------------------------
(***************************************************************************)
(* Building and running a pipeline (apps/pipelines/graph.py, nodes/base.py,*)
(* build_state.py).  The build checks the stored graph for cycles, for the *)
(* reachability of End and for edges on handles that no longer exist; the  *)
(* run goes in supersteps as langgraph does: all nodes that were routed to *)
(* run on the same state, then their updates are applied one after the     *)
(* other.  What a node gets as input is found again in the recorded path.  *)
(*                                                                         *)
(* Nodes are numbers, Start 0 and End the last, so that forward edges lead *)
(* to greater numbers; the graphs are those over the edges `Drawable`.     *)
(* Start, End and what is neither a router nor a code node just run.       *)
(***************************************************************************)
EXTENDS Naturals, FiniteSets, Sequences

CONSTANTS
  NumMiddle,  \* how many nodes between Start and End
  Routers,    \* those that choose one of their handles
  Codes,      \* those that run Python: they may wait for another input, or abort
  Handles,    \* what each router offers
  OddEdges    \* whether edges that only a write past the editor makes occur

ASSUME GraphAssumption ==
  /\ NumMiddle \in Nat \ {0} /\ Routers \cup Codes \subseteq 1..NumMiddle
  /\ Routers \cap Codes = {} /\ OddEdges \in BOOLEAN /\ Handles \cap {"output", "gone"} = {}

VARIABLES
  edges,    \* of the stored graph
  phase,    \* "stored", then "rejected" or "running", then how the run ended
  ready,    \* the nodes of the next superstep
  path,     \* who ran, and where it routed to
  outputs,  \* how many outputs of each node there are
  steps,
  delivered,  \* history: per node, the outputs routed to it, as [node, run]
  waited      \* history: a code node has waited

graphVars == <<edges, phase, ready, path, outputs, steps, delivered, waited>>

Start == 0
End == NumMiddle + 1
GraphNodes == Start..End
Plain == GraphNodes \ (Routers \cup Codes)
Offered(n) == IF n \in Routers THEN Handles ELSE {}

\* Forward edges, one edge back, an edge on a handle that is gone, one out of a router's default output.
Drawable ==
  {e \in [source : GraphNodes \ {End}, handle : {"output"}, target : GraphNodes \ {Start}] :
     e.source < e.target /\ e.source \notin Routers}
  \cup {e \in [source : Routers, handle : Handles, target : GraphNodes] : e.source < e.target}
  \cup {e \in [source : {NumMiddle}, handle : {"output"}, target : {1}] : NumMiddle \notin Routers}
  \cup (IF OddEdges THEN [source : Routers, handle : {"output", "gone"}, target : {End}] ELSE {})

IsConditional(e) == e.handle # "output"
Out(n) == {e \in edges : e.source = n}
Targets(es) == {e.target : e \in es}
Successors(n) == Targets(Out(n))

-----------------------------------------------------------------------------
(* The build. *)

\* Where the search of _check_for_cycles is: what it knows of the nodes, and the calls of dfs that
\* have not returned.
Searches == [state : [GraphNodes -> {"unvisited", "visiting", "visited"}], stack : Seq(GraphNodes)]
Visit(s, n) == [state |-> [s.state EXCEPT ![n] = "visiting"], stack |-> Append(s.stack, n)]
Return(s) == [state |-> [s.state EXCEPT ![s.stack[Len(s.stack)]] = "visited"],
              stack |-> SubSeq(s.stack, 1, Len(s.stack) - 1)]

\* Mutant: only what Start leads to is searched.
NextFromStart(s) == IF s.stack = <<>> THEN {Start} ELSE Successors(s.stack[Len(s.stack)])

\* What is looked at next: the nodes with edges, or those that the node being visited leads to.
NextNodes(s) == IF s.stack = <<>> THEN {e.source : e \in edges} ELSE Successors(s.stack[Len(s.stack)])

FindsCycle[s \in Searches] ==
  LET left == {n \in NextNodes(s) : s.state[n] # "visited"}
      n == CHOOSE n \in left : TRUE
  IN  IF left = {} THEN s.stack # <<>> /\ FindsCycle[Return(s)]
      ELSE s.state[n] = "visiting" \/ FindsCycle[Visit(s, n)]

HasCycle == FindsCycle[[state |-> [n \in GraphNodes |-> "unvisited"], stack |-> <<>>]]

\* _get_reachable_nodes: only asked once there is no cycle, else it would not end.
ReachableFrom[n \in GraphNodes] == {n} \cup UNION {ReachableFrom[m] : m \in Successors(n)}

Stranded ==
  {e \in edges : IsConditional(e) /\ e.source \in ReachableFrom[Start] /\ e.handle \notin Offered(e.source)}

\* build_errors: what presupposes another check comes after it.
BuildFails == HasCycle \/ End \notin ReachableFrom[Start] \/ Stranded # {}

Builds ==
  /\ phase = "stored"
  /\ phase' = IF BuildFails THEN "rejected" ELSE "running"
  /\ ready' = IF BuildFails THEN {} ELSE {Start}
  /\ UNCHANGED <<edges, path, outputs, steps, delivered, waited>>

\* unwired_handles: outputs without an edge.
\* Mutant: a router's branches are not looked at.
HandlesOfPlain(n) == IF n = End \/ n \in Routers THEN {} ELSE {"output"}

HandlesOf(n) ==
  IF n = End THEN {} ELSE IF n \in Routers THEN Handles ELSE {"output"}
Unwired == {n \in GraphNodes : \E h \in HandlesOf(n) : \A e \in Out(n) : e.handle # h}

-----------------------------------------------------------------------------
(* The run. *)

Incoming(n) == {e.source : e \in {x \in edges : x.target = n}}

\* The numbers of I in their order.
InOrder(I) == [k \in 1..Cardinality(I) |-> CHOOSE i \in I : Cardinality({j \in I : j <= i}) = k]

\* How often the node of entry i of the path had run before.
RunIndex(i) == Cardinality({j \in 1..(i - 1) : path[j].node = path[i].node})

\* Mutant: only the runs that routed to n are counted.
NodeInputsCountedByTarget(n) ==
  LET hits == InOrder({i \in DOMAIN path : path[i].node \in Incoming(n) /\ n \in path[i].targets})
  IN  [k \in 1..Len(hits) |->
        [node |-> path[hits[k]].node,
         run |-> Cardinality({j \in 1..k : path[hits[j]].node = path[hits[k]].node})]]

\* get_node_inputs: the outputs of the incoming nodes' runs that routed here, in the order of the path.
NodeInputs(n) ==
  LET hits == InOrder({i \in DOMAIN path : /\ path[i].node \in Incoming(n) /\ n \in path[i].targets
                                           /\ RunIndex(i) < outputs[path[i].node]})
  IN  [k \in 1..Len(hits) |-> [node |-> path[hits[k]].node, run |-> RunIndex(hits[k]) + 1]]

\* What a node can do in a run: route to the targets recorded in the path, and be followed by those
\* that langgraph runs next.  The default output of a router is an edge of its own for langgraph.
\* Of several edges on one handle any may be the last stored, which is the one that counts.
Outcomes(n) ==
  IF n \in Plain THEN {[kind |-> "output", targets |-> Successors(n), next |-> Successors(n)]}
  ELSE IF n \in Codes
  THEN {[kind |-> "output", targets |-> Successors(n), next |-> Successors(n)],
        [kind |-> "wait", targets |-> {}, next |-> {}],
        [kind |-> "abort", targets |-> {}, next |-> {}]}
  ELSE LET always == Targets({e \in Out(n) : ~IsConditional(e)})
           to(h) == Targets({e \in Out(n) : e.handle = h})
       IN  UNION {IF to(h) = {} THEN {[kind |-> "output", targets |-> {}, next |-> always]}
                  ELSE {[kind |-> "output", targets |-> {t}, next |-> {t} \cup always] : t \in to(h)}
                  : h \in Handles}

\* A node that finds no input raises, which ends the run.
Starved == \E n \in ready \ {Start} : NodeInputs(n) = <<>>

Running(o) == {n \in ready : o[n].kind = "output"}
Ran(o) == InOrder(Running(o))
Followers(o) == UNION {o[n].next : n \in Running(o)}

Superstep ==
  /\ phase = "running" /\ ready # {} /\ ~Starved
  /\ \E o \in [ready -> UNION {Outcomes(n) : n \in ready}] :
       /\ \A n \in ready : o[n] \in Outcomes(n)
       /\ steps' = steps + 1
       /\ waited' = (waited \/ \E n \in ready : o[n].kind = "wait")
       /\ path' = path \o [i \in 1..Len(Ran(o)) |-> [node |-> Ran(o)[i], targets |-> o[Ran(o)[i]].targets]]
       /\ outputs' = [n \in GraphNodes |-> outputs[n] + (IF n \in Running(o) THEN 1 ELSE 0)]
       /\ delivered' = [m \in GraphNodes |-> delivered[m] \o
            LET from == InOrder({n \in Running(o) : m \in o[n].next})
            IN  [i \in 1..Len(from) |-> [node |-> from[i], run |-> outputs[from[i]] + 1]]]
       /\ IF \E n \in ready : o[n].kind = "abort"
          THEN ready' = {} /\ phase' = "aborted"
          ELSE ready' = Followers(o) /\ phase' = IF Followers(o) = {} THEN "ended" ELSE "running"
  /\ UNCHANGED edges

Starves ==
  /\ phase = "running" /\ Starved
  /\ phase' = "failed" /\ ready' = {}
  /\ UNCHANGED <<edges, path, outputs, steps, delivered, waited>>

GraphStart(drawn) ==
  /\ edges = drawn /\ phase = "stored" /\ ready = {} /\ path = <<>> /\ steps = 0 /\ waited = FALSE
  /\ outputs = [n \in GraphNodes |-> 0]
  /\ delivered = [n \in GraphNodes |-> <<>>]

GraphInit == \E drawn \in SUBSET Drawable : GraphStart(drawn)
GraphNext == Builds \/ Superstep \/ Starves
GraphSpec == GraphInit /\ [][GraphNext]_graphVars

-----------------------------------------------------------------------------
(* Properties. *)

\* A node finds exactly the outputs that were routed to it, in their order, however often it and
\* the nodes before it ran.  The default output of a router is the exception: the build accepts an
\* edge there, and langgraph follows it, but the path does not record it.
InputsArrive ==
  phase = "running" =>
    \A n \in ready \ {Start} :
      NodeInputs(n) = delivered[n]
      \/ \E e \in edges : e.source \in Routers /\ ~IsConditional(e) /\ e.target = n

\* The build rejects a graph if some nodes all lead to one another, if a set of nodes closed under
\* the edges has Start but not End, or if a reachable edge is on a handle that is gone.
VerdictIsRight ==
  phase # "stored" =>
    LET closed == {s \in SUBSET GraphNodes : Start \in s /\ \A e \in edges : e.source \in s => e.target \in s}
        circle == \E s \in (SUBSET GraphNodes) \ {{}} : \A n \in s : Successors(n) \cap s # {}
        gone == \E e \in edges : e.handle # "output" /\ e.handle \notin Offered(e.source)
                                 /\ \A s \in closed : e.source \in s
    IN  (phase = "rejected") <=> (circle \/ gone \/ \E s \in closed : End \notin s)

\* A run of an accepted graph takes no more supersteps than there are nodes.
RunsAreShort == steps <= Cardinality(GraphNodes)

\* A graph without unwired handles leads to End unless Python waits or aborts.
RunsReachEnd == phase = "ended" /\ ~waited /\ Unwired = {} => outputs[End] > 0

\* The build and the runs together.
PipelinesRunRight == VerdictIsRight /\ RunsAreShort /\ RunsReachEnd
=============================================================================
