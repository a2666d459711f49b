--------------------------- MODULE ImpactAnalyzer ---------------------------
(***************************************************************************)
(* harness/graph.py and harness/impact.py: what a change to some files can *)
(* reach in the dependency graph discovered from the repository, and       *)
(* whether a manifest's targets leave part of it undeclared.               *)
(*                                                                         *)
(* A graph is a record                                                     *)
(*   nodes    : the discovered nodes                                       *)
(*   file     : the "file" attribute of each node, NoFile if it has none   *)
(*   edges    : [src, dst, file], file being the edge's evidence           *)
(*   names    : pairs <<f, n>>: the stripped path f selects the node n     *)
(*              (the string comparisons of compute_blast_radius)           *)
(*   failures : the files the discovery could not parse                    *)
(***************************************************************************)
EXTENDS Paths

CONSTANTS Nodes,      \* node identifiers of the dependency graph
          NoFile      \* a node or an edge without a file

ASSUME NoFileAssumption == NoFile \notin Files

Graph == [nodes    : SUBSET Nodes,
          file     : [Nodes -> Files \cup {NoFile}],
          edges    : SUBSET [src : Nodes, dst : Nodes, file : Files \cup {NoFile}],
          names    : SUBSET (Files \X Nodes),
          failures : SUBSET Files]

EdgesAt(g, n) == {e \in g.edges : n \in {e.src, e.dst}}

\* One round of traverse: the nodes of S and their neighbours on both sides.
Spread(g, S) ==
    UNION {{n} \cup UNION {{e.src, e.dst} : e \in EdgesAt(g, n)} : n \in S}

\* Wrong: the walk stops after one round.
TraverseOnce(g, start) ==
    [visited |-> Spread(g, start), edges |-> UNION {EdgesAt(g, n) : n \in start}]

(***************************************************************************)
(* traverse, with the three rounds verify_manifest_impact asks for: a      *)
(* round walks the edges of the nodes seen so far.  The code walks those   *)
(* of the last frontier only, the others having been walked before.        *)
(***************************************************************************)
Traverse(g, start) ==
    LET near == Spread(g, Spread(g, start))
    IN  [visited |-> Spread(g, near), edges |-> UNION {EdgesAt(g, n) : n \in near}]

\* Wrong: each target's nodes replace those of the target before.
StartNodesOfOne(g, targets) ==
    {n \in g.nodes : /\ targets # {}
                     /\ <<CHOOSE f \in Declared(targets) : TRUE, n>> \in g.names}

\* Wrong: a target selects by its name as it is written, dots included.
StartNodesAsWritten(g, targets) ==
    {n \in g.nodes : \E f \in targets : <<f, n>> \in g.names}

\* The nodes the targets select.  A target that selects none becomes a fresh
\* isolated node whose file is the target itself, so it reaches nothing else.
StartNodes(g, targets) ==
    {n \in g.nodes : \E f \in Declared(targets) : <<f, n>> \in g.names}

Unmatched(g, targets) ==
    {f \in Declared(targets) : \A n \in g.nodes : <<f, n>> \notin g.names}

AffectedFiles(g, targets) ==
    LET t == Traverse(g, StartNodes(g, targets))
    IN  (   {g.file[n] : n \in t.visited}
         \cup {e.file : e \in t.edges}
         \cup Unmatched(g, targets)) \ {NoFile}

\* Wrong: the files are compared as they are written, dots included.
MissingAsWritten(g, targets) == AffectedFiles(g, targets) \ Declared(targets)

\* missing_dependents: names as the agent is told them.
Missing(g, targets) == Declared(AffectedFiles(g, targets)) \ Declared(targets)

\* The declared targets that failed to parse.
Unparsable(g, targets) == Declared(g.failures) \cap Declared(targets)

\* Wrong: any file that failed to parse counts.
GapOnAnyFailure(g, targets) == g.failures # {} \/ Missing(g, targets) # {}

\* verify_manifest_impact returns False: a target failed to parse, or the
\* blast radius holds a file that is not declared.
ImpactGap(g, targets) == Unparsable(g, targets) # {} \/ Missing(g, targets) # {}
=============================================================================
