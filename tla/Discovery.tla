----------------------------- MODULE Discovery ------------------------------
(***************************************************************************)
(* harness/discovery.py: the dependency graph as the scan of a repository  *)
(* builds it, and what the impact analysis on it is worth.  The repository *)
(* is edited line by line and scanned after each edit, as refresh_graph    *)
(* does before every call that analyses impact.                            *)
(*                                                                         *)
(* A node is a pair <<kind, name>>.  Some lines open a block that is a     *)
(* node of its own and belongs to the file; the lines of the block tie     *)
(* that node to what they mention.  infra_manifest.yml declares services   *)
(* outside the repository: each is a node without a file, tied to any node *)
(* it names, which may be one of kind "path", whose identifier is a path.  *)
(***************************************************************************)
EXTENDS ImpactAnalyzer

CONSTANTS Blocks,     \* <<f, n>>: a line of f may open (or f itself be) node n
          Lines,      \* the other lines the extractors recognise
          LastOf,     \* which of several files glob yields last
          Overlaps,   \* <<f, g>>: one of the paths f and g is part of the other
          NameEnds,   \* <<f, n>>: the identifier of the node n ends with f
          InfraManifest,  \* infra_manifest.yml
          Fragile     \* bound: the files that may become unreadable

BlockKinds == {"upstream", "service", "systemd", "script"}

\* What a line of each kind of block, or of the file itself, may mention.
NginxMentions == {<<"upstream", "socket">>, <<"upstream", "endpoint">>,
                  <<"config", "port">>, <<"config", "endpoint">>, <<"config", "upstream">>}
UnitMentions == {<<"service", "script">>, <<"service", "port">>, <<"service", "user">>,
                 <<"systemd", "user">>, <<"systemd", "env_file">>, <<"systemd", "binary">>}
ScriptMentions == {<<"script", "socket">>, <<"script", "port">>, <<"script", "group">>}
EnvMentions == {<<"config", "secret">>, <<"config", "port">>}

Mentions == NginxMentions \cup UnitMentions \cup ScriptMentions \cup EnvMentions

ASSUME DiscoveryAssumption ==
    /\ Blocks \subseteq Files \X Nodes
    /\ \A b \in Blocks : b[2][1] \in BlockKinds /\ b[1] # InfraManifest
    /\ Lines \subseteq [src : Nodes, dst : Nodes, file : Files]
    /\ \A l \in Lines :
          \/ l.file = InfraManifest /\ l.src[1] = "external"
          \/ /\ l.file # InfraManifest
             /\ <<l.src[1], l.dst[1]>> \in Mentions
             /\ l.src[1] = "config" => l.src = <<"config", l.file>>
    /\ DOMAIN LastOf = (SUBSET Files) \ {{}}
    /\ \A S \in (SUBSET Files) \ {{}} : LastOf[S] \in S
    /\ Overlaps \subseteq Files \X Files
    /\ \A f \in Files : <<Stripped[f], f>> \in Overlaps
    /\ NameEnds \subseteq Files \X Nodes
    /\ \A f \in Files : <<"config", f>> \in Nodes
                           => <<Stripped[f], <<"config", f>>>> \in NameEnds
    /\ InfraManifest \in Files
    /\ Fragile \subseteq Files

VARIABLES blocks,      \* the blocks the repository's files open
          lines,       \* the lines they hold
          unreadable,  \* the files whose text cannot be read or decoded
          graph        \* what discover_repository returns

repoVars == <<blocks, lines, unreadable>>
discoveryVars == <<repoVars, graph>>

\* The node of a script or of a unit exists before its text is read.
ScannedBlocks(bs, bad) ==
    {b \in bs : b[1] \notin bad \/ b[2][1] \in {"script", "systemd"}}

ScannedLines(ls, bad) == {l \in ls : l.file \notin bad}

\* add_node overwrites the file of a node that exists: the last scanned wins.
Owner(bs, n) ==
    LET owners == {f \in Files : <<f, n>> \in bs}
    IN  IF owners = {} THEN NoFile ELSE LastOf[owners]

\* Wrong: add_edge takes its two ends to be there.
NodesAdded(owners, tied) == {b[2] : b \in owners}

\* add_edge adds the ends of an edge that nothing has added.
FoundNodes(owners, tied) == {b[2] : b \in owners} \cup UNION {{l.src, l.dst} : l \in tied}

\* A target that is the identifier of a node selects that node alone.  Else it
\* selects the nodes whose file's path overlaps it or whose identifier ends
\* with it.
Selected(found, file, f) ==
    IF <<"path", f>> \in found
    THEN {<<"path", f>>}
    ELSE {n \in found : \/ file[n] # NoFile /\ <<f, file[n]>> \in Overlaps
                        \/ <<f, n>> \in NameEnds}

\* A file of declared topology that cannot be read is passed over in silence.
Discovered(bs, ls, bad) ==
    LET owners == ScannedBlocks(bs, bad)
        tied   == ScannedLines(ls, bad)
        found  == FoundNodes(owners, tied)
        file   == [n \in Nodes |-> Owner(owners, n)]
    IN  [nodes    |-> found,
         file     |-> file,
         edges    |-> tied,
         names    |-> UNION {{f} \X Selected(found, file, f) : f \in Files},
         failures |-> bad \ {InfraManifest}]

Rescan == graph' = Discovered(blocks', lines', unreadable')

-----------------------------------------------------------------------------
DiscoveryInit == /\ blocks = {}
                 /\ lines = {}
                 /\ unreadable = {}
                 /\ graph = Discovered({}, {}, {})

OpenBlock(b) ==
    /\ blocks' = blocks \cup {b}
    /\ UNCHANGED <<lines, unreadable>>
    /\ Rescan

CloseBlock(b) ==
    /\ blocks' = blocks \ {b}
    /\ lines' = {l \in lines : l.file # b[1] \/ l.src # b[2]}
    /\ UNCHANGED unreadable
    /\ Rescan

\* A line counts in its block only, or anywhere if it is about the file.
WriteLine(l) ==
    /\ l.src[1] \in BlockKinds => <<l.file, l.src>> \in blocks
    /\ lines' = lines \cup {l}
    /\ UNCHANGED <<blocks, unreadable>>
    /\ Rescan

EraseLine(l) ==
    /\ lines' = lines \ {l}
    /\ UNCHANGED <<blocks, unreadable>>
    /\ Rescan

\* Encoding or permissions: the file is there, reading it raises.
Garble(f) ==
    /\ unreadable' = IF f \in unreadable THEN unreadable \ {f} ELSE unreadable \cup {f}
    /\ UNCHANGED <<blocks, lines>>
    /\ Rescan

DiscoveryNext ==
    \/ \E b \in Blocks : OpenBlock(b) \/ CloseBlock(b)
    \/ \E l \in Lines : WriteLine(l) \/ EraseLine(l)
    \/ \E f \in Fragile : Garble(f)

DiscoverySpec == DiscoveryInit /\ [][DiscoveryNext]_discoveryVars

-----------------------------------------------------------------------------
(***************************************************************************)
(* The graph is well formed, and a line ties a node its own file opened or *)
(* the node of the file itself, or an external service.                    *)
(***************************************************************************)
DiscoveryTypeOK ==
    /\ blocks \subseteq Blocks
    /\ lines \subseteq Lines
    /\ unreadable \subseteq Fragile
    /\ graph \in Graph
    /\ \A l \in graph.edges :
          /\ {l.src, l.dst} \subseteq graph.nodes
          /\ l.src[1] \in BlockKinds => <<l.file, l.src>> \in blocks

\* No two files open a block of this name.
Unambiguous(n) == \A b, c \in blocks : b[2] = n /\ c[2] = n => b = c

Touches(e, n) == n \in {e.src, e.dst}

\* A node has the file's own path for its identifier, and hides the others.
Shadowed(f) == <<"path", Stripped[f]>> \in graph.nodes

(***************************************************************************)
(* Three rounds are enough (impact.py 99): a manifest the analysis lets    *)
(* through declares every file that is tied to one of its targets, however *)
(* long the chain.  Whatever a line of a target shares with another line   *)
(* (a socket, a script, an upstream, a user, an external service), or      *)
(* mentions of another file's, that file is declared as well, up to        *)
(* leading dots, unless names are ambiguous or the target is shadowed.     *)
(***************************************************************************)
AcceptedIsClosed ==
    \A targets \in SUBSET Files : ~ImpactGap(graph, targets) =>
        \A d \in graph.edges :
            (/\ d.file \in targets /\ d.file # InfraManifest
             /\ Unambiguous(d.src) /\ ~Shadowed(d.file)) =>
            \A n \in {d.src, d.dst} :
                /\ \A e \in graph.edges :
                      Touches(e, n) => Stripped[e.file] \in Declared(targets)
                /\ graph.file[n] # NoFile => Stripped[graph.file[n]] \in Declared(targets)

(***************************************************************************)
(* README.md 81: modifying "a shared backend port" while omitting a file   *)
(* that uses it is intercepted, as impact.py 96-97 says: no manifest that  *)
(* declares the file where a proxy names a port is let through without     *)
(* the file where the server binds it.                                     *)
(***************************************************************************)
PortsAreTied ==
    \A targets \in SUBSET Files : ~ImpactGap(graph, targets) =>
        \A d, e \in graph.edges :
            (/\ d.dst[1] = "endpoint" /\ d.file \in targets
             /\ e.dst[1] = "port" /\ e.src[1] \in {"script", "service"}
             /\ e.dst[2] = d.dst[2])
            => e.file \in targets
=============================================================================
