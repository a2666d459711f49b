-------------------------- MODULE DiscoveryProofs ---------------------------
(***************************************************************************)
(* Proofs about Discovery: the depth of the blast radius suffices for      *)
(* every repository, of any size and with chains of any length.            *)
(***************************************************************************)
EXTENDS Discovery, TLAPS

\* A round forgets nothing and reaches both ends of every edge it walks.
LEMMA SpreadGrows ==
    ASSUME NEW g, NEW S
    PROVE  /\ S \subseteq Spread(g, S)
           /\ \A e \in g.edges : {e.src, e.dst} \cap S # {} =>
                 {e.src, e.dst} \subseteq Spread(g, S)
BY DEF Spread, EdgesAt

\* The traversal reaches both ends of an edge it starts from, and every edge
\* at either end.
LEMMA TraverseReachesNeighbours ==
    ASSUME NEW g, NEW S, NEW d \in g.edges, d.src \in S,
           NEW n \in {d.src, d.dst}
    PROVE  /\ n \in Traverse(g, S).visited
           /\ \A e \in g.edges : Touches(e, n) => e \in Traverse(g, S).edges
<1> DEFINE near == Spread(g, Spread(g, S))
<1>1. n \in Spread(g, S)
  BY SpreadGrows
<1>2. n \in near
  BY <1>1, SpreadGrows
<1>3. n \in Spread(g, near)
  BY <1>2, SpreadGrows
<1>4. \A e \in g.edges : Touches(e, n) => e \in UNION {EdgesAt(g, m) : m \in near}
  BY <1>2 DEF EdgesAt, Touches
<1> QED BY <1>3, <1>4 DEF Traverse

\* Each affected file is declared, up to leading dots.
LEMMA NothingMissing ==
    ASSUME NEW g, NEW targets, ~ImpactGap(g, targets),
           NEW f \in AffectedFiles(g, targets)
    PROVE  Stripped[f] \in Declared(targets)
BY DEF ImpactGap, Missing, Declared

\* What a manifest the analysis lets through declares around one of its edges.
LEMMA CoveredNeighbours ==
    ASSUME NEW g, NEW targets, ~ImpactGap(g, targets),
           NEW d \in g.edges, d.file \in targets,
           d.src \in g.nodes, <<Stripped[d.file], d.src>> \in g.names,
           NEW n \in {d.src, d.dst}
    PROVE  /\ \A e \in g.edges : (Touches(e, n) /\ e.file # NoFile)
                 => Stripped[e.file] \in Declared(targets)
           /\ g.file[n] # NoFile => Stripped[g.file[n]] \in Declared(targets)
<1>1. d.src \in StartNodes(g, targets)
  BY DEF StartNodes, Declared
<1> DEFINE t == Traverse(g, StartNodes(g, targets))
<1>2. n \in t.visited /\ \A e \in g.edges : Touches(e, n) => e \in t.edges
  BY <1>1, TraverseReachesNeighbours
<1>3. /\ \A m \in t.visited : g.file[m] # NoFile => g.file[m] \in AffectedFiles(g, targets)
      /\ \A e \in t.edges : e.file # NoFile => e.file \in AffectedFiles(g, targets)
  BY DEF AffectedFiles
<1> QED BY <1>2, <1>3, NothingMissing

-----------------------------------------------------------------------------
(* The scan keeps to the repository.                                       *)

RepoOK == /\ blocks \subseteq Blocks
          /\ lines \subseteq Lines
          /\ unreadable \subseteq Fragile
          /\ \A l \in lines : l.src[1] \in BlockKinds => <<l.file, l.src>> \in blocks

\* The inductive invariant: the graph is that of the repository as it is.
ScanOK == RepoOK /\ graph = Discovered(blocks, lines, unreadable)

LEMMA OwnerType ==
    ASSUME NEW bs, NEW n
    PROVE  Owner(bs, n) \in Files \cup {NoFile}
<1> DEFINE owners == {f \in Files : <<f, n>> \in bs}
<1>1. CASE owners = {}
  BY <1>1 DEF Owner
<1>2. CASE owners # {}
  <2>1. owners \in (SUBSET Files) \ {{}}
    BY <1>2
  <2>2. LastOf[owners] \in Files
    BY <2>1, DiscoveryAssumption
  <2> QED BY <1>2, <2>2 DEF Owner
<1> QED BY <1>1, <1>2

LEMMA ScannedWellFormed ==
    ASSUME ScanOK
    PROVE  DiscoveryTypeOK
<1> USE DEF ScanOK, RepoOK
<1> DEFINE owners == ScannedBlocks(blocks, unreadable)
           tied == ScannedLines(lines, unreadable)
           found == {b[2] : b \in owners} \cup UNION {{l.src, l.dst} : l \in tied}
           file == [n \in Nodes |-> Owner(owners, n)]
<1>1. /\ graph.edges = tied /\ tied \subseteq lines
      /\ graph.nodes = found /\ graph.file = file
  BY DEF FoundNodes, Discovered, ScannedLines
<1>2. \A l \in Lines : l.src \in Nodes /\ l.dst \in Nodes /\ l.file \in Files
  BY DiscoveryAssumption
<1>3. graph \in Graph
  <2>1. file \in [Nodes -> Files \cup {NoFile}]
    BY OwnerType
  <2>2. tied \subseteq [src : Nodes, dst : Nodes, file : Files \cup {NoFile}]
    BY <1>1, DiscoveryAssumption
  <2>3. found \subseteq Nodes
    <3>1. \A b \in owners : b[2] \in Nodes
      BY DiscoveryAssumption DEF ScannedBlocks
    <3> QED BY <1>1, <1>2, <3>1
  <2>4. UNION {{f} \X Selected(found, file, f) : f \in Files} \subseteq Files \X Nodes
    <3> HIDE DEF found, file
    <3> SUFFICES ASSUME NEW s \in UNION {{f} \X Selected(found, file, f) : f \in Files}
                 PROVE  s \in Files \X Nodes
      OBVIOUS
    <3>1. PICK f \in Files : s \in {f} \X Selected(found, file, f)
      BY Zenon
    <3>2. Selected(found, file, f) \subseteq Nodes
      BY <2>3 DEF Selected
    <3> QED BY <3>1, <3>2
  <2>5. unreadable \ {InfraManifest} \subseteq Files
    BY DiscoveryAssumption
  <2> QED BY <2>1, <2>2, <2>3, <2>4, <2>5 DEF FoundNodes, Discovered, Graph
<1>4. \A l \in graph.edges : {l.src, l.dst} \subseteq graph.nodes
  BY <1>1
<1>5. \A l \in graph.edges : l.src[1] \in BlockKinds => <<l.file, l.src>> \in blocks
  BY <1>1
<1> QED BY <1>3, <1>4, <1>5 DEF DiscoveryTypeOK

\* The file of a line selects the node the line ties, if no other file opens
\* a block of that name and no node has the file's path for its identifier.
LEMMA FileSelectsItsNode ==
    ASSUME ScanOK, NEW d \in graph.edges, d.file # InfraManifest,
           Unambiguous(d.src), ~Shadowed(d.file)
    PROVE  <<Stripped[d.file], d.src>> \in graph.names
<1> USE DEF ScanOK, RepoOK
<1> DEFINE owners == ScannedBlocks(blocks, unreadable)
           tied == ScannedLines(lines, unreadable)
           found == {b[2] : b \in owners} \cup UNION {{l.src, l.dst} : l \in tied}
           file == [n \in Nodes |-> Owner(owners, n)]
           name == Stripped[d.file]
<1>1. /\ d \in lines /\ d \in tied /\ d.file \notin unreadable
      /\ d.src \in Nodes /\ d.file \in Files /\ d \in Lines
  BY DiscoveryAssumption DEF FoundNodes, Discovered, ScannedLines
<1>2. name \in Files /\ <<name, d.file>> \in Overlaps
  BY <1>1, DiscoveryAssumption, PathsAssumption
<1>3. d.src \in found /\ <<"path", name>> \notin found
  BY <1>1 DEF FoundNodes, Discovered, Shadowed
<1>4. \/ file[d.src] # NoFile /\ <<name, file[d.src]>> \in Overlaps
      \/ <<name, d.src>> \in NameEnds
  <2>1. CASE <<d.file, d.src>> \in blocks
    <3> DEFINE opening == {f \in Files : <<f, d.src>> \in owners}
    <3>1. <<d.file, d.src>> \in owners
      BY <1>1, <2>1 DEF ScannedBlocks
    <3>2. ASSUME NEW f \in opening
          PROVE  f = d.file
      <4>1. <<f, d.src>> \in blocks
        BY DEF ScannedBlocks
      <4>2. <<f, d.src>> = <<d.file, d.src>>
        BY <2>1, <4>1 DEF Unambiguous
      <4> QED BY <4>2
    <3>3. opening \in (SUBSET Files) \ {{}}
      BY <1>1, <3>1
    <3> HIDE DEF opening
    <3>4. LastOf[opening] \in opening
      BY <3>3, DiscoveryAssumption
    <3>5. LastOf[opening] = d.file
      BY <3>2, <3>4
    <3>6. Owner(owners, d.src) = d.file
      BY <3>3, <3>5 DEF Owner, opening
    <3>7. file[d.src] = d.file
      BY <1>1, <3>6
    <3> QED BY <1>1, <1>2, <3>7, NoFileAssumption
  <2>2. CASE d.src[1] = "config"
    <3>1. d.src = <<"config", d.file>>
      BY <1>1, <2>2, DiscoveryAssumption
    <3> QED BY <1>1, <3>1, DiscoveryAssumption
  <2>3. d.src[1] = "config" \/ d.src[1] \in BlockKinds
    BY <1>1, DiscoveryAssumption
    DEF NginxMentions, UnitMentions, ScriptMentions, EnvMentions, Mentions, BlockKinds
  <2> QED BY <1>1, <2>1, <2>2, <2>3
<1>5. d.src \in Selected(found, file, name)
  BY <1>3, <1>4 DEF Selected
<1>6. graph.names = UNION {{f} \X Selected(found, file, f) : f \in Files}
  BY DEF FoundNodes, Discovered
<1> HIDE DEF found, file, name
<1>7. <<name, d.src>> \in {name} \X Selected(found, file, name)
  BY <1>5
<1>8. <<name, d.src>> \in UNION {{f} \X Selected(found, file, f) : f \in Files}
  BY <1>2, <1>7, Zenon
<1> QED BY <1>6, <1>8 DEF name

LEMMA ScanInit == DiscoveryInit => ScanOK
BY DEF DiscoveryInit, ScanOK, RepoOK

LEMMA ScanStep == ScanOK /\ [DiscoveryNext]_discoveryVars => ScanOK'
<1> SUFFICES ASSUME ScanOK, [DiscoveryNext]_discoveryVars
             PROVE  ScanOK'
  OBVIOUS
<1> USE DEF ScanOK, RepoOK, Rescan
<1>1. ASSUME NEW b \in Blocks, OpenBlock(b)
      PROVE  ScanOK'
  BY <1>1 DEF OpenBlock
<1>2. ASSUME NEW b \in Blocks, CloseBlock(b)
      PROVE  ScanOK'
  <2>1. \A l \in lines' : l.src[1] \in BlockKinds => <<l.file, l.src>> \in blocks'
    <3> SUFFICES ASSUME NEW l \in lines', l.src[1] \in BlockKinds
                 PROVE  <<l.file, l.src>> \in blocks'
      OBVIOUS
    <3>1. l \in lines /\ (l.file # b[1] \/ l.src # b[2])
      BY <1>2 DEF CloseBlock
    <3>2. <<l.file, l.src>> \in blocks /\ <<l.file, l.src>> # b
      BY <3>1
    <3> QED BY <1>2, <3>2 DEF CloseBlock
  <2> QED BY <1>2, <2>1 DEF CloseBlock
<1>3. ASSUME NEW l \in Lines, WriteLine(l)
      PROVE  ScanOK'
  BY <1>3 DEF WriteLine
<1>4. ASSUME NEW l \in Lines, EraseLine(l)
      PROVE  ScanOK'
  BY <1>4 DEF EraseLine
<1>5. ASSUME NEW f \in Fragile, Garble(f)
      PROVE  ScanOK'
  BY <1>5 DEF Garble
<1>6. ASSUME UNCHANGED discoveryVars
      PROVE  ScanOK'
  BY <1>6 DEF discoveryVars, repoVars
<1> QED BY <1>1, <1>2, <1>3, <1>4, <1>5, <1>6 DEF DiscoveryNext

LEMMA ScanInvariant == DiscoverySpec => []ScanOK
BY ScanInit, ScanStep, PTL DEF DiscoverySpec

(***************************************************************************)
(* Every graph the scan builds is well formed.                             *)
(***************************************************************************)
THEOREM ScanIsWellFormed == DiscoverySpec => []DiscoveryTypeOK
BY ScanInvariant, ScannedWellFormed, PTL

(***************************************************************************)
(* For every repository a manifest that verify_manifest_impact lets        *)
(* through is closed under what its files share (impact.py 93-140 on the   *)
(* graph of discovery.py).                                                 *)
(***************************************************************************)
THEOREM DepthSuffices == DiscoverySpec => []AcceptedIsClosed
<1>1. ScanOK => AcceptedIsClosed
  <2> SUFFICES ASSUME ScanOK,
                      NEW targets \in SUBSET Files, ~ImpactGap(graph, targets),
                      NEW d \in graph.edges, d.file \in targets,
                      d.file # InfraManifest, Unambiguous(d.src), ~Shadowed(d.file),
                      NEW n \in {d.src, d.dst}
               PROVE  /\ \A e \in graph.edges :
                            Touches(e, n) => Stripped[e.file] \in Declared(targets)
                      /\ graph.file[n] # NoFile
                            => Stripped[graph.file[n]] \in Declared(targets)
    BY DEF AcceptedIsClosed
  <2>1. DiscoveryTypeOK
    BY ScannedWellFormed
  <2>2. d.src \in graph.nodes
    BY <2>1 DEF DiscoveryTypeOK
  <2>3. <<Stripped[d.file], d.src>> \in graph.names
    BY FileSelectsItsNode
  <2>4. \A e \in graph.edges : e.file # NoFile
    BY DiscoveryAssumption, NoFileAssumption
       DEF ScanOK, RepoOK, FoundNodes, Discovered, ScannedLines
  <2> QED BY <2>2, <2>3, <2>4, CoveredNeighbours
<1> QED BY <1>1, ScanInvariant, PTL
=============================================================================
