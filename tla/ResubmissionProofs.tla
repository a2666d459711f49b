------------------------- MODULE ResubmissionProofs -------------------------
(***************************************************************************)
(* Proof that following the analyzer's refusals takes fewer rounds than    *)
(* there are files, whatever is edited in between: the declared files of a *)
(* finite repository grow with each refusal.                               *)
(***************************************************************************)
EXTENDS Resubmission, DiscoveryProofs, FiniteSetTheorems

\* A round stays among the nodes.
LEMMA SpreadType ==
    ASSUME NEW g \in Graph, NEW S \in SUBSET Nodes
    PROVE  Spread(g, S) \in SUBSET Nodes
<1>1. \A e \in g.edges : e.src \in Nodes /\ e.dst \in Nodes
  BY DEF Graph
<1>2. \A n \in S : UNION {{e.src, e.dst} : e \in EdgesAt(g, n)} \subseteq Nodes
  BY <1>1 DEF EdgesAt
<1> QED BY <1>2 DEF Spread

LEMMA DeclaredType ==
    ASSUME NEW targets \in SUBSET Files
    PROVE  Declared(targets) \in SUBSET Files
BY PathsAssumption DEF Declared

\* What a change reaches is made of files.
LEMMA AffectedType ==
    ASSUME NEW g \in Graph, NEW targets \in SUBSET Files
    PROVE  AffectedFiles(g, targets) \in SUBSET Files
<1> DEFINE start == StartNodes(g, targets)
           t == Traverse(g, start)
<1>1. start \in SUBSET Nodes
  BY DEF StartNodes, Graph
<1>2. t.visited \in SUBSET Nodes /\ t.edges \subseteq g.edges
  <2>1. Spread(g, Spread(g, start)) \in SUBSET Nodes
    BY <1>1, SpreadType
  <2>2. Spread(g, Spread(g, Spread(g, start))) \in SUBSET Nodes
    BY <2>1, SpreadType
  <2>3. UNION {EdgesAt(g, n) : n \in Spread(g, Spread(g, start))} \subseteq g.edges
    BY DEF EdgesAt
  <2> QED BY <2>2, <2>3 DEF Traverse
<1> HIDE DEF t
<1>3. \A n \in t.visited : g.file[n] \in Files \cup {NoFile}
  BY <1>2 DEF Graph
<1>4. \A e \in t.edges : e.file \in Files \cup {NoFile}
  BY <1>2 DEF Graph
<1>5. Unmatched(g, targets) \subseteq Files
  BY DeclaredType DEF Unmatched
<1> QED BY <1>3, <1>4, <1>5 DEF AffectedFiles, t

\* The inductive invariant: beside the bound, the targets are files.
RoundsOK == /\ ScanOK
            /\ declared \in SUBSET Files
            /\ refusals \in Nat
            /\ RoundsAreBounded

LEMMA RoundsInit == ResubmissionInit => RoundsOK
<1> SUFFICES ASSUME ResubmissionInit
             PROVE  RoundsOK
  OBVIOUS
<1> USE DEF ResubmissionInit
<1>1. declared \in SUBSET Files /\ declared # {} /\ IsFiniteSet(Files)
  BY DraftsAssumption
<1>2. Declared(declared) \subseteq Files /\ Declared(declared) # {}
  BY <1>1, DeclaredType DEF Declared
<1>3. IsFiniteSet(Declared(declared))
  BY <1>1, <1>2, FS_Subset
<1>4. Cardinality(Declared(declared)) \in Nat /\ Cardinality(Declared(declared)) # 0
  BY <1>2, <1>3, FS_CardinalityType, FS_EmptySet
<1> QED BY <1>1, <1>4, ScanInit DEF RoundsOK, RoundsAreBounded

\* A refusal adds a stripped name that was not among the declared ones.
LEMMA RefusalTeaches ==
    ASSUME RoundsOK, RefuseIncomplete
    PROVE  /\ declared' \in SUBSET Files
           /\ RoundsAreBounded'
<1> USE DEF RoundsOK
<1> DEFINE missing == Missing(graph, declared)
           before == Declared(declared)
           after == Declared(declared \cup missing)
<1>1. declared' = declared \cup missing /\ refusals' = refusals + 1 /\ missing # {}
  BY DEF RefuseIncomplete
<1>2. graph \in Graph
  BY ScannedWellFormed DEF DiscoveryTypeOK
<1>3. AffectedFiles(graph, declared) \in SUBSET Files
  BY <1>2, AffectedType
<1>4. missing \in SUBSET Files /\ \A m \in missing : Stripped[m] = m /\ m \notin before
  BY <1>3, PathsAssumption DEF Missing, Declared
<1>5. PICK m \in missing : TRUE
  BY <1>1
<1>6. before \cup {m} \subseteq after /\ m \notin before
  BY <1>4, <1>5 DEF Declared
<1>7. after \subseteq Files /\ before \subseteq Files
  BY <1>4, DeclaredType
<1>8. IsFiniteSet(after) /\ IsFiniteSet(before)
  BY <1>7, DraftsAssumption, FS_Subset
<1> HIDE DEF before, after, missing
<1>9. /\ IsFiniteSet(before \cup {m})
      /\ Cardinality(before \cup {m}) = Cardinality(before) + 1
  BY <1>6, <1>8, FS_AddElement
<1>10. Cardinality(before \cup {m}) <= Cardinality(after)
  BY <1>6, <1>8, FS_Subset
<1>11. Cardinality(before) \in Nat /\ Cardinality(after) \in Nat
  BY <1>8, FS_CardinalityType
<1>12. refusals < Cardinality(before)
  BY DEF RoundsAreBounded, before
<1>13. refusals' < Cardinality(after)
  BY <1>1, <1>9, <1>10, <1>11, <1>12
<1> QED BY <1>1, <1>4, <1>13 DEF RoundsAreBounded, after

LEMMA RoundsStep ==
    RoundsOK /\ [ResubmissionNext]_resubmissionVars => RoundsOK'
<1> SUFFICES ASSUME RoundsOK, [ResubmissionNext]_resubmissionVars
             PROVE  RoundsOK'
  OBVIOUS
<1> USE DEF RoundsOK
<1>1. ASSUME UNCHANGED resubmissionVars
      PROVE  RoundsOK'
  BY <1>1, ScanStep
     DEF resubmissionVars, agentVars, discoveryVars, RoundsAreBounded
<1>2. ASSUME RefuseIncomplete
      PROVE  RoundsOK'
  <2>1. ScanOK'
    BY <1>2, ScanStep DEF RefuseIncomplete
  <2>2. refusals' \in Nat
    BY <1>2 DEF RefuseIncomplete
  <2> QED BY <1>2, <2>1, <2>2, RefusalTeaches
<1>3. ASSUME LetThrough
      PROVE  RoundsOK'
  BY <1>3, ScanStep DEF LetThrough, RoundsAreBounded
<1>4. ASSUME Edit
      PROVE  RoundsOK'
  BY <1>4, ScanStep DEF Edit, agentVars, RoundsAreBounded
<1> QED BY <1>1, <1>2, <1>3, <1>4 DEF ResubmissionNext, Resubmit, RefuseUnparsed

(***************************************************************************)
(* For every repository and whatever edits, there are fewer refusals than  *)
(* declared files (impact.py 120-138): the budget of turns an agent needs  *)
(* to have a manifest let through is bounded by the repository's size.     *)
(***************************************************************************)
THEOREM RefusalsAreFew == ResubmissionSpec => []RoundsAreBounded
<1>1. RoundsOK => RoundsAreBounded
  BY DEF RoundsOK
<1> QED BY <1>1, RoundsInit, RoundsStep, PTL DEF ResubmissionSpec

-----------------------------------------------------------------------------
(* What a refusal asks for is necessary: the analysis is monotone in what  *)
(* is declared.                                                            *)

LEMMA SpreadIsMonotone ==
    ASSUME NEW g \in Graph, NEW few \in SUBSET Nodes, NEW many \in SUBSET Nodes,
           few \subseteq many
    PROVE  Spread(g, few) \subseteq Spread(g, many)
BY DEF Spread

\* Whoever declares more reaches at least as much; what selects no node is
\* declared in any case.
LEMMA AffectedGrows ==
    ASSUME NEW g \in Graph, NEW S \in SUBSET Files, NEW T \in SUBSET Files,
           Declared(S) \subseteq Declared(T)
    PROVE  AffectedFiles(g, S) \subseteq AffectedFiles(g, T) \cup Declared(S)
<1> DEFINE nearS == Spread(g, Spread(g, StartNodes(g, S)))
           nearT == Spread(g, Spread(g, StartNodes(g, T)))
<1>1. StartNodes(g, S) \subseteq StartNodes(g, T)
  BY DEF StartNodes
<1>2. StartNodes(g, S) \in SUBSET Nodes /\ StartNodes(g, T) \in SUBSET Nodes
  BY DEF StartNodes, Graph
<1>3. /\ Spread(g, StartNodes(g, S)) \subseteq Spread(g, StartNodes(g, T))
      /\ Spread(g, StartNodes(g, S)) \in SUBSET Nodes
      /\ Spread(g, StartNodes(g, T)) \in SUBSET Nodes
  BY <1>1, <1>2, SpreadType, SpreadIsMonotone
<1>4. nearS \subseteq nearT /\ nearS \in SUBSET Nodes /\ nearT \in SUBSET Nodes
  BY <1>3, SpreadType, SpreadIsMonotone
<1> HIDE DEF nearS, nearT
<1>5. Spread(g, nearS) \subseteq Spread(g, nearT)
  BY <1>4, SpreadIsMonotone
<1>6. UNION {EdgesAt(g, n) : n \in nearS} \subseteq UNION {EdgesAt(g, n) : n \in nearT}
  BY <1>4
<1>7. Unmatched(g, S) \subseteq Declared(S)
  BY DEF Unmatched
<1> QED BY <1>5, <1>6, <1>7 DEF AffectedFiles, Traverse, nearS, nearT

\* What a submission lacks, every acceptable one that declares more has.
LEMMA DemandsAreNecessary ==
    ASSUME NEW g \in Graph, NEW S \in SUBSET Files, NEW T \in SUBSET Files,
           Declared(S) \subseteq Declared(T), ~ImpactGap(g, T)
    PROVE  Declared(S \cup Missing(g, S)) \subseteq Declared(T)
<1>1. AffectedFiles(g, S) \in SUBSET Files /\ AffectedFiles(g, T) \in SUBSET Files
  BY AffectedType
<1>2. Declared(AffectedFiles(g, T)) \subseteq Declared(T)
  BY DEF ImpactGap, Missing
<1>3. ASSUME NEW m \in Missing(g, S)
      PROVE  Stripped[m] \in Declared(T)
  <2>1. PICK f \in AffectedFiles(g, S) : m = Stripped[f] /\ m \notin Declared(S)
    BY <1>3 DEF Missing, Declared
  <2>2. Stripped[m] = m
    BY <1>1, <2>1, PathsAssumption
  <2>3. f \notin Declared(S)
    BY <1>1, <2>1, PathsAssumption DEF Declared
  <2>4. f \in AffectedFiles(g, T)
    BY <2>1, <2>3, AffectedGrows
  <2> QED BY <1>2, <2>1, <2>2, <2>4 DEF Declared
<1> QED BY <1>3 DEF Declared

(***************************************************************************)
(* For every repository, whatever is edited between two submissions: the   *)
(* files a refusal names are declared by every manifest that declares as   *)
(* much and is let through (impact.py 36-87, 120-138).                     *)
(***************************************************************************)
THEOREM DemandIsLeast == ResubmissionSpec => RefusalsDemandNoMore
<1>1. ASSUME RoundsOK, RefuseIncomplete,
             NEW wider \in SUBSET Files,
             ~ImpactGap(graph, wider),
             Declared(declared) \subseteq Declared(wider)
      PROVE  Declared(declared') \subseteq Declared(wider)
  <2>1. graph \in Graph /\ declared \in SUBSET Files
    BY <1>1, ScannedWellFormed DEF RoundsOK, DiscoveryTypeOK
  <2>2. declared' = declared \cup Missing(graph, declared)
    BY <1>1 DEF RefuseIncomplete
  <2> QED BY <1>1, <2>1, <2>2, DemandsAreNecessary
<1>2. RoundsOK =>
         [RefuseIncomplete =>
            \A wider \in SUBSET Files :
                (~ImpactGap(graph, wider) /\ Declared(declared) \subseteq Declared(wider))
                => Declared(declared') \subseteq Declared(wider)]_resubmissionVars
  BY <1>1
<1> QED BY <1>2, RoundsInit, RoundsStep, PTL DEF ResubmissionSpec, RefusalsDemandNoMore
=============================================================================
