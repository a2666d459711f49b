---------------------------- MODULE Resubmission ----------------------------
(***************************************************************************)
(* The exchange that ManifestIncompleteError asks for (impact.py 12-25): a *)
(* refused agent declares the artifacts the refusal names and submits      *)
(* again, each time against a fresh scan of the repository (core.py 83-    *)
(* 103), which others may have edited meanwhile (Discovery).  The agent is *)
(* external; what it is told is the analyzer's.                            *)
(***************************************************************************)
EXTENDS Discovery, FiniteSets, Naturals

CONSTANT Drafts  \* the targets an agent may start from

ASSUME DraftsAssumption == /\ Drafts \subseteq (SUBSET Files) \ {{}}
                           /\ IsFiniteSet(Files)

VARIABLES declared,  \* the targets of the next submission
          accepted,  \* a submission was let through
          refusals   \* how many were refused for what they omit

agentVars == <<declared, accepted, refusals>>
resubmissionVars == <<discoveryVars, agentVars>>

ResubmissionInit == /\ DiscoveryInit
                    /\ declared \in Drafts
                    /\ accepted = FALSE
                    /\ refusals = 0

\* missing_dependents holds "<file> (Error: ...)": no name to declare.
RefuseUnparsed ==
    /\ ~accepted
    /\ Unparsable(graph, declared) # {}
    /\ UNCHANGED resubmissionVars

RefuseIncomplete ==
    /\ ~accepted
    /\ Unparsable(graph, declared) = {}
    /\ Missing(graph, declared) # {}
    /\ declared' = declared \cup Missing(graph, declared)
    /\ refusals' = refusals + 1
    /\ UNCHANGED <<discoveryVars, accepted>>

LetThrough ==
    /\ ~accepted
    /\ ~ImpactGap(graph, declared)
    /\ accepted' = TRUE
    /\ UNCHANGED <<discoveryVars, declared, refusals>>

Resubmit == RefuseUnparsed \/ RefuseIncomplete \/ LetThrough

\* Bound: the repository is followed until a submission is let through.
Edit == /\ ~accepted
        /\ DiscoveryNext
        /\ UNCHANGED agentVars

ResubmissionNext == Resubmit \/ Edit

\* The agent goes on as long as it is refused.
ResubmissionSpec == /\ ResubmissionInit
                    /\ [][ResubmissionNext]_resubmissionVars
                    /\ WF_resubmissionVars(Resubmit)

-----------------------------------------------------------------------------
(***************************************************************************)
(* Every refusal for an omission names a file the agent had not declared,  *)
(* in whatever spelling and however the repository changes in between      *)
(* (impact.py 120-138): there are fewer refusals than declared files, and  *)
(* so never more rounds than the repository has files.                     *)
(***************************************************************************)
RoundsAreBounded == refusals < Cardinality(Declared(declared))

(***************************************************************************)
(* A refusal asks for nothing that could be spared: every manifest that    *)
(* declares as much as the refused one and would be let through declares   *)
(* the files it names (impact.py 36-87 and 120-138).  The agent that       *)
(* follows the refusals of a repository at rest thus ends with the least   *)
(* manifest there is for its draft, in whatever order it is told.          *)
(***************************************************************************)
RefusalsDemandNoMore ==
    [][RefuseIncomplete =>
            \A wider \in SUBSET Files :
                (~ImpactGap(graph, wider) /\ Declared(declared) \subseteq Declared(wider))
                => Declared(declared') \subseteq Declared(wider)]_resubmissionVars

(***************************************************************************)
(* Once nobody edits the repository any more, following the refusals leads *)
(* to a manifest that is let through, unless it comes to declare a file    *)
(* that cannot be parsed: then the analyzer names no way on, for ever.     *)
(***************************************************************************)
Converges ==
    <>[][UNCHANGED repoVars]_resubmissionVars =>
        <>(accepted \/ Unparsable(graph, declared) # {})
=============================================================================
