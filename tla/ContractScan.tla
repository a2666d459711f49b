---------------------------- MODULE ContractScan ----------------------------
(***************************************************************************)
(* A check of the contract engine, or a probe, going through the           *)
(* repository file by file while somebody writes to it (the agent and its  *)
(* editor: nothing locks the tree).  The gateway takes the verdict for a   *)
(* statement about one state of the repository; this module says when it   *)
(* is one, and what it is otherwise.                                       *)
(***************************************************************************)
EXTENDS ContractEngine

CONSTANTS Trees,     \* the states of the repository each check is tried on
          MaxEdits   \* bound: how often the files are written to

ASSUME ScanAssumption ==
    /\ \A c \in Checks : Trees[c] \subseteq [Artifacts -> Content \cup {Garbled}]
    /\ MaxEdits \in Nat

VARIABLES text,      \* the files as they are
          check,     \* the check that runs
          pass,      \* the pattern it is at
          left,      \* the files of that pattern it has not opened
          facts,     \* the sets and flags it fills
          verdict,   \* what it returned
          seen,      \* the reads it has made: <<pass, file, content>>
          quiet,     \* nobody has written to a file it reads
          edits,
          before     \* history: the files as they were when it began

scanVars == <<text, check, pass, left, facts, verdict, seen, quiet, edits, before>>

FilesOf(c, k) == Glob[Passes(c)[k]]
Scope(c) == UNION {FilesOf(c, k) : k \in DOMAIN Passes(c)}

ScanInit ==
    /\ check \in Checks
    /\ text \in Trees[check]
    /\ pass = 1 /\ left = FilesOf(check, 1)
    /\ facts = {} /\ seen = {} /\ verdict = "none"
    /\ quiet = TRUE /\ edits = 0 /\ before = text

Verdict(holds) == IF holds THEN "holds" ELSE "violated"

\* Wrong: each file starts the sets afresh.
ReadForgetting(f) ==
    LET gathered == FactsIn(check, pass, text[f]) IN
    /\ verdict = "none" /\ f \in left
    /\ left' = left \ {f}
    /\ facts' = gathered
    /\ seen' = seen \cup {<<pass, f, text[f]>>}
    /\ verdict' = IF Objects(check, gathered) THEN "violated"
                  ELSE IF Settles(check, gathered) THEN "holds" ELSE "none"
    /\ UNCHANGED <<text, check, pass, quiet, edits, before>>

ReadFile(f) ==
    LET gathered == facts \cup FactsIn(check, pass, text[f]) IN
    /\ verdict = "none" /\ f \in left
    /\ left' = left \ {f}
    /\ facts' = gathered
    /\ seen' = seen \cup {<<pass, f, text[f]>>}
    /\ verdict' = IF Objects(check, gathered) THEN "violated"
                  ELSE IF Settles(check, gathered) THEN "holds" ELSE "none"
    /\ UNCHANGED <<text, check, pass, quiet, edits, before>>

\* Wrong: the same pattern once more.
PassAgain ==
    /\ verdict = "none" /\ left = {} /\ pass < Len(Passes(check))
    /\ left' = FilesOf(check, pass)
    /\ UNCHANGED <<text, check, pass, facts, verdict, seen, quiet, edits, before>>

NextPass ==
    /\ verdict = "none" /\ left = {} /\ pass < Len(Passes(check))
    /\ pass' = pass + 1
    /\ left' = FilesOf(check, pass + 1)
    /\ UNCHANGED <<text, check, facts, verdict, seen, quiet, edits, before>>

\* Wrong: the first pattern decides.
ConcludeAtOnce ==
    /\ verdict = "none" /\ left = {}
    /\ verdict' = Verdict(Judge(check, facts))
    /\ UNCHANGED <<text, check, pass, left, facts, seen, quiet, edits, before>>

Conclude ==
    /\ verdict = "none" /\ left = {} /\ pass = Len(Passes(check))
    /\ verdict' = Verdict(Judge(check, facts))
    /\ UNCHANGED <<text, check, pass, left, facts, seen, quiet, edits, before>>

Versions(f) == {t[f] : t \in Trees[check]}

Write(f, t) ==
    /\ edits < MaxEdits
    /\ t # text[f]
    /\ text' = [text EXCEPT ![f] = t]
    /\ edits' = edits + 1
    /\ quiet' = (quiet /\ f \notin Scope(check))
    /\ UNCHANGED <<check, pass, left, facts, verdict, seen, before>>

ScanStep == (\E f \in left : ReadFile(f)) \/ NextPass \/ Conclude

ScanNext == ScanStep \/ (\E f \in Artifacts : \E t \in Versions(f) : Write(f, t))

\* A call that has begun to read goes on reading.
ScanSpec == ScanInit /\ [][ScanNext]_scanVars /\ WF_scanVars(ScanStep)

-----------------------------------------------------------------------------
(* What the contracts promise, of a set of reads and in their own words.   *)

Readable(R) == {r \in R : r[3] # Garbled}

Said(R, kind) == {m[2] : m \in {x \in UNION {r[3] : r \in Readable(R)} : x[1] = kind}}
InPass(R, k) == {r \in R : r[1] = k}

Holds(c, R) ==
    CASE c = "backend_port_consistency" ->
            LET servers == Said(InPass(R, 1), "server_port")
                binds   == Said(InPass(R, 2), "bind")
                probes  == Said(InPass(R, 3), "probe")
            IN /\ Agree(servers, binds)
               /\ Agree(Said(InPass(R, 1), "server_socket"), Said(InPass(R, 2), "socket_var"))
               /\ servers # {} => probes \subseteq servers
               /\ binds # {} => probes \subseteq binds
      [] c = "socket_permission_consistency" ->
            (\E r \in Readable(R) : HasSocket(r[3])) =>
                \E r \in Readable(R) : HasSocket(r[3]) /\ Says(r[3], {"grant"})
      [] c = "cloudflare_real_ip_trust" ->
            LET confs == {r \in Readable(R) : RestoresRealIp(r[3])} IN
            confs # {} => /\ \E r \in confs : Says(r[3], {"cf_header"})
                          /\ \E r \in confs : Says(r[3], {"recursive"})
                          /\ Said(confs, "trust") = CloudflareRanges
      [] c \in OffenceChecks ->
            /\ \A r \in Readable(R) : ~Offends(c, r[1], r[3])
            /\ c = "nginx_syntax_valid" => Readable(R) = R
      [] c \in EvidenceChecks -> \E r \in Readable(R) : Shows(c, r[3])

\* The reads of a check that meets the files as t has them.
Reads(c, t) == UNION {{<<k, f, t[f]>> : f \in FilesOf(c, k)} : k \in DOMAIN Passes(c)}

\* The reads R completed with those it has not made, of files as t has them.
Completed(c, R, t) == R \cup {r \in Reads(c, t) : \A q \in R : q[1] # r[1] \/ q[2] # r[2]}

-----------------------------------------------------------------------------
(* Properties.                                                             *)

\* The state is well formed, and a check only answers before its last file
\* if that file could no longer change the answer: yes on the first piece of
\* evidence, no on the first offence (contracts.py:116, 118, 256, 271).
ScanTypeOK ==
    /\ check \in Checks
    /\ text \in [Artifacts -> Content \cup {Garbled}]
    /\ pass \in DOMAIN Passes(check) /\ left \subseteq FilesOf(check, pass)
    /\ verdict \in {"none", "holds", "violated"}
    /\ seen \subseteq (1..3) \X Artifacts \X (Content \cup {Garbled})
    /\ quiet \in BOOLEAN /\ edits \in 0..MaxEdits
    /\ before \in [Artifacts -> Content \cup {Garbled}]
    /\ verdict = "holds" /\ check \notin EvidenceChecks =>
         left = {} /\ pass = Len(Passes(check))

\* Whatever is written meanwhile, the answer is the contract's for exactly
\* the contents that were read, in whatever order and however often each:
\* what an earlier file or pattern said is not lost (contracts.py:78-130,
\* tools.py:56-95).
VerdictIsOfWhatWasRead ==
    verdict # "none" => (verdict = "holds" <=> Holds(check, seen))

\* If nobody wrote to a file the check reads, the answer is the contract's
\* for the repository as it stands, although the files were read one at a
\* time and the check may have stopped early.
QuietVerdict ==
    quiet /\ verdict # "none" => (verdict = "holds" <=> Holds(check, Reads(check, text)))

\* Returning before the last file loses nothing: whatever the files that were
\* not opened say, the contract's answer for all of them is the one given
\* (contracts.py:116, 118, 240, 256, 271, 286-296, 312; tools.py:61, 63, 82, 92).
EarlyAnswersAreFinal ==
    verdict # "none" =>
        \A t \in Trees[check] : verdict = "holds" <=> Holds(check, Completed(check, seen, t))

InOnePass(f) ==
    \A j, k \in DOMAIN Passes(check) : f \in FilesOf(check, j) \cap FilesOf(check, k) => j = k

\* A single write during a check is seen as a whole or not at all, although
\* nothing locks the tree: the answer is the contract's for the repository
\* before the write or after it.  Not so of a file that two patterns match,
\* as *.sh matches the health check's too (contracts.py:97, 109): one of them
\* may meet it before the write and the other after.
OneEditIsAtomic ==
    (verdict # "none" /\ edits <= 1 /\ \A f \in Artifacts : text[f] # before[f] => InOnePass(f))
    => \E t \in {before, text} : verdict = "holds" <=> Holds(check, Reads(check, t))

\* Every check returns, however the files change under it.
VerdictComes == <>(verdict # "none")
=============================================================================
