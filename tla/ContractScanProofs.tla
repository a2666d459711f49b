------------------------- MODULE ContractScanProofs -------------------------
(***************************************************************************)
(* Proofs about ContractScan, for any repository, any marks and any number *)
(* of edits.  The facts a check has gathered are those of its reads        *)
(* (ScanInv); judging them is judging the reads (JudgingIsHolding); and    *)
(* the reads of a check that has answered either are all of them or decide *)
(* whatever the files not opened hold (EarlyAnswersStand).                 *)
(***************************************************************************)
EXTENDS ContractScan, TLAPS

FactsOf(c, R) == UNION {FactsIn(c, r[1], r[3]) : r \in R}

AllReads == (1..3) \X Artifacts \X (Content \cup {Garbled})

-----------------------------------------------------------------------------
(* Judging the facts of a set of reads is what the contract says of them.  *)

LEMMA OneKindOfCheck ==
    ASSUME NEW c \in Checks
    PROVE  /\ c \in OffenceChecks => c \notin EvidenceChecks /\ c \notin UnionChecks
           /\ c \in EvidenceChecks => c \notin OffenceChecks /\ c \notin UnionChecks
           /\ c \in UnionChecks => c \notin OffenceChecks /\ c \notin EvidenceChecks
           /\ c \in OffenceChecks \/ c \in EvidenceChecks \/ c \in UnionChecks
  BY DEF Checks, OffenceChecks, EvidenceChecks, UnionChecks

LEMMA OffenceFacts ==
    ASSUME NEW c \in OffenceChecks, NEW R
    PROVE  (Fact("offence") \notin FactsOf(c, R)) <=> Holds(c, R)
  <1>1. \A r \in R : Fact("offence") \in FactsIn(c, r[1], r[3]) <=>
            IF r[3] # Garbled THEN Offends(c, r[1], r[3]) ELSE c = "nginx_syntax_valid"
    <2> SUFFICES ASSUME NEW k, NEW t
                 PROVE  Fact("offence") \in FactsIn(c, k, t) <=>
                            IF t # Garbled THEN Offends(c, k, t) ELSE c = "nginx_syntax_valid"
      OBVIOUS
    <2>1. ReadFacts(c, k, t) = {x \in {Fact("offence")} : Offends(c, k, t)}
      BY DEF ReadFacts, OffenceChecks, EvidenceChecks
    <2>2. CASE t # Garbled
      BY <2>1, <2>2 DEF FactsIn
    <2>3. CASE t = Garbled
      BY <2>3 DEF FactsIn
    <2> QED BY <2>2, <2>3
  <1>2. Holds(c, R) <=> /\ \A r \in Readable(R) : ~Offends(c, r[1], r[3])
                        /\ c = "nginx_syntax_valid" => Readable(R) = R
    BY DEF Holds, OffenceChecks, EvidenceChecks
  <1>3. Readable(R) = R <=> \A r \in R : r[3] # Garbled
    BY DEF Readable
  <1>4. (\A r \in Readable(R) : ~Offends(c, r[1], r[3]))
          <=> \A r \in R : r[3] # Garbled => ~Offends(c, r[1], r[3])
    BY DEF Readable
  <1>5. Fact("offence") \in FactsOf(c, R)
          <=> \E r \in R : Fact("offence") \in FactsIn(c, r[1], r[3])
    BY DEF FactsOf
  <1> QED BY <1>1, <1>2, <1>3, <1>4, <1>5, Zenon

LEMMA EvidenceFacts ==
    ASSUME NEW c \in EvidenceChecks, NEW R
    PROVE  (Fact("found") \in FactsOf(c, R)) <=> Holds(c, R)
  <1>1. c \notin OffenceChecks /\ c # "nginx_syntax_valid"
    BY DEF EvidenceChecks, OffenceChecks
  <1>2. \A r \in R : Fact("found") \in FactsIn(c, r[1], r[3]) <=>
            r[3] # Garbled /\ Shows(c, r[3])
    BY <1>1 DEF FactsIn, ReadFacts, OffenceChecks, EvidenceChecks
  <1>3. Holds(c, R) <=> \E r \in Readable(R) : Shows(c, r[3])
    BY DEF Holds, EvidenceChecks, OffenceChecks
  <1> QED BY <1>2, <1>3 DEF FactsOf, Readable

\* Which facts about the transport a set of reads has.
LEMMA TransportFacts ==
    ASSUME NEW R, \A r \in R : r[1] \in 1..3
    PROVE  LET F == FactsOf("backend_port_consistency", R) IN
           /\ \A kind \in {"server_port", "server_socket"} :
                 Values(F, kind) = Said(InPass(R, 1), kind)
           /\ \A kind \in {"bind", "socket_var"} : Values(F, kind) = Said(InPass(R, 2), kind)
           /\ Values(F, "probe") = Said(InPass(R, 3), "probe")
  <1> DEFINE B == "backend_port_consistency"
             F == FactsOf(B, R)
  <1>1. \A k, t : FactsIn(B, k, t) = IF t # Garbled THEN {m \in t : m[1] \in TransportKinds[k]}
                                     ELSE {}
    BY DEF FactsIn, ReadFacts, OffenceChecks, EvidenceChecks
  <1>2. ASSUME NEW kind, NEW j \in 1..3,
               \A k \in 1..3 : kind \in TransportKinds[k] <=> k = j
        PROVE  Values(F, kind) = Said(InPass(R, j), kind)
    <2>1. {x \in F : x[1] = kind}
            = {x \in UNION {r[3] : r \in Readable(InPass(R, j))} : x[1] = kind}
      <3>1. ASSUME NEW x, x[1] = kind
            PROVE  x \in F <=> x \in UNION {r[3] : r \in Readable(InPass(R, j))}
        <4>1. x \in F <=> \E r \in R : x \in FactsIn(B, r[1], r[3])
          BY DEF FactsOf
        <4>2. \A r \in R : x \in FactsIn(B, r[1], r[3])
                             <=> r[3] # Garbled /\ x \in r[3] /\ r[1] = j
          BY <1>1, <1>2, <3>1
        <4> QED BY <4>1, <4>2 DEF Readable, InPass
      <3> QED BY <3>1
    <2> QED BY <2>1 DEF Values, Said
  <1>3. \A kind \in {"server_port", "server_socket"} :
           \A k \in 1..3 : kind \in TransportKinds[k] <=> k = 1
    BY DEF TransportKinds
  <1>4. \A kind \in {"bind", "socket_var"} :
           \A k \in 1..3 : kind \in TransportKinds[k] <=> k = 2
    BY DEF TransportKinds
  <1>5. \A k \in 1..3 : "probe" \in TransportKinds[k] <=> k = 3
    BY DEF TransportKinds
  <1>6. \A kind \in {"server_port", "server_socket"} : Values(F, kind) = Said(InPass(R, 1), kind)
    BY <1>2, <1>3
  <1>7. \A kind \in {"bind", "socket_var"} : Values(F, kind) = Said(InPass(R, 2), kind)
    BY <1>2, <1>4
  <1>8. Values(F, "probe") = Said(InPass(R, 3), "probe")
    BY <1>2, <1>5
  <1> QED BY <1>6, <1>7, <1>8

LEMMA SocketFacts ==
    ASSUME NEW R
    PROVE  Judge("socket_permission_consistency",
                 FactsOf("socket_permission_consistency", R))
             <=> Holds("socket_permission_consistency", R)
  <1> DEFINE S == "socket_permission_consistency"
             F == FactsOf(S, R)
  <1>1. \A k, t : FactsIn(S, k, t) =
            IF t # Garbled THEN {x \in {Fact("socket")} : HasSocket(t)}
                 \cup {x \in {Fact("granted")} : HasSocket(t) /\ Says(t, {"grant"})}
            ELSE {}
    BY DEF FactsIn, ReadFacts, OffenceChecks, EvidenceChecks
  <1>2. Fact("socket") # Fact("granted")
    BY DEF Fact
  <1>3. Fact("socket") \in F <=> \E r \in Readable(R) : HasSocket(r[3])
    BY <1>1, <1>2 DEF FactsOf, Readable
  <1>4. Fact("granted") \in F
          <=> \E r \in Readable(R) : HasSocket(r[3]) /\ Says(r[3], {"grant"})
    BY <1>1, <1>2 DEF FactsOf, Readable
  <1>5. Judge(S, F) <=> (Fact("socket") \in F => Fact("granted") \in F)
    BY DEF Judge, OffenceChecks, EvidenceChecks
  <1>6. Holds(S, R) <=> ((\E r \in Readable(R) : HasSocket(r[3])) =>
                \E r \in Readable(R) : HasSocket(r[3]) /\ Says(r[3], {"grant"}))
    BY DEF Holds, OffenceChecks, EvidenceChecks
  <1> QED BY <1>3, <1>4, <1>5, <1>6

LEMMA RealIpFacts ==
    ASSUME NEW R
    PROVE  Judge("cloudflare_real_ip_trust", FactsOf("cloudflare_real_ip_trust", R))
             <=> Holds("cloudflare_real_ip_trust", R)
  <1> DEFINE S == "cloudflare_real_ip_trust"
             F == FactsOf(S, R)
             confs == {r \in Readable(R) : RestoresRealIp(r[3])}
  <1>1. \A k, t : FactsIn(S, k, t) =
            IF t # Garbled
            THEN {x \in {Fact("real_ip")} : RestoresRealIp(t)}
                   \cup {m \in t : /\ m[1] \in {"trust", "cf_header", "recursive"}
                                   /\ RestoresRealIp(t)}
            ELSE {}
    BY DEF FactsIn, ReadFacts, OffenceChecks, EvidenceChecks
  <1>2. ASSUME NEW x
        PROVE  x \in F <=> \E r \in confs : \/ x = Fact("real_ip")
                                            \/ /\ x \in r[3]
                                               /\ x[1] \in {"trust", "cf_header", "recursive"}
    BY <1>1 DEF FactsOf, Readable
  <1>3. Fact("real_ip")[1] = "real_ip"
    BY DEF Fact
  <1>4. Fact("real_ip") \in F <=> confs # {}
    BY <1>2, <1>3
  <1>5. ASSUME NEW kind \in {"trust", "cf_header", "recursive"}
        PROVE  {x \in F : x[1] = kind}
                 = {x \in UNION {r[3] : r \in confs} : x[1] = kind}
    BY <1>2, <1>3
  <1>6. Values(F, "cf_header") # {} <=> \E r \in confs : Says(r[3], {"cf_header"})
    BY <1>5 DEF Values, Says
  <1>7. Values(F, "recursive") # {} <=> \E r \in confs : Says(r[3], {"recursive"})
    BY <1>5 DEF Values, Says
  <1>8. Values(F, "trust") = Said(confs, "trust")
    <2>1. Readable(confs) = confs
      BY DEF Readable
    <2> QED BY <1>5, <2>1 DEF Values, Said
  <1>9. Judge(S, F) <=> JudgeRealIp(F)
    BY DEF Judge, OffenceChecks, EvidenceChecks
  <1>10. Holds(S, R) <=> (confs # {} => /\ \E r \in confs : Says(r[3], {"cf_header"})
                                        /\ \E r \in confs : Says(r[3], {"recursive"})
                                        /\ Said(confs, "trust") = CloudflareRanges)
    BY DEF Holds, OffenceChecks, EvidenceChecks
  <1> HIDE DEF F, confs
  <1>11. Judge(S, F) <=> Holds(S, R)
    BY <1>4, <1>6, <1>7, <1>8, <1>9, <1>10 DEF JudgeRealIp
  <1> QED BY <1>11 DEF F

LEMMA JudgingIsHolding ==
    ASSUME NEW c \in Checks, NEW R, \A r \in R : r[1] \in 1..3
    PROVE  Judge(c, FactsOf(c, R)) <=> Holds(c, R)
  <1>1. CASE c \in OffenceChecks
    <2>1. Judge(c, FactsOf(c, R)) <=> Fact("offence") \notin FactsOf(c, R)
      BY <1>1 DEF Judge, OffenceChecks, EvidenceChecks
    <2> QED BY <2>1, <1>1, OffenceFacts
  <1>2. CASE c \in EvidenceChecks
    <2>1. Judge(c, FactsOf(c, R)) <=> Fact("found") \in FactsOf(c, R)
      BY <1>2 DEF Judge, EvidenceChecks, OffenceChecks
    <2> QED BY <2>1, <1>2, EvidenceFacts
  <1>3. CASE c = "backend_port_consistency"
    <2> DEFINE F == FactsOf(c, R)
    <2>1. Judge(c, F) <=> JudgeTransport(F)
      BY <1>3 DEF Judge, OffenceChecks, EvidenceChecks
    <2>2. /\ Values(F, "server_port") = Said(InPass(R, 1), "server_port")
          /\ Values(F, "server_socket") = Said(InPass(R, 1), "server_socket")
          /\ Values(F, "bind") = Said(InPass(R, 2), "bind")
          /\ Values(F, "socket_var") = Said(InPass(R, 2), "socket_var")
          /\ Values(F, "probe") = Said(InPass(R, 3), "probe")
      BY <1>3, TransportFacts
    <2>3. Holds(c, R) <=>
            LET servers == Said(InPass(R, 1), "server_port")
                binds   == Said(InPass(R, 2), "bind")
                probes  == Said(InPass(R, 3), "probe")
            IN /\ Agree(servers, binds)
               /\ Agree(Said(InPass(R, 1), "server_socket"), Said(InPass(R, 2), "socket_var"))
               /\ servers # {} => probes \subseteq servers
               /\ binds # {} => probes \subseteq binds
      BY <1>3 DEF Holds, OffenceChecks, EvidenceChecks
    <2>4. ProbesAgree(F) <=>
            /\ Values(F, "server_port") # {} => Values(F, "probe") \subseteq Values(F, "server_port")
            /\ Values(F, "bind") # {} => Values(F, "probe") \subseteq Values(F, "bind")
      BY DEF ProbesAgree
    <2> HIDE DEF F
    <2>5. Judge(c, F) <=> Holds(c, R)
      BY <2>1, <2>2, <2>3, <2>4 DEF JudgeTransport
    <2> QED BY <2>5 DEF F
  <1>4. CASE c = "socket_permission_consistency"
    BY <1>4, SocketFacts
  <1>5. CASE c = "cloudflare_real_ip_trust"
    BY <1>5, RealIpFacts
  <1> QED BY <1>1, <1>2, <1>3, <1>4, <1>5 DEF Checks, UnionChecks

LEMMA EarlyAnswersJudge ==
    ASSUME NEW c \in Checks, NEW F
    PROVE  /\ Objects(c, F) => ~Judge(c, F)
           /\ Settles(c, F) => Judge(c, F)
  <1>1. CASE c \in OffenceChecks
    <2>1. Judge(c, F) <=> Fact("offence") \notin F
      BY <1>1 DEF Judge, OffenceChecks, EvidenceChecks
    <2>2. ~Settles(c, F) /\ c # "backend_port_consistency"
      BY <1>1 DEF Settles, OffenceChecks, EvidenceChecks
    <2> QED BY <2>1, <2>2 DEF Objects
  <1>2. CASE c \in EvidenceChecks
    <2>1. Judge(c, F) <=> Fact("found") \in F
      BY <1>2 DEF Judge, OffenceChecks, EvidenceChecks
    <2>2. ~Objects(c, F)
      BY <1>2 DEF Objects, OffenceChecks, EvidenceChecks
    <2> QED BY <2>1, <2>2 DEF Settles
  <1>3. CASE c \in UnionChecks
    <2>1. c \notin OffenceChecks /\ c \notin EvidenceChecks
      BY <1>3, OneKindOfCheck
    <2>2. c = "backend_port_consistency" => (Judge(c, F) <=> JudgeTransport(F))
      BY DEF Judge, OffenceChecks, EvidenceChecks
    <2> QED BY <2>1, <2>2 DEF Objects, Settles, JudgeTransport
  <1> QED BY <1>1, <1>2, <1>3, OneKindOfCheck

-----------------------------------------------------------------------------
(* The inductive invariant.                                                *)

FactsAreOfReads == facts = FactsOf(check, seen)

ReadsAreInScope == \A r \in seen : r[1] \in 1..pass /\ r[2] \in FilesOf(check, r[1])

PassedIsRead == \A k \in 1..pass : \A f \in FilesOf(check, k) :
                   (k < pass \/ f \notin left) => \E r \in seen : r[1] = k /\ r[2] = f

QuietReads == quiet => \A r \in seen : r[3] = text[r[2]]

Finished == left = {} /\ pass = Len(Passes(check))

AnswersAreJudged ==
    /\ verdict = "holds" => Judge(check, facts) /\ (Settles(check, facts) \/ Finished)
    /\ verdict = "violated" => ~Judge(check, facts) /\ (Objects(check, facts) \/ Finished)

ScanInv == /\ ScanTypeOK /\ FactsAreOfReads /\ ReadsAreInScope /\ PassedIsRead
           /\ QuietReads /\ AnswersAreJudged

LEMMA PassesAreFew ==
    ASSUME NEW c \in Checks
    PROVE  /\ Len(Passes(c)) \in 1..3
           /\ DOMAIN Passes(c) = 1..Len(Passes(c))
           /\ \A k \in DOMAIN Passes(c) : FilesOf(c, k) \subseteq Artifacts
  <1>1. \/ \E p \in Patterns : Passes(c) = <<p>>
        \/ \E p, q \in Patterns : Passes(c) = <<p, q>>
        \/ \E p, q, o \in Patterns : Passes(c) = <<p, q, o>>
    <2> USE DEF Passes, Patterns
    <2>1. CASE c = "backend_port_consistency"
      BY <2>1
    <2>2. CASE c = "secret_reference_integrity"
      BY <2>2
    <2>3. CASE c = "socket_permission_consistency"
      BY <2>3
    <2>4. CASE c = "cloudflare_real_ip_trust"
      BY <2>4
    <2>5. CASE c = "backup_retention_policy"
      BY <2>5
    <2>6. CASE c = "swap_memory_guard"
      BY <2>6
    <2>7. CASE c = "supervisor_service_valid"
      BY <2>7
    <2>8. CASE c \in {"nginx_configuration_must_validate", "nginx_syntax_valid"}
      BY <2>8
    <2>9. CASE c \in {"atomic_rollback_integrity", "ssh_firewall_allowed"}
      BY <2>9
    <2> QED BY <2>1, <2>2, <2>3, <2>4, <2>5, <2>6, <2>7, <2>8, <2>9
            DEF Checks, OffenceChecks, EvidenceChecks, UnionChecks
  <1>2. \A k \in DOMAIN Passes(c) : Passes(c)[k] \in Patterns
    BY <1>1
  <1>3. \A p \in Patterns : Glob[p] \subseteq Artifacts
    BY ContractAssumption DEF ContractAssumption
  <1>4. Len(Passes(c)) \in 1..3 /\ DOMAIN Passes(c) = 1..Len(Passes(c))
    BY <1>1
  <1> QED BY <1>2, <1>3, <1>4 DEF FilesOf

LEMMA ScanInit_Inv == ScanInit => ScanInv
  <1> SUFFICES ASSUME ScanInit PROVE ScanInv
    OBVIOUS
  <1> USE DEF ScanInit
  <1>1. ScanTypeOK
    <2>1. text \in [Artifacts -> Content \cup {Garbled}]
      BY ScanAssumption DEF ScanAssumption
    <2>2. pass \in DOMAIN Passes(check) /\ left \subseteq FilesOf(check, pass)
      BY PassesAreFew
    <2>3. edits \in 0..MaxEdits
      BY ScanAssumption DEF ScanAssumption
    <2> QED BY <2>1, <2>2, <2>3 DEF ScanTypeOK
  <1>2. FactsAreOfReads
    BY DEF FactsAreOfReads, FactsOf
  <1>3. ReadsAreInScope /\ PassedIsRead /\ QuietReads /\ AnswersAreJudged
    BY DEF ReadsAreInScope, PassedIsRead, QuietReads, AnswersAreJudged
  <1> QED BY <1>1, <1>2, <1>3 DEF ScanInv

LEMMA ReadFile_Inv ==
    ASSUME ScanInv, NEW f \in left, ReadFile(f)
    PROVE  ScanInv'
  <1> DEFINE r0 == <<pass, f, text[f]>>
             gathered == facts \cup FactsIn(check, pass, text[f])
  <1>0. /\ pass \in 1..Len(Passes(check)) /\ Len(Passes(check)) \in 1..3
        /\ f \in FilesOf(check, pass) /\ f \in Artifacts /\ check \in Checks
    BY PassesAreFew DEF ScanInv, ScanTypeOK
  <1>1. seen' = seen \cup {r0} /\ facts' = gathered /\ left' = left \ {f}
    BY DEF ReadFile
  <1>2. UNCHANGED <<text, check, pass, quiet, edits, before>> /\ verdict = "none"
    BY DEF ReadFile
  <1>3. verdict' = IF Objects(check, gathered) THEN "violated"
                   ELSE IF Settles(check, gathered) THEN "holds" ELSE "none"
    BY DEF ReadFile
  <1>4. r0[1] = pass /\ r0[2] = f /\ r0[3] = text[f]
    OBVIOUS
  <1>5. ScanTypeOK'
    <2>1. seen' \subseteq AllReads
      BY <1>0, <1>1 DEF ScanInv, ScanTypeOK, AllReads
    <2>2. verdict' = "holds" => check \in EvidenceChecks
      BY <1>3 DEF Settles
    <2>3. (left \subseteq FilesOf(check, pass))'
      BY <1>1, <1>2 DEF ScanInv, ScanTypeOK, FilesOf
    <2>4. verdict' \in {"none", "holds", "violated"}
      BY <1>3
    <2> QED BY <1>2, <2>1, <2>2, <2>3, <2>4 DEF ScanInv, ScanTypeOK, AllReads
  <1>6. FactsAreOfReads'
    <2>1. FactsOf(check, seen') = FactsOf(check, seen) \cup FactsIn(check, r0[1], r0[3])
      BY <1>1 DEF FactsOf
    <2> QED BY <1>1, <1>2, <1>4, <2>1 DEF ScanInv, FactsAreOfReads
  <1>7. ReadsAreInScope'
    BY <1>0, <1>1, <1>2, <1>4 DEF ScanInv, ReadsAreInScope, FilesOf
  <1>8. PassedIsRead'
    <2> SUFFICES ASSUME NEW k \in 1..pass, NEW g \in FilesOf(check, k),
                        k < pass \/ g \notin left'
                 PROVE  \E r \in seen' : r[1] = k /\ r[2] = g
      BY <1>2 DEF PassedIsRead, FilesOf
    <2>1. CASE k = pass /\ g = f
      BY <2>1, <1>1, <1>4
    <2>2. CASE k < pass \/ g \notin left
      BY <2>2, <1>1 DEF ScanInv, PassedIsRead
    <2>3. k < pass \/ k = pass
      BY <1>0
    <2> QED BY <2>1, <2>2, <2>3, <1>1
  <1>9. QuietReads'
    BY <1>1, <1>2, <1>4 DEF ScanInv, QuietReads
  <1>10. AnswersAreJudged'
    BY <1>0, <1>1, <1>2, <1>3, EarlyAnswersJudge DEF AnswersAreJudged
  <1> QED BY <1>5, <1>6, <1>7, <1>8, <1>9, <1>10 DEF ScanInv

LEMMA NextPass_Inv ==
    ASSUME ScanInv, NextPass
    PROVE  ScanInv'
  <1>0. /\ pass \in 1..Len(Passes(check)) /\ Len(Passes(check)) \in 1..3
        /\ DOMAIN Passes(check) = 1..Len(Passes(check)) /\ check \in Checks
    BY PassesAreFew DEF ScanInv, ScanTypeOK
  <1>1. ScanTypeOK'
    BY <1>0 DEF ScanInv, ScanTypeOK, NextPass, FilesOf
  <1>2. FactsAreOfReads'
    BY DEF ScanInv, FactsAreOfReads, NextPass
  <1>3. ReadsAreInScope'
    BY <1>0 DEF ScanInv, ReadsAreInScope, NextPass, FilesOf
  <1>4. PassedIsRead'
    <2> SUFFICES ASSUME NEW k \in 1..pass', NEW f \in FilesOf(check, k),
                        k < pass' \/ f \notin left'
                 PROVE  \E r \in seen : r[1] = k /\ r[2] = f
      BY DEF PassedIsRead, NextPass, FilesOf
    <2>1. k \in 1..pass
      BY <1>0 DEF NextPass
    <2>2. left = {}
      BY DEF NextPass
    <2> QED BY <2>1, <2>2 DEF ScanInv, PassedIsRead
  <1>5. QuietReads' /\ AnswersAreJudged'
    BY DEF ScanInv, QuietReads, AnswersAreJudged, NextPass
  <1> QED BY <1>1, <1>2, <1>3, <1>4, <1>5 DEF ScanInv

LEMMA Conclude_Inv ==
    ASSUME ScanInv, Conclude
    PROVE  ScanInv'
  <1> USE DEF Conclude
  <1>1. verdict' = (IF Judge(check, facts) THEN "holds" ELSE "violated") /\ Finished
    BY DEF Verdict, Finished
  <1>2. ScanTypeOK'
    BY <1>1 DEF ScanInv, ScanTypeOK, FilesOf
  <1>3. AnswersAreJudged'
    BY <1>1 DEF AnswersAreJudged, Finished
  <1>4. FactsAreOfReads' /\ ReadsAreInScope' /\ PassedIsRead' /\ QuietReads'
    BY DEF ScanInv, FactsAreOfReads, ReadsAreInScope, PassedIsRead, QuietReads, FilesOf
  <1> QED BY <1>2, <1>3, <1>4 DEF ScanInv

LEMMA Write_Inv ==
    ASSUME ScanInv, NEW f \in Artifacts, NEW t \in Versions(f), Write(f, t)
    PROVE  ScanInv'
  <1> USE DEF Write
  <1>1. ScanTypeOK'
    <2>1. t \in Content \cup {Garbled}
      BY ScanAssumption DEF ScanAssumption, Versions, ScanInv, ScanTypeOK
    <2>2. text' \in [Artifacts -> Content \cup {Garbled}]
      BY <2>1 DEF ScanInv, ScanTypeOK
    <2>3. edits' \in 0..MaxEdits
      BY ScanAssumption DEF ScanAssumption, ScanInv, ScanTypeOK
    <2> QED BY <2>2, <2>3 DEF ScanInv, ScanTypeOK, FilesOf
  <1>2. QuietReads'
    <2> SUFFICES ASSUME quiet', NEW r \in seen PROVE r[3] = text'[r[2]]
      BY DEF QuietReads
    <2>1. r[1] \in 1..pass /\ r[2] \in FilesOf(check, r[1]) /\ r[3] = text[r[2]]
      BY DEF ScanInv, ReadsAreInScope, QuietReads
    <2>2. r[1] \in DOMAIN Passes(check)
      BY <2>1, PassesAreFew DEF ScanInv, ScanTypeOK
    <2>3. r[2] \in Scope(check)
      BY <2>1, <2>2 DEF Scope
    <2> QED BY <2>1, <2>3 DEF ScanInv, ScanTypeOK
  <1>3. FactsAreOfReads' /\ ReadsAreInScope' /\ PassedIsRead' /\ AnswersAreJudged'
    BY DEF ScanInv, FactsAreOfReads, ReadsAreInScope, PassedIsRead, AnswersAreJudged,
           FilesOf, Finished
  <1> QED BY <1>1, <1>2, <1>3 DEF ScanInv

LEMMA ScanNext_Inv == ScanInv /\ [ScanNext]_scanVars => ScanInv'
  <1> SUFFICES ASSUME ScanInv, [ScanNext]_scanVars PROVE ScanInv'
    OBVIOUS
  <1>1. CASE \E f \in left : ReadFile(f)
    BY <1>1, ReadFile_Inv
  <1>2. CASE NextPass
    BY <1>2, NextPass_Inv
  <1>3. CASE Conclude
    BY <1>3, Conclude_Inv
  <1>4. CASE \E f \in Artifacts : \E t \in Versions(f) : Write(f, t)
    BY <1>4, Write_Inv
  <1>5. CASE UNCHANGED scanVars
    BY <1>5 DEF scanVars, ScanInv, ScanTypeOK, FactsAreOfReads, ReadsAreInScope, PassedIsRead,
                QuietReads, AnswersAreJudged, FilesOf, Finished
  <1> QED BY <1>1, <1>2, <1>3, <1>4, <1>5 DEF ScanNext, ScanStep

LEMMA ScanInvHolds == ScanSpec => []ScanInv
  BY ScanInit_Inv, ScanNext_Inv, PTL DEF ScanSpec

-----------------------------------------------------------------------------
(* The theorems.                                                           *)

\* The state of a check stays well formed, and only evidence found lets it
\* say yes before its last file.
THEOREM ScanTypeCorrect == ScanSpec => []ScanTypeOK
  <1>1. ScanInv => ScanTypeOK
    BY DEF ScanInv
  <1> QED BY <1>1, ScanInvHolds, PTL

\* A verdict is the contract's for exactly the contents that were read.
THEOREM VerdictsAreOfReads == ScanSpec => []VerdictIsOfWhatWasRead
  <1>1. ScanInv => VerdictIsOfWhatWasRead
    <2> SUFFICES ASSUME ScanInv, verdict # "none"
                 PROVE  verdict = "holds" <=> Holds(check, seen)
      BY DEF VerdictIsOfWhatWasRead
    <2>1. check \in Checks /\ \A r \in seen : r[1] \in 1..3
      BY DEF ScanInv, ScanTypeOK
    <2>2. Judge(check, facts) <=> Holds(check, seen)
      BY <2>1, JudgingIsHolding DEF ScanInv, FactsAreOfReads
    <2>3. verdict = "holds" <=> Judge(check, facts)
      BY DEF ScanInv, ScanTypeOK, AnswersAreJudged
    <2> QED BY <2>2, <2>3
  <1> QED BY <1>1, ScanInvHolds, PTL

\* A completed set of reads is made in the check's own passes.
LEMMA CompletedPasses ==
    ASSUME ScanInv, NEW t
    PROVE  check \in Checks /\ \A r \in Completed(check, seen, t) : r[1] \in 1..3
  <1>1. check \in Checks /\ \A r \in seen : r[1] \in 1..3
    BY DEF ScanInv, ScanTypeOK
  <1>2. \A r \in Reads(check, t) : r[1] \in DOMAIN Passes(check)
    BY DEF Reads
  <1>3. \A r \in Reads(check, t) : r[1] \in 1..3
    BY <1>1, <1>2, PassesAreFew
  <1> QED BY <1>1, <1>3 DEF Completed

\* A check that has answered has read all its files unless what it has read
\* decides, whatever the others hold.
LEMMA EarlyAnswersStand ==
    ASSUME ScanInv, verdict # "none", NEW t
    PROVE  Judge(check, facts) <=> Judge(check, FactsOf(check, Completed(check, seen, t)))
  <1> DEFINE A == Completed(check, seen, t)
             B == "backend_port_consistency"
  <1>0. /\ check \in Checks /\ pass \in 1..Len(Passes(check)) /\ Len(Passes(check)) \in 1..3
        /\ DOMAIN Passes(check) = 1..Len(Passes(check))
    BY PassesAreFew DEF ScanInv, ScanTypeOK
  <1>1. ASSUME NEW r \in A, r \notin seen
        PROVE  /\ r[1] \in 1..Len(Passes(check)) /\ r[2] \in FilesOf(check, r[1])
               /\ \A q \in seen : q[1] # r[1] \/ q[2] # r[2]
    <2>1. PICK k \in DOMAIN Passes(check) : \E f \in FilesOf(check, k) : r = <<k, f, t[f]>>
      BY <1>1 DEF Completed, Reads
    <2>2. r[1] = k /\ r[2] \in FilesOf(check, k)
      BY <2>1
    <2>3. \A q \in seen : q[1] # r[1] \/ q[2] # r[2]
      BY <1>1 DEF Completed
    <2> QED BY <1>0, <2>2, <2>3
  <1>2. ASSUME NEW r \in seen
        PROVE  r[1] \in 1..pass /\ r[2] \in FilesOf(check, r[1])
    BY DEF ScanInv, ReadsAreInScope
  <1>3. seen \subseteq A
    BY DEF Completed
  <1>4. ASSUME NEW r \in A, r[1] < pass \/ (r[1] = pass /\ left = {})
        PROVE  r \in seen
    BY <1>0, <1>1, <1>4 DEF ScanInv, PassedIsRead
  <1>5. FactsOf(check, seen) \subseteq FactsOf(check, A)
    BY <1>3 DEF FactsOf
  <1>6. facts = FactsOf(check, seen)
    BY DEF ScanInv, FactsAreOfReads
  <1>7. CASE Finished
    <2>1. A \subseteq seen
      BY <1>0, <1>1, <1>4, <1>7 DEF Finished
    <2> QED BY <2>1, <1>3, <1>6
  <1>8. CASE Settles(check, facts)
    <2>1. Settles(check, FactsOf(check, A))
      BY <1>5, <1>6, <1>8 DEF Settles
    <2> QED BY <1>0, <1>8, <2>1, EarlyAnswersJudge
  <1>9. CASE Objects(check, facts)
    <2>1. Objects(check, FactsOf(check, A))
      <3>1. CASE check \in OffenceChecks /\ Fact("offence") \in facts
        BY <3>1, <1>5, <1>6 DEF Objects
      <3>2. CASE check = B /\ ~ProbesAgree(facts)
        <4>1. /\ \A r \in seen : r[1] \in 1..3
              /\ \A r \in A : r[1] \in 1..3
          BY <1>0, <1>1, <1>2
        <4>2. PICK kind \in {"server_port", "bind"} :
                 Values(facts, kind) # {} /\ ~(Values(facts, "probe") \subseteq Values(facts, kind))
          BY <3>2 DEF ProbesAgree
        <4>3. /\ Values(facts, "server_port") = Said(InPass(seen, 1), "server_port")
              /\ Values(facts, "bind") = Said(InPass(seen, 2), "bind")
              /\ Values(facts, "probe") = Said(InPass(seen, 3), "probe")
          BY <3>2, <4>1, <1>6, TransportFacts
        <4>4. /\ Values(FactsOf(B, A), "server_port") = Said(InPass(A, 1), "server_port")
              /\ Values(FactsOf(B, A), "bind") = Said(InPass(A, 2), "bind")
              /\ Values(FactsOf(B, A), "probe") = Said(InPass(A, 3), "probe")
          BY <4>1, TransportFacts
        <4>5. pass = 3
          <5>1. \E r \in seen : r[1] = 3
            BY <4>2, <4>3 DEF Said, Readable, InPass
          <5> QED BY <5>1, <1>0, <1>2
        <4>6. InPass(A, 1) = InPass(seen, 1) /\ InPass(A, 2) = InPass(seen, 2)
          <5>1. ASSUME NEW r \in A, r[1] \in {1, 2}
                PROVE  r \in seen
            BY <5>1, <4>5, <1>4
          <5> QED BY <5>1, <1>3 DEF InPass
        <4>7. Values(facts, "probe") \subseteq Values(FactsOf(B, A), "probe")
          BY <3>2, <1>5, <1>6 DEF Values
        <4>8. Values(FactsOf(B, A), kind) = Values(facts, kind)
          BY <4>3, <4>4, <4>6
        <4>9. ~ProbesAgree(FactsOf(B, A))
          BY <4>2, <4>7, <4>8 DEF ProbesAgree
        <4> QED BY <4>9, <3>2 DEF Objects
      <3> QED BY <3>1, <3>2, <1>9 DEF Objects
    <2> QED BY <1>0, <1>9, <2>1, EarlyAnswersJudge
  <1> QED BY <1>7, <1>8, <1>9 DEF ScanInv, ScanTypeOK, AnswersAreJudged

\* Whatever the files it did not open hold, they would not have changed the
\* answer: returning early is sound.
LEMMA AnswersOutlast ==
    ASSUME ScanInv, verdict # "none", NEW t
    PROVE  verdict = "holds" <=> Holds(check, Completed(check, seen, t))
  <1>1. check \in Checks /\ \A r \in Completed(check, seen, t) : r[1] \in 1..3
    BY CompletedPasses
  <1>2. Judge(check, FactsOf(check, Completed(check, seen, t)))
          <=> Holds(check, Completed(check, seen, t))
    BY <1>1, JudgingIsHolding
  <1>3. verdict = "holds" <=> Judge(check, facts)
    BY DEF ScanInv, ScanTypeOK, AnswersAreJudged
  <1> QED BY <1>2, <1>3, EarlyAnswersStand

\* It is the contract's for every repository in which what was read stands.
LEMMA AnswersFitWhatWasRead ==
    ASSUME ScanInv, verdict # "none", NEW t, \A r \in seen : r[3] = t[r[2]]
    PROVE  verdict = "holds" <=> Holds(check, Reads(check, t))
  <1>1. ASSUME NEW r \in seen
        PROVE  r \in Reads(check, t)
    <2>1. r[1] \in DOMAIN Passes(check) /\ r[2] \in FilesOf(check, r[1])
      BY PassesAreFew DEF ScanInv, ScanTypeOK, ReadsAreInScope
    <2>2. r = <<r[1], r[2], t[r[2]]>>
      BY DEF ScanInv, ScanTypeOK
    <2> QED BY <2>1, <2>2 DEF Reads
  <1>2. ASSUME NEW r \in Reads(check, t), NEW q \in seen, q[1] = r[1], q[2] = r[2]
        PROVE  r = q
    <2>1. q = <<q[1], q[2], t[q[2]]>>
      BY DEF ScanInv, ScanTypeOK
    <2>2. r = <<r[1], r[2], t[r[2]]>>
      BY DEF Reads
    <2> QED BY <2>1, <2>2, <1>2
  <1>3. Completed(check, seen, t) = Reads(check, t)
    BY <1>1, <1>2 DEF Completed
  <1> QED BY <1>3, AnswersOutlast

\* Returning early is sound, whatever is written meanwhile.
THEOREM EarlyReturnsAreSound == ScanSpec => []EarlyAnswersAreFinal
  <1>1. ScanInv => EarlyAnswersAreFinal
    BY AnswersOutlast DEF EarlyAnswersAreFinal
  <1> QED BY <1>1, ScanInvHolds, PTL

\* The verdict of an undisturbed check is the contract's for the repository,
\* in whatever order the files are opened and wherever it stops.
THEOREM QuietVerdictsAreTrue == ScanSpec => []QuietVerdict
  <1>1. ScanInv => QuietVerdict
    BY AnswersFitWhatWasRead DEF QuietVerdict, ScanInv, QuietReads
  <1> QED BY <1>1, ScanInvHolds, PTL

-----------------------------------------------------------------------------
(* One write during a check.                                               *)

\* A pass reads each of its files once.
ReadsOnce == /\ \A r, q \in seen : r[1] = q[1] /\ r[2] = q[2] => r = q
             /\ \A r \in seen : r[1] = pass => r[2] \notin left

\* As long as there was one write, a file has had two contents at most.
OneWrite ==
    /\ edits = 0 => text = before
    /\ edits = 1 => \E f \in Artifacts : \A g \in Artifacts : g # f => text[g] = before[g]
    /\ edits <= 1 => \A r \in seen : r[3] \in {before[r[2]], text[r[2]]}

EditInv == ReadsOnce /\ OneWrite

LEMMA EditInit == ScanInit => EditInv
  BY DEF ScanInit, EditInv, ReadsOnce, OneWrite

LEMMA EditStep ==
    ASSUME ScanInv, EditInv, [ScanNext]_scanVars
    PROVE  EditInv'
  <1>0. /\ pass \in Nat /\ edits \in Nat
        /\ \A r \in seen : r[1] \in 1..pass /\ r[2] \in Artifacts
        /\ text \in [Artifacts -> Content \cup {Garbled}]
    BY PassesAreFew, ScanAssumption DEF ScanInv, ScanTypeOK, ReadsAreInScope
  <1>1. ASSUME NEW f \in left, ReadFile(f)
        PROVE  EditInv'
    <2>1. /\ seen' = seen \cup {<<pass, f, text[f]>>} /\ left' = left \ {f}
          /\ UNCHANGED <<text, pass, edits, before>>
      BY <1>1 DEF ReadFile
    <2>2. ReadsOnce'
      BY <2>1 DEF EditInv, ReadsOnce
    <2>3. OneWrite'
      BY <2>1 DEF EditInv, OneWrite
    <2> QED BY <2>2, <2>3 DEF EditInv
  <1>2. CASE NextPass
    <2>1. \A r \in seen : r[1] # pass'
      BY <1>0, <1>2 DEF NextPass
    <2> QED BY <1>2, <2>1 DEF NextPass, EditInv, ReadsOnce, OneWrite
  <1>3. CASE Conclude
    BY <1>3 DEF Conclude, EditInv, ReadsOnce, OneWrite
  <1>4. ASSUME NEW f \in Artifacts, NEW t \in Versions(f), Write(f, t)
        PROVE  EditInv'
    <2>1. /\ text' = [text EXCEPT ![f] = t] /\ edits' = edits + 1
          /\ UNCHANGED <<pass, left, seen, before>>
      BY <1>4 DEF Write
    <2>2. ReadsOnce'
      BY <2>1 DEF EditInv, ReadsOnce
    <2>3. CASE edits = 0
      <3>1. text = before /\ \A r \in seen : r[3] = before[r[2]]
        BY <2>3 DEF EditInv, OneWrite
      <3>2. \A g \in Artifacts : g # f => text'[g] = before'[g]
        BY <1>0, <2>1, <3>1
      <3> QED BY <2>1, <2>2, <2>3, <3>1, <3>2 DEF EditInv, OneWrite
    <2>4. CASE edits # 0
      <3>1. ~(edits' <= 1)
        BY <1>0, <2>1, <2>4
      <3> QED BY <2>2, <3>1 DEF EditInv, OneWrite
    <2> QED BY <2>3, <2>4
  <1>5. CASE UNCHANGED scanVars
    BY <1>5 DEF scanVars, EditInv, ReadsOnce, OneWrite
  <1> QED BY <1>1, <1>2, <1>3, <1>4, <1>5 DEF ScanNext, ScanStep

\* A check during which one file was written answers for the repository
\* before the write or after it, unless it reads that file twice.
THEOREM OneEditIsSeenWhole == ScanSpec => []OneEditIsAtomic
  <1>1. ASSUME ScanInv, EditInv, verdict # "none", edits <= 1,
               \A f \in Artifacts : text[f] # before[f] => InOnePass(f)
        PROVE  \E t \in {before, text} : \A r \in seen : r[3] = t[r[2]]
    <2>1. \A r \in seen : /\ r[1] \in DOMAIN Passes(check) /\ r[2] \in FilesOf(check, r[1])
                          /\ r[2] \in Artifacts
                          /\ r[3] \in {before[r[2]], text[r[2]]}
      BY <1>1, PassesAreFew DEF ScanInv, ScanTypeOK, ReadsAreInScope, EditInv, OneWrite
    <2>2. CASE edits = 0
      BY <1>1, <2>1, <2>2 DEF EditInv, OneWrite
    <2>3. CASE edits = 1
      <3>1. PICK f \in Artifacts : \A g \in Artifacts : g # f => text[g] = before[g]
        BY <1>1, <2>3 DEF EditInv, OneWrite
      <3>2. CASE text[f] = before[f]
        BY <2>1, <3>1, <3>2
      <3>3. CASE text[f] # before[f]
        <4>1. InOnePass(f)
          BY <1>1, <3>3
        <4>2. \A r, q \in seen : r[2] = f /\ q[2] = f => r = q
          BY <1>1, <2>1, <4>1 DEF InOnePass, EditInv, ReadsOnce
        <4>3. CASE \E r \in seen : r[2] = f /\ r[3] = text[f]
          BY <2>1, <3>1, <4>2, <4>3
        <4>4. CASE \A r \in seen : r[2] = f => r[3] # text[f]
          BY <2>1, <3>1, <4>4
        <4> QED BY <4>3, <4>4
      <3> QED BY <3>2, <3>3
    <2>4. edits \in Nat
      BY <1>1, ScanAssumption DEF ScanInv, ScanTypeOK
    <2> QED BY <1>1, <2>2, <2>3, <2>4
  <1>2. ScanInv /\ EditInv => OneEditIsAtomic
    BY <1>1, AnswersFitWhatWasRead DEF OneEditIsAtomic
  <1>3. ScanInv /\ EditInv /\ [ScanNext]_scanVars => EditInv'
    BY EditStep
  <1> QED BY <1>2, <1>3, EditInit, ScanInvHolds, PTL DEF ScanSpec
=============================================================================
