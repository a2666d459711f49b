--------------------------- MODULE ContractEngine ---------------------------
(***************************************************************************)
(* harness/contracts.py, and the probes of harness/tools.py that work the  *)
(* same way: what each check looks for in the files it reads, when it      *)
(* returns early, and how it judges what it has gathered.                  *)
(* glob says nothing of the order of the files within a pattern; the three *)
(* trees of the swap guard are taken as one.                               *)
(*                                                                         *)
(* A file's content is the set of its marks, pairs <<kind, value>> of what *)
(* the regular expressions and substring tests tell apart.  Of a kind that *)
(* re.search looks for (bind, socket_var, probe) it is the first.          *)
(***************************************************************************)
EXTENDS Naturals, Sequences

CONSTANTS Artifacts,         \* the files of the repository
          Glob,              \* the files each pattern matches
          Marks,             \* what a file may say
          CloudflareRanges   \* CLOUDFLARE_IPV4_CIDRS and CLOUDFLARE_IPV6_CIDRS

Patterns == {"nginx_side", "conf", "nginx_dir", "supervisor_dir", "sh", "health", "backup",
             "swap_trees", "all", "outside_harness"}

Content == SUBSET Marks

\* What stands for a file that cannot be read or decoded.
Garbled == {<<"garbled", "-">>}

ASSUME ContractAssumption == /\ Glob \in [Patterns -> SUBSET Artifacts]
                             /\ Garbled \notin Content

\* A check fails as soon as one file offends, ...
OffenceChecks == {"secret_reference_integrity", "nginx_configuration_must_validate",
                  "backup_retention_policy", "swap_memory_guard", "nginx_syntax_valid"}
\* ... holds as soon as one file shows what it looks for, ...
EvidenceChecks == {"atomic_rollback_integrity", "ssh_firewall_allowed",
                   "supervisor_service_valid"}
\* ... or compares what all of them say.
UnionChecks == {"backend_port_consistency", "socket_permission_consistency",
                "cloudflare_real_ip_trust"}

Checks == OffenceChecks \cup EvidenceChecks \cup UnionChecks

\* The patterns a check goes through, one after the other.
Passes(c) ==
    CASE c = "backend_port_consistency"          -> <<"nginx_side", "sh", "health">>
      [] c = "secret_reference_integrity"        -> <<"all", "outside_harness">>
      [] c = "socket_permission_consistency"     -> <<"sh">>
      [] c = "cloudflare_real_ip_trust"          -> <<"conf">>
      [] c = "backup_retention_policy"           -> <<"backup">>
      [] c = "swap_memory_guard"                 -> <<"swap_trees">>
      [] c = "supervisor_service_valid"          -> <<"supervisor_dir">>
      [] c \in {"nginx_configuration_must_validate", "nginx_syntax_valid"} -> <<"nginx_dir">>
      [] c \in {"atomic_rollback_integrity", "ssh_firewall_allowed"}       -> <<"all">>

-----------------------------------------------------------------------------
(* What one file contributes.                                              *)

Says(t, kinds) == \E m \in t : m[1] \in kinds

Offends(c, k, t) ==
    \/ /\ c = "secret_reference_integrity" /\ k = 2
       /\ Says(t, {"raw_key"}) /\ ~Says(t, {"secret_ref"})
    \/ /\ c \in {"nginx_configuration_must_validate", "nginx_syntax_valid"}
       /\ Says(t, {"unbalanced"})
    \/ /\ c = "backup_retention_policy"
       /\ Says(t, {"short_retention", "critical_dir", "zero_retain"})
    \/ /\ c = "swap_memory_guard"
       /\ Says(t, {"swapfile"}) /\ Says(t, {"loose_mode"})

Shows(c, t) ==
    \/ c = "atomic_rollback_integrity" /\ Says(t, {"current"}) /\ Says(t, {"releases"})
    \/ c = "ssh_firewall_allowed" /\ Says(t, {"allow_ssh"})
    \/ c = "supervisor_service_valid" /\ Says(t, {"program"})

HasSocket(t) == Says(t, {"socket_var", "socket_word"})
RestoresRealIp(t) == Says(t, {"trust", "cf_word", "cf_header"})

\* The kinds each pass of backend_port_consistency looks for.
TransportKinds == <<{"server_port", "server_socket"}, {"bind", "socket_var"}, {"probe"}>>

Fact(kind) == <<kind, "-">>

ReadFacts(c, k, t) ==
    CASE c \in OffenceChecks  -> {x \in {Fact("offence")} : Offends(c, k, t)}
      [] c \in EvidenceChecks -> {x \in {Fact("found")} : Shows(c, t)}
      [] c = "backend_port_consistency" -> {m \in t : m[1] \in TransportKinds[k]}
      [] c = "socket_permission_consistency" ->
            {x \in {Fact("socket")} : HasSocket(t)}
              \cup {x \in {Fact("granted")} : HasSocket(t) /\ Says(t, {"grant"})}
      [] c = "cloudflare_real_ip_trust" ->
            {x \in {Fact("real_ip")} : RestoresRealIp(t)}
              \cup {m \in t : m[1] \in {"trust", "cf_header", "recursive"} /\ RestoresRealIp(t)}

\* A file that cannot be read is passed over; only the syntax probe minds.
FactsIn(c, k, t) ==
    IF t # Garbled THEN ReadFacts(c, k, t)
    ELSE {x \in {Fact("offence")} : c = "nginx_syntax_valid"}

-----------------------------------------------------------------------------
(* What the check makes of them.                                           *)

Values(facts, kind) == {m[2] : m \in {x \in facts : x[1] = kind}}

\* Two sets of values agree, or one side says nothing.
Agree(S, T) == S = {} \/ T = {} \/ S = T

ProbesAgree(facts) ==
    \A kind \in {"server_port", "bind"} :
        Values(facts, kind) = {} \/ Values(facts, "probe") \subseteq Values(facts, kind)

JudgeTransport(facts) ==
    /\ ProbesAgree(facts)
    /\ Agree(Values(facts, "server_port"), Values(facts, "bind"))
    /\ Agree(Values(facts, "server_socket"), Values(facts, "socket_var"))

\* No open range, no other range, and none of Cloudflare's missing.
JudgeRealIp(facts) ==
    Fact("real_ip") \in facts =>
        /\ Values(facts, "cf_header") # {}
        /\ Values(facts, "recursive") # {}
        /\ Values(facts, "trust") = CloudflareRanges

\* Wrong: ports and sockets are compared while files are still to be read.
ObjectsOnPartial(c, facts) ==
    \/ c \in OffenceChecks /\ Fact("offence") \in facts
    \/ c = "backend_port_consistency" /\ ~JudgeTransport(facts)

\* return False and return True before the last file.
Objects(c, facts) ==
    \/ c \in OffenceChecks /\ Fact("offence") \in facts
    \/ c = "backend_port_consistency" /\ ~ProbesAgree(facts)

\* Wrong: the return True has slipped into the loop.
SettlesInLoop(c, facts) ==
    \/ c \in EvidenceChecks /\ Fact("found") \in facts
    \/ c \in OffenceChecks /\ Fact("offence") \notin facts

Settles(c, facts) == c \in EvidenceChecks /\ Fact("found") \in facts

Judge(c, facts) ==
    CASE c \in OffenceChecks  -> Fact("offence") \notin facts
      [] c \in EvidenceChecks -> Fact("found") \in facts
      [] c = "backend_port_consistency" -> JudgeTransport(facts)
      [] c = "socket_permission_consistency" ->
            Fact("socket") \in facts => Fact("granted") \in facts
      [] c = "cloudflare_real_ip_trust" -> JudgeRealIp(facts)
=============================================================================
