--------------------------- MODULE MCContractScan ---------------------------
(***************************************************************************)
(* Model checking of ContractScan: two nginx files, the supervisor's, the  *)
(* start, health and backup scripts, and a file of the harness itself,     *)
(* each with the few contents that the check at hand tells apart.          *)
(***************************************************************************)
EXTENDS ContractScan, TLC

CONSTANTS site, snippet, service, start, health, backup, policy

MCArtifacts == {site, snippet, service, start, health, backup, policy}

MCGlob == [p \in Patterns |->
             CASE p \in {"nginx_side", "nginx_dir"} -> {site, snippet}
               [] p = "conf"            -> {site, snippet, service}
               [] p = "supervisor_dir"  -> {service}
               [] p = "sh"              -> {start, health, backup}
               [] p = "health"          -> {health}
               [] p = "backup"          -> {backup}
               [] p = "all"             -> MCArtifacts
               [] OTHER                 -> MCArtifacts \ {policy}]

MCCloudflareRanges == {"v4", "v6"}

MCMarks == {"server_port", "bind", "probe"} \X {"8000", "8001"}
             \cup {"server_socket", "socket_var"} \X {"app.sock", "old.sock"}
             \cup {"trust"} \X {"v4", "v6", "any"}
             \cup {"raw_key", "secret_ref", "unbalanced", "short_retention", "zero_retain",
                   "critical_dir", "swapfile", "loose_mode", "current", "releases", "allow_ssh",
                   "program", "socket_word", "grant", "cf_word", "cf_header",
                   "recursive"} \X {"-"}

Trusts(ranges) == {"trust"} \X ranges
Flags(kinds) == kinds \X {"-"}

Blank == [f \in MCArtifacts |-> {}]

PortTrees ==
    {(site :> a) @@ (snippet :> b) @@ (start :> c) @@ (health :> d) @@ Blank :
        a \in {{<<"server_port", "8000">>}, {<<"server_socket", "app.sock">>}, Garbled},
        b \in {{}, {<<"server_port", "8001">>}},
        c \in {{<<"bind", "8000">>}, {<<"bind", "8001">>}, {<<"socket_var", "old.sock">>}},
        d \in {{}, {<<"probe", "8001">>, <<"bind", "8001">>}}}

TrustTrees ==
    {(site :> a) @@ (snippet :> b) @@ Blank :
        a \in {{}, Flags({"cf_header", "recursive"}), Trusts({"any"})},
        b \in {Trusts({"v4", "v6"}), Trusts({"v4"}), Garbled}}

SocketTrees ==
    {(start :> a) @@ (health :> b) @@ Blank :
        a \in {Flags({"socket_word"}), Flags({"socket_word", "grant"}), Garbled},
        b \in {{}, Flags({"grant"}), {<<"socket_var", "app.sock">>} \cup Flags({"grant"})}}

SecretTrees ==
    {(start :> a) @@ (policy :> Flags({"raw_key"})) @@ (backup :> Garbled) @@ Blank :
        a \in {Flags({"raw_key"}), Flags({"raw_key", "secret_ref"})}}

SyntaxTrees ==
    {(site :> a) @@ (snippet :> b) @@ Blank :
        a \in {{}, Flags({"unbalanced"}), Garbled}, b \in {{}, Garbled}}

SwapTrees ==
    {(start :> a) @@ (backup :> Flags({"loose_mode"})) @@ Blank :
        a \in {Flags({"swapfile"}), Flags({"swapfile", "loose_mode"})}}

RollbackTrees ==
    {(start :> a) @@ (site :> Flags({"releases"})) @@ Blank :
        a \in {Flags({"current"}), Flags({"current", "releases"})}}

OneOf(f, contents) == {(f :> a) @@ Blank : a \in contents}

TreesOf(c) ==
    CASE c = "backend_port_consistency"      -> PortTrees
      [] c = "cloudflare_real_ip_trust"      -> TrustTrees
      [] c = "socket_permission_consistency" -> SocketTrees
      [] c = "secret_reference_integrity"    -> SecretTrees
      [] c = "swap_memory_guard"             -> SwapTrees
      [] c = "atomic_rollback_integrity"     -> RollbackTrees
      [] c = "ssh_firewall_allowed"          -> OneOf(start, {{}, Flags({"allow_ssh"}), Garbled})
      [] c = "supervisor_service_valid"      -> OneOf(service, {{}, Flags({"program"}), Garbled})
      [] c = "backup_retention_policy"       ->
            OneOf(backup, {Flags({k}) : k \in {"short_retention", "zero_retain", "critical_dir"}}
                            \cup {{}, Garbled})
      [] OTHER                               -> SyntaxTrees

MCTrees == [c \in Checks |-> TreesOf(c)]
=============================================================================
