----------------------------- MODULE MCHarness ------------------------------
(***************************************************************************)
(* Instances of Harness for TLC.  Two files are tied together by a socket  *)
(* on some disks and independent on others; an environment file, which may *)
(* be declared with its dot or without, is tied to one of them; one        *)
(* contract is violated on some disks, one name is known to no engine.     *)
(***************************************************************************)
EXTENDS HarnessProperties, TLC

CONSTANTS nginxConf, gunicornSh, dotEnv, env,       \* files
          pNginx, pDotNginx, pGunicorn, pEnv, pDotEnv, pUp,  \* spellings
          nNginx, nSocket, nGunicorn, nPort, nEnv,  \* graph nodes
          cPort, cSyntax, cUnknown,        \* contracts
          days30, days90, noArgument       \* arguments

MCFiles == {nginxConf, gunicornSh, dotEnv, env}
MCPathNames == {pNginx, pDotNginx, pGunicorn, pEnv, pDotEnv, pUp}
MCCanonical == (pNginx :> nginxConf) @@ (pDotNginx :> nginxConf) @@ (pGunicorn :> gunicornSh)
                  @@ (pEnv :> env) @@ (pDotEnv :> dotEnv) @@ (pUp :> Illegal)
MCStripped == [f \in MCFiles |-> IF f = dotEnv THEN env ELSE f]
MCNodes == {nNginx, nSocket, nGunicorn, nPort, nEnv}
MCContracts == {cPort, cSyntax, cUnknown}
MCKnown == {cPort, cSyntax}

NodeFile == (nNginx :> nginxConf) @@ (nSocket :> NoFile) @@ (nGunicorn :> gunicornSh)
               @@ (nPort :> NoFile) @@ (nEnv :> dotEnv)

GraphWith(edges, failures) ==
    [nodes |-> MCNodes, file |-> NodeFile, edges |-> edges,
     names |-> {<<nginxConf, nNginx>>, <<gunicornSh, nGunicorn>>, <<env, nEnv>>},
     failures |-> failures]

Proxied == [src |-> nNginx, dst |-> nSocket, file |-> nginxConf]
Bound == [src |-> nGunicorn, dst |-> nSocket, file |-> gunicornSh]
Opened == [src |-> nGunicorn, dst |-> nPort, file |-> gunicornSh]
PortSet == [src |-> nEnv, dst |-> nPort, file |-> dotEnv]

Tied == GraphWith({Proxied, Bound, Opened, PortSet}, {})
Loose == GraphWith({Proxied, Opened, PortSet}, {})
Unparsed == GraphWith({Proxied}, {nginxConf})

DiskOf(g, failing, probes) == [graph |-> g, failing |-> failing, probes |-> probes]

MCDisks == {DiskOf(Loose, {}, Probes), DiskOf(Tied, {cSyntax}, {}),
            DiskOf(Unparsed, {}, {"ssh"})}

CalmDisks == {DiskOf(Loose, {}, Probes), DiskOf(Loose, {cSyntax}, {})}

OneDisk == {DiskOf(Loose, {}, Probes)}

Submitted(paths, invs, complete) ==
    [paths |-> paths, invariants |-> invs, complete |-> complete]

MCSubmissions == {Submitted({pNginx}, {cPort}, TRUE),
                  Submitted({pNginx, pGunicorn, pDotNginx, pEnv}, {cPort, cSyntax}, TRUE),
                  Submitted({pDotEnv}, {cPort}, TRUE),
                  Submitted({pGunicorn}, {cUnknown}, TRUE),
                  Submitted({pUp, pNginx}, {cPort}, TRUE),
                  Submitted({}, {cPort}, TRUE),
                  Submitted({pNginx}, {}, TRUE),
                  Submitted({pNginx}, {cPort}, FALSE)}

OneSubmission == {Submitted({pNginx}, {cPort}, TRUE)}

Amended(i, paths, invs, reasoned) ==
    [id |-> i, paths |-> paths, invariants |-> invs, reasoned |-> reasoned]

MCAmendments == UNION {{Amended(i, {pGunicorn, pEnv}, {}, TRUE), Amended(i, {pDotNginx}, {cSyntax}, TRUE),
                        Amended(i, {pUp}, {}, TRUE), Amended(i, {}, {cUnknown}, TRUE),
                        Amended(i, {pGunicorn}, {}, FALSE)} : i \in Ids}

OneAmendment == {Amended(i, {pGunicorn, pEnv}, {cSyntax}, TRUE) : i \in Ids}

Asked(tool, i, argument) ==
    [tool |-> tool, id |-> i, argument |-> argument, clean |-> TRUE]

LifecycleRequests ==
    UNION {{Asked("t2_stage_release_directory", i, noArgument),
            Asked("t2_stage_config_patch", i, pEnv),
            Asked("t2_stage_config_patch", i, pDotEnv),
            Asked("t4_unrecognised", i, noArgument)} : i \in Ids}
    \cup {Asked("t1_inspect_service_status", 0, noArgument),
          [Asked("t2_stage_release_directory", 1, noArgument) EXCEPT !.clean = FALSE]}

SwitchRequests ==
    {Asked("t3_atomic_symlink_switch", 1, r) : r \in Releases}
    \cup {Asked(t, 1, noArgument) : t \in {"t4_reload_nginx", "t4_restart_supervisor",
                                           "t5_firewall_lockdown"}}

DestructiveRequests ==
    {Asked("t5_purge_old_backups", 1, days30), Asked("t5_firewall_lockdown", 1, noArgument)}
=============================================================================
