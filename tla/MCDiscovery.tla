---------------------------- MODULE MCDiscovery -----------------------------
(***************************************************************************)
(* Model checking of Discovery and Resubmission on the ties of the         *)
(* repository's own templates: a proxy, the socket and the port of the     *)
(* server's start script, the environment file that sets the port; an old  *)
(* copy of the script, of the same name; a file named as the environment   *)
(* file without its dot; and a declared balancer that routes to the        *)
(* upstream, or names a path.                                              *)
(***************************************************************************)
EXTENDS Resubmission, Integers, TLC

CONSTANTS nginxConf, gunicornSh, oldSh, dotEnv, env, infraYml

MCFiles == {nginxConf, gunicornSh, oldSh, dotEnv, env, infraYml}
MCCanonical == [f \in MCFiles |-> f]
MCStripped == [f \in MCFiles |-> IF f = dotEnv THEN env ELSE f]

upstream == <<"upstream", "webapp_backend">>
script == <<"script", "gunicorn_start">>
socket == <<"socket", "gunicorn">>
port == <<"port", "8000">>
settings == <<"config", dotEnv>>
balancer == <<"external", "balancer">>
envPath == <<"path", env>>

Line(file, src, dst) == [src |-> src, dst |-> dst, file |-> file]

Proxied == Line(nginxConf, upstream, socket)
ProxiedByPort == Line(nginxConf, upstream, <<"endpoint", "8000">>)
Bound == Line(gunicornSh, script, socket)
BoundByPort == Line(gunicornSh, script, port)
PortSet == Line(dotEnv, settings, port)
Routed == Line(infraYml, balancer, upstream)
RoutedToPath == Line(infraYml, balancer, envPath)

MCBlocks == {<<nginxConf, upstream>>, <<gunicornSh, script>>, <<oldSh, script>>}
TiedLines == {Proxied, Bound, BoundByPort, PortSet, Routed, RoutedToPath}
PortLines == {ProxiedByPort, BoundByPort}

MCNodes == {b[2] : b \in MCBlocks} \cup {l.src : l \in TiedLines \cup PortLines}
              \cup {l.dst : l \in TiedLines \cup PortLines}

ScanOrder == <<nginxConf, gunicornSh, oldSh, dotEnv, env, infraYml>>

MCLastOf == [S \in (SUBSET MCFiles) \ {{}} |->
                ScanOrder[CHOOSE i \in 1..6 : ScanOrder[i] \in S
                             /\ \A j \in (i + 1)..6 : ScanOrder[j] \notin S]]

MCOverlaps == {<<f, f>> : f \in MCFiles} \cup {<<env, dotEnv>>}
MCNameEnds == {<<env, settings>>, <<env, envPath>>}
MCDrafts == {{dotEnv}}
=============================================================================
