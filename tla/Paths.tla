------------------------------- MODULE Paths --------------------------------
(***************************************************************************)
(* The paths of the repository, and canonicalize_path of                   *)
(* harness/manifest.py: several spellings denote one file, and the         *)
(* spellings it refuses (empty, absolute, drive letter, "..") denote none. *)
(***************************************************************************)
CONSTANTS Files,      \* canonical relative paths
          PathNames,  \* the spellings a caller may write
          Canonical,  \* what canonicalize_path makes of each spelling
          Illegal,    \* it raises
          Stripped    \* what lstrip("./") makes of a canonical path

ASSUME PathsAssumption ==
    /\ Illegal \notin Files
    /\ Canonical \in [PathNames -> Files \cup {Illegal}]
    /\ Stripped \in [Files -> Files]
    /\ \A f \in Files : Stripped[Stripped[f]] = Stripped[f]

CanonicalPaths(paths) == {Canonical[p] : p \in paths}

(***************************************************************************)
(* The impact analyzer and the change surface guard strip canonical paths  *)
(* of every leading dot and slash before they compare them: ".env" and     *)
(* "env" are two files and one declared target.                            *)
(***************************************************************************)
Declared(targets) == {Stripped[f] : f \in targets}
=============================================================================
