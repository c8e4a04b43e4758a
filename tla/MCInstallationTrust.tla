------------------------ MODULE MCInstallationTrust ------------------------
(* Two threads of one process and one of another. *)
EXTENDS InstallationTrust, TLC

CONSTANTS a, b, c
MCProcessOf == a :> "p" @@ b :> "p" @@ c :> "q"
=============================================================================
