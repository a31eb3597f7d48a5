-------------------------- MODULE MCAutorunInstall --------------------------
(* A small instance: the NRO and a DLL, which every release ships, and a   *)
(* file the second release adds, which is the user's once it exists.       *)
EXTENDS AutorunInstall, TLC

CONSTANTS nro, ntdll, config, r1, r2

MCFiles   == {nro, ntdll, config}
MCManaged == {nro, ntdll}
MCShips   == (r1 :> MCManaged) @@ (r2 :> MCFiles)
=============================================================================
