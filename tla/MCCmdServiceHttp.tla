-------------------------- MODULE MCCmdServiceHttp --------------------------
(* Small instances of CmdServiceHttp: two packages of one client whose     *)
(* numbers mirror each other, because the filter compares them.            *)
EXTENDS CmdServiceHttp

MirrorCommands == {Package(1, 1, 2), Package(1, 2, 1)}
=============================================================================
