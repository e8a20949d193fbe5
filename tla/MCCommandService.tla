-------------------------- MODULE MCCommandService --------------------------
(* Small instances of CommandService: the numbers of commands and packages *)
(* overlap, because the filter compares them.                              *)
EXTENDS CommandService

MirrorCommands == {Package(1, 1, 2), Package(1, 2, 1), Package(2, 1, 2),
                   Package(0, 1, 2)}
TwoCommands == {Package(1, 1, 2), Package(1, 2, 1)}
=============================================================================
