--------------------------- MODULE PackageFilter ----------------------------
(***************************************************************************)
(* The filter both command services put in front of the serial controller: *)
(* sendMail, and the map cmdPackageIdentify it keeps.  A package names its *)
(* client, its command and itself by three numbers.  known is the map:     *)
(* for a client it holds the one entry made for its first package.         *)
(***************************************************************************)
EXTENDS Integers

Package(client, cmd, package) ==
  [clientId |-> client, cmdId |-> cmd, packageId |-> package]

NothingKnown == <<>>

(* The constructor of CmdPackageIdentify takes (cmdId, packageId,          *)
(* clientId); try_emplace hands it (packageId, cmdId, clientId).           *)
CmdPackageIdentify(cmdId, packageId, clientId) ==
  Package(clientId, cmdId, packageId)
Entry(p) == CmdPackageIdentify(p.packageId, p.cmdId, p.clientId)

(* Packages without a client go past the filter.                           *)
HasClient(p) == p.clientId > 0

Ignored(known, p) ==
  /\ HasClient(p)
  /\ p.clientId \in DOMAIN known
  /\ known[p.clientId] = p

(* The entry of a client that is known already is copied, and the update   *)
(* goes to the copy.                                                       *)
Remember(known, p) ==
  IF HasClient(p) /\ p.clientId \notin DOMAIN known
  THEN [c \in DOMAIN known \cup {p.clientId} |->
          IF c \in DOMAIN known THEN known[c] ELSE Entry(p)]
  ELSE known
=============================================================================
