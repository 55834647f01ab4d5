---------------------------- MODULE MCOfflineBundle ----------------------------
(* Small instances of OfflineBundle for TLC. *)
EXTENDS OfflineBundle

CommandLines == {
    <<"install", "--bundle", "archive">>,
    <<"install", "--force", "--bundle", "dir">>,
    <<"install", "--dry-run">>,
    <<"update", "--bundle", "dir">>,
    <<"update", "--allow-downgrade", "--bundle", "archive">>,
    <<"uninstall">>,
    <<"doctor", "--mode", "full">>,
    <<"install", "--bundle", "--force">>,
    <<"install", "--version">>,
    <<"--", "install">> }
AnyHome == {"good", "bad", "missing"}
TarballListed == {{"tarball"}}
================================================================================
