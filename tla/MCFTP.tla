-------------------------------- MODULE MCFTP --------------------------------
(* FTP for TLC: a relative path that ends in a slash, and an absolute one that *)
(* goes up further than it has come down.                                      *)
EXTENDS FTP

MCPaths == {Relative(<<"a", "b", "">>), Absolute(<<"d", "..", "..", "e">>)}
=============================================================================
