--------------------------- MODULE MCEphemeralStore ---------------------------
(* A small instance of EphemeralStore for TLC: prefixes and keys that fall   *)
(* together when a prefix may hold the separator, and some that New or Put   *)
(* must turn away.                                                           *)
EXTENDS EphemeralStore

MCCharacters == {"m", "n", "k", ":", " "}
MCPrefixes == {<<"m">>, <<"n">>, <<"m", ":", "k">>, <<" ", "m">>, <<>>}
MCKeys == {<<"k">>, <<"k", ":", "k">>, <<"k", " ">>, <<"k", "k", "k", "k">>}
MCExpiries == -1..2
=============================================================================
