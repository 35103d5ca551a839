----------------------------- MODULE MCStartup -----------------------------
(* Start-up with the table sizes of the two board configurations, from the *)
(* bare prompt and from a script.                                          *)
EXTENDS Startup

MCDescriptors == [nsh_main |-> 8, dogfeed_main |-> 16]
MCInherited == {3, 4}
=============================================================================
