-------------------------- MODULE MCPersonaConsole ---------------------------
(* Instances of PersonaConsole for TLC.                                    *)
EXTENDS PersonaConsole
=============================================================================
