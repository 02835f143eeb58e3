------------------------------ MODULE MCBoard -------------------------------
(* The game's threads, and besides them a thread of a higher priority and a *)
(* mutex it shares with main and the LED thread, so that there are chains   *)
(* and nests for the priority to be inherited along.                        *)
EXTENDS Board

CONSTANTS blink, high

MCRealPrio == [t \in Threads |-> CASE t = Idle -> 1 [] t = video -> 2
                                   [] t = high -> 4 [] OTHER -> 3]

MCUses == [t \in Threads |-> CASE t = main -> {1, 2} [] t = video -> {2}
                               [] t = Idle -> {} [] OTHER -> {1}]

MCNapsWith == [t \in Threads |-> {1}]
=============================================================================
