-------------------------------- MODULE Board -------------------------------
(***************************************************************************)
(* The threads of the game on the kernel: main at NORMALPRIO, the video    *)
(* thread at LOWPRIO, and the mutex of vbuf they share (main.c:24-79).     *)
(* What Video assumes of the scheduler is shown here to be what the kernel *)
(* does: both implement Turns.                                             *)
(***************************************************************************)
EXTENDS Kernel

CONSTANTS main, video, vbuf

ASSUME BoardAssumption ==
  /\ {main, video} \subseteq Threads \ {Idle} /\ RealPrio[video] < RealPrio[main]
  /\ vbuf \in Mutexes /\ vbuf \notin NapsWith[main] /\ Uses[video] = {vbuf}
  /\ main = First /\ main \notin Suspends
  /\ \A t \in Threads \ {main, video} : vbuf \notin Uses[t]
  /\ \A m \in Mutexes : m <= vbuf

MainIs == CASE k.state[main] \in {"CURRENT", "READY"}          -> "runs"
            [] k.state[main] = "WTMTX" /\ k.u[main] = vbuf     -> "waits"
            [] OTHER                                           -> "sleeps"

T == INSTANCE Turns WITH main <- MainIs, held <- k.owner[vbuf] = video

(* The kernel gives main and the video thread the turns Video relies on. *)
TakesTurns == T!Spec

(* The video thread runs only while main does not want to, also with a     *)
(* priority it has inherited.                                              *)
VideoYields == (k.current = video /\ ~isr) => MainIs # "runs"
=============================================================================
