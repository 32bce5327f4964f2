------------------------------- MODULE Board --------------------------------
(***************************************************************************)
(* A board on the desk of its user: it is flashed and started (Flashing),  *)
(* an application on it uses the console (Console), whose two directions   *)
(* have nothing to do with each other, the interrupts of its               *)
(* pins (Gpio) and the RPC server (JsonRpc), and one of the applications   *)
(* uses both cores (Cascade).                                              *)
(*                                                                         *)
(* The parts share no variable and no lock, and none of them calls         *)
(* another: the application is not there while the board is flashed, the   *)
(* interrupt of a port touches nothing but the port and the clock, the     *)
(* RPC server runs on the task of the network, and what the cascade        *)
(* prints may wait without holding anything.  So a behaviour of the        *)
(* board is determined by those of its parts, whatever their interleaving, *)
(* and every property below is about one part.  A behaviour of this module *)
(* therefore moves one part, chosen at the start, and leaves the others in *)
(* their initial state: it explores the union of the parts' states instead *)
(* of their product.                                                       *)
(***************************************************************************)
EXTENDS Flashing, Console, Gpio, JsonRpc, Cascade

VARIABLE
  part  \* the part that moves

boardVars == <<flashVars, consoleVars, gpioVars, rpcVars, cascadeVars, part>>

Parts == {"flash", "input", "output", "gpio", "rpc", "cascade"}

BoardInit ==
  /\ part \in Parts
  /\ FlashInit /\ ConsoleInit /\ GpioInit /\ RpcInit /\ CascadeInit
  /\ part # "flash" => mode = "app" /\ seen /\ tool = "done"

BoardNext ==
  \/ /\ part = "flash" /\ FlashNext
     /\ UNCHANGED <<consoleVars, gpioVars, rpcVars, cascadeVars, part>>
  \/ /\ \/ part = "input"  /\ Input
        \/ part = "output" /\ Output
     /\ UNCHANGED <<flashVars, gpioVars, rpcVars, cascadeVars, part>>
  \/ /\ part = "gpio" /\ GpioNext
     /\ UNCHANGED <<flashVars, consoleVars, rpcVars, cascadeVars, part>>
  \/ /\ part = "rpc" /\ RpcNext
     /\ UNCHANGED <<flashVars, consoleVars, gpioVars, cascadeVars, part>>
  \/ /\ part = "cascade" /\ CascadeNext
     /\ UNCHANGED <<flashVars, consoleVars, gpioVars, rpcVars, part>>

\* In its initial state here a part that does not move owes nothing; the console,
\* the pins and the RPC server promise nothing that needs them to go on.
BoardSpec == BoardInit /\ [][BoardNext]_boardVars /\ FlashFairness /\ CascadeFairness
=============================================================================
