-------------------------------- MODULE MCVm --------------------------------
(***************************************************************************)
(* TLC instances of Vm: four levels of two entries each, an address is     *)
(* four bits.  The ranges keep what matters of the layout: the shared      *)
(* section is inside the kernel image, the trampoline of a task is a page  *)
(* of the kernel image with the user code behind it, stacks and per-cpu    *)
(* pages are at the top with guard pages between the stacks, and ranges    *)
(* share tables or not.                                                    *)
(***************************************************************************)
EXTENDS Vm

MCKern == << <<0,0,0,0>>, <<0,0,0,1>> >>
MCShared == << <<0,0,0,1>> >>
MCTmp == << <<0,0,1,0>> >>
MCDevices == << <<0,0,1,1>> >>
MCKstack == << <<1,1,0,0>>, <<1,1,1,0>> >>
MCMyCpu == << <<1,1,1,1>> >>
MCTrapframe == <<0,0,1,1>>
MCStack == <<0,0,1,0>>
MCTrampoline == << <<0,0,0,0>> >>
MCUser == << <<0,0,0,1>> >>
MCPools == (0..8) \cup {10, 12, 14, 16, 19, 22}
=============================================================================
