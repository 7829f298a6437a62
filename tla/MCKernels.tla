----------------------------- MODULE MCKernels -----------------------------
(***************************************************************************)
(* The algorithms below the clients, one at a time: the replay window, the *)
(* congestion control, the static heap and the retransmission table.  part *)
(* names the one that runs; the others rest in an initial state.           *)
(***************************************************************************)
EXTENDS ReplayWindow, Bbr, StaticHeap, RetxTable

VARIABLE part

kernelVars == <<part, vars, ccVars, heapVars, retxVars>>

McSlotOf == [t \in HeapThreads |-> t % SlotCount]

KernelInit ==
    /\ part \in {"replay", "cc", "heap", "retx"}
    /\ Init /\ CcInit /\ init_static_heap /\ RetxInit

KernelNext ==
    /\ UNCHANGED part
    /\ \/ part = "replay" /\ Next
          /\ UNCHANGED <<ccVars, heapVars, retxVars>>
       \/ part = "cc" /\ CcNext
          /\ UNCHANGED <<vars, heapVars, retxVars>>
       \/ part = "heap" /\ HeapNext
          /\ UNCHANGED <<vars, ccVars, retxVars>>
       \/ part = "retx" /\ RetxNext
          /\ UNCHANGED <<vars, ccVars, heapVars>>

KernelSpec == KernelInit /\ [][KernelNext]_kernelVars
=============================================================================
