-------------------------- MODULE KernelGateClaims --------------------------
(***************************************************************************)
(* What comments of devices.bpf.c say of the release tracking and the code *)
(* does not keep.                                                          *)
(***************************************************************************)
EXTENDS MCKernelGate

\* "Only cameras, and only opens that SUCCEEDED": outside the hooks, a handle
\* that is tracked is an open file.  The hook runs before the driver's open;
\* when that fails the entry stays, and the session never ends.
OnlySucceededOpensAreTracked ==
    \A f \in Files :
        (openFiles[f] # None /\ \A t \in Tasks : hook[t].file # f) => held[f] # None
=============================================================================
