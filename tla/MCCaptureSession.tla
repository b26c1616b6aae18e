-------------------------- MODULE MCCaptureSession --------------------------
(* Two readers, two hubs, two addresses. *)
EXTENDS CaptureSession, TLC

CONSTANTS own, other, hub1, hub2, addr1, addr2

MCReaders    == {own, other}
MCInterfaces == {hub1, hub2}
MCAddresses  == {addr1, addr2}

Names == Permutations(MCReaders) \cup Permutations(MCInterfaces) \cup Permutations(MCAddresses)
=============================================================================
