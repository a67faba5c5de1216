----------------------- MODULE MCCollectorSupervisor -----------------------
(* Small instances of CollectorSupervisor for TLC. *)
EXTENDS CollectorSupervisor, TLC
=============================================================================
