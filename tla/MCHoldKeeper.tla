---------------------------- MODULE MCHoldKeeper ----------------------------
(* Small instance of HoldKeeper for TLC.                                    *)
EXTENDS HoldKeeper

\* Metering grants leases of 10 ticks.
MCLeases == {10}

=============================================================================
