---------------------------- MODULE MCRunLedger ----------------------------
(* Small instances of RunLedger: days of three epochs, every second of them of the weekday. *)
EXTENDS LedgerProperties

CONSTANTS actions, laptop

MCActions == {actions}
MCBoth == {actions, laptop}
MCLaptop == {laptop}
MCWeekdays == {0, 2}
MCForced == {3}
=============================================================================
