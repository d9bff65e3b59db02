----------------------------- MODULE MCDevices ------------------------------
(* A keyboard with two Control keys, one of them escaped, Shift, Caps       *)
(* Lock, a letter and Enter; a serial line; a clock that wraps.  Two        *)
(* readers of the serial line, one of the keyboard, two sleepers.           *)
EXTENDS Devices
CONSTANTS p1, p2
AllKeys == {<<29, FALSE>>, <<29, TRUE>>, <<42, FALSE>>, <<58, FALSE>>, <<32, FALSE>>, <<28, FALSE>>}
M(readers, sleepers, kbd, uart, clock) ==
    [readers |-> readers, sleepers |-> sleepers, kbd |-> kbd, uart |-> uart, clock |-> clock]
AllMachines == {M({p1, p2}, {}, FALSE, TRUE, FALSE), M({p1}, {}, TRUE, FALSE, FALSE),
                M({}, {p1, p2}, FALSE, FALSE, TRUE)}
=============================================================================
