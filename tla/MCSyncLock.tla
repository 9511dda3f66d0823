----------------------------- MODULE MCSyncLock -----------------------------
(* Small instances of SyncLock for TLC.  The inodes outnumber those that   *)
(* can be open or named at once, so that a create always finds a new one.  *)
EXTENDS SyncLock

CONSTANTS p1, p2, i1, i2, i3, i4, i5, i6

TwoProcs == {p1, p2}
SixInodes == {i1, i2, i3, i4, i5, i6}
=============================================================================
