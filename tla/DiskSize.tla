------------------------------ MODULE DiskSize ------------------------------
(***************************************************************************)
(* Disk space, counted in bytes and in inodes (util/disk_size.rs).  The    *)
(* order is partial: a size exceeds another one only if it is at least as  *)
(* large in both dimensions and differs in one.  Additions do not overflow *)
(* here: u64 is far above the sizes of real disks.                         *)
(***************************************************************************)
EXTENDS Naturals

DiskSizes == [bytes : Nat, inodes : Nat]

Zero == [bytes |-> 0, inodes |-> 0]

Lesser(m, n) == IF m <= n THEN m ELSE n
Greater(m, n) == IF m <= n THEN n ELSE m
Monus(m, n)  == IF m <= n THEN 0 ELSE m - n

SmallerSize(a, b) ==
  [bytes |-> Lesser(a.bytes, b.bytes), inodes |-> Lesser(a.inodes, b.inodes)]

LargerSize(a, b) ==
  [bytes |-> Greater(a.bytes, b.bytes), inodes |-> Greater(a.inodes, b.inodes)]

Plus(a, b) == [bytes |-> a.bytes + b.bytes, inodes |-> a.inodes + b.inodes]

SaturatingSub(a, b) ==
  [bytes |-> Monus(a.bytes, b.bytes), inodes |-> Monus(a.inodes, b.inodes)]

AtLeast(a, b) == a.bytes >= b.bytes /\ a.inodes >= b.inodes

Exceeds(a, b) == AtLeast(a, b) /\ a # b
=============================================================================
