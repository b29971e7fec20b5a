----------------------------- MODULE Allocator -----------------------------
(***************************************************************************)
(* What kmalloc() and kfree() promise their callers, in units of 16 bytes: *)
(* a region that overlaps no region in use, at least as long as asked for, *)
(* that stays put and keeps its length until it is given back.             *)
(***************************************************************************)
EXTENDS Integers

CONSTANTS
  Limit,     \* regions lie below this address
  Requests,  \* the sizes asked for, in bytes
  Units(_)   \* bytes to units

VARIABLE live  \* the regions in use: records of a base address and a length

Region == [base : 0 .. Limit, len : 0 .. Limit]

Apart(r, s) == r.base + r.len <= s.base \/ s.base + s.len <= r.base

Init == live = {}

\* The region that a call for n bytes adds to those in use.
Grant(n) ==
  \E r \in live' \ live :
    /\ r \in Region
    /\ r.len >= Units(n)
    /\ r.base + r.len <= Limit
    /\ \A s \in live : Apart(r, s)
    /\ live' = live \cup {r}

Release == \E r \in live : live' = live \ {r}

Next == (\E n \in Requests : Grant(n)) \/ Release

Spec == Init /\ [][Next]_live
=============================================================================
