---------------------------- MODULE MCQueryLoad ----------------------------
(* Small instances of QueryLoad for TLC.                                   *)
EXTENDS QueryLoad, TLC

CONSTANTS p1, p2, r1, r2, dA, dB

\* Two plans share a region, as two logical tables of one partition do; the
\* other region is read but not queried.
SharedRegion == (p1 :> r1) @@ (p2 :> r1)

FirstThenSecond == <<r1, r2>>

Setting(ps, slotCount, maxFires, maxEvents, lastTime) ==
    [plans |-> ps, concurrency |-> slotCount, fires |-> maxFires, events |-> maxEvents,
     clock |-> lastTime]

\* Two plans and one slot; a slot for each; one plan while a region is dropped,
\* moved or used; nothing to query while three things happen to the regions, or
\* one and more time passes.
AllSettings == {Setting({p1, p2}, 1, 2, 0, 0), Setting({p1, p2}, 2, 1, 0, 0),
                Setting({p1}, 1, 2, 1, 0), Setting({}, 1, 0, 3, 1),
                Setting({}, 1, 0, 1, 2)}
\* Nothing tells the datanodes apart.
SwapDatanodes == Permutations(Datanodes)
\* For the temporal properties: two plans and one slot, and nothing to query.
EndingSettings == {Setting({p1, p2}, 1, 1, 0, 0), Setting({}, 1, 0, 1, 1)}
OnePlan == {Setting({p1}, 1, 1, 0, 0)}
============================================================================
