-------------------------------- MODULE MCPyCmp ---------------------------------
(* The ascending arrays of up to two values, at two precisions.            *)
EXTENDS PyCmp

MCStr ==
    {s \in [bpp : {2, 3}, values : UNION {[1 .. n -> 0 .. 7] : n \in 1 .. 2}] :
        Ascending(s.values) /\ \A k \in DOMAIN s.values : s.values[k] < 2^s.bpp}
=============================================================================
