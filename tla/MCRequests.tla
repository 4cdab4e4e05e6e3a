----------------------------- MODULE MCRequests -----------------------------
(* Three handlers: two write the same two rows, in either order, and the   *)
(* third takes a number, as one of them does.                              *)
EXTENDS Requests

MCRequests == {"r1", "r2", "r3"}
MCRows == {"lot", "indent", "number"}
MCWrites == [r \in MCRequests |->
               CASE r = "r1" -> {"lot", "indent"}
                 [] r = "r2" -> MCRows
                 [] r = "r3" -> {"number"}]
MCDbOf == [r \in MCRequests |-> "main"]
=============================================================================
