----------------------------- MODULE MCAdmission -----------------------------
(***************************************************************************)
(* Admission for TLC.  One client; creating is limited and reading is not, *)
(* so both branches of the limiter are used.                               *)
(***************************************************************************)
EXTENDS Admission, TLC

\* The slots are interchangeable.
SlotSymmetry == Permutations(Slot)

MCKey    == {"create", "read"} \X Client
MCLimit  == [k \in MCKey |-> IF k[1] = "create" THEN 2 ELSE 0]
MCWindow == [k \in MCKey |-> 2]

Signed(nonce, stamp) ==
    [client |-> "c1", stamped |-> TRUE, stamp |-> stamp, nonce |-> nonce, signed |-> TRUE]
Small == [bytes |-> 1, verdict |-> "fits"]
Good(nonce, stamp) ==
    [headers |-> Signed(nonce, stamp), declared |-> 2, form |-> TRUE, a |-> Small, b |-> Small]

\* Two honest requests, and one for each of the ways to be refused that differ.
MCUpload ==
    {Good("n1", 1), Good("n2", 2),
     [Good("n2", 2) EXCEPT !.headers.signed = FALSE],
     [Good("n2", 2) EXCEPT !.declared = 4],
     [Good("n2", 2) EXCEPT !.declared = 1, !.a.bytes = 2, !.b.bytes = 2],
     [Good("n2", 2) EXCEPT !.declared = -1, !.b.verdict = "format"]}

\* A read that uses the nonce of an upload again, later.
MCQuery == {Signed("n1", 4)}
=============================================================================
