------------------------------ MODULE MCNfqueue ------------------------------
(***************************************************************************)
(* A byte of two bits and headers of at least three words, so that sums    *)
(* carry twice; sequences of packets of three kinds.                       *)
(***************************************************************************)
EXTENDS NfqueueWorker

Whole == [version |-> 4, ihl |-> 3, total |-> 4, len |-> 4, ttl |-> 2, proto |-> 1,
          check |-> 10, rest |-> 26]
Client == [forwarded |-> TRUE, data |-> Whole]
\* Longer than its copy, which is a whole packet by itself.
Long == [forwarded |-> TRUE, data |-> [Whole EXCEPT !.len = 6]]
Local == [forwarded |-> FALSE, data |-> Whole]
MCFlows == {<<Client, Long, Local, Client>>, <<Long, Client>>}
===============================================================================
