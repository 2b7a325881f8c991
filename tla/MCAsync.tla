------------------------------ MODULE MCAsync ------------------------------
(* AsyncContext and its properties on small instances. *)
EXTENDS AsyncProperties, TLC

CONSTANTS x, y

Get == [kind |-> "command", pv |-> FALSE, name |-> None, fn |-> TRUE]
Quiet == [Get EXCEPT !.fn = FALSE]
Mon == [Get EXCEPT !.kind = "monitor"]
Sub(k) == [kind |-> "subscribe", pv |-> FALSE, name |-> k, fn |-> TRUE]
Psub(k) == [kind |-> "subscribe", pv |-> TRUE, name |-> k, fn |-> TRUE]
Unsub(k) == [kind |-> "unsubscribe", pv |-> FALSE, name |-> k, fn |-> TRUE]
Punsub(k) == [kind |-> "unsubscribe", pv |-> TRUE, name |-> k, fn |-> TRUE]

Chosen ==
    { <<c, d, e>> : c, d, e \in {Get, Sub(x), Unsub(x)} } \cup
    { <<Get, Quiet, Get>>, <<[Sub(x) EXCEPT !.fn = FALSE], Quiet, Get>>,
      <<Mon>>, <<[Mon EXCEPT !.fn = FALSE]>>, <<Get, Mon, Get>>, <<Mon, Sub(x), Get>>,
      <<Mon, Sub(x), Unsub(x), Unsub(None)>>,
      <<Sub(x), Sub(y), Psub(x)>>, <<Sub(x), Psub(x), Punsub(None)>>,
      <<Sub(x), Sub(y), Unsub(None), Get>>, <<Sub(x), Sub(y), Unsub(x), Unsub(y)>>,
      <<Sub(x), Unsub(y)>>, <<Sub(x), Punsub(None), Get>> }

Hash == (x :> 1 @@ y :> 3)
=============================================================================
