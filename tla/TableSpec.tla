----------------------------- MODULE TableSpec -----------------------------
(***************************************************************************)
(* What the container table promises to its users: a list of distinct      *)
(* containers that grows at its end and from which any container can be    *)
(* taken, all others keeping their order.                                  *)
(***************************************************************************)
EXTENDS Naturals, Sequences

CONSTANT Entries

VARIABLE list

Members == {list[i] : i \in DOMAIN list}

Init == list = <<>>

Add(e) == e \notin Members /\ list' = Append(list, e)

\* The entries behind position n move up by one.
Without(n) == [i \in 1..(Len(list) - 1) |-> IF i < n THEN list[i] ELSE list[i + 1]]

Remove(n) == list' = Without(n)

Next == (\E e \in Entries : Add(e)) \/ (\E n \in DOMAIN list : Remove(n))

Spec == Init /\ [][Next]_list
=============================================================================
