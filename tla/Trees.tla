-------------------------------- MODULE Trees --------------------------------
(* The nodes of canonical expressions: type Expression (compat/schema.go). *)

Node(kind, args) == [kind |-> kind, value |-> "", args |-> args]

Leaf(kind, value) == [kind |-> kind, value |-> value, args |-> <<>>]

=============================================================================
