--------------------------- MODULE MCUsageAccounting ---------------------------
(* Small instances of UsageAccounting. *)
EXTENDS UsageAccounting

User(s, l) == [status |-> s, limit |-> l]
ActiveOnly == {User("ACTIVE", 2)}
Raised == {User(Same, 0)}
=============================================================================
