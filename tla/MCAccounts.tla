----------------------------- MODULE MCAccounts -----------------------------
(* Small instances of the accounts for TLC. *)
EXTENDS AccountProperties, TLC

CONSTANTS short, long, longer    \* longer begins with the 72 bytes of long

SomePasswords == {short, long, longer}
FirstBytes == [p \in SomePasswords |-> IF p = longer THEN long ELSE p]

\* No action or property tells requests, names or secrets apart.
NameSymmetry == Permutations(Requests) \cup Permutations(Emails) \cup Permutations(Usernames)
                \cup Permutations(Secrets)
=============================================================================
