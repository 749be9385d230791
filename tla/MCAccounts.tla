----------------------------- MODULE MCAccounts -----------------------------
(* Accounts on collections that are empty, or that somebody has put a user *)
(* in who can log in, alone or behind a directory of the same name.        *)
EXTENDS Accounts, TLC

CONSTANTS n1, p1, p2, q1

SomeNames     == {n1}
SomePasswords == {p1, p2}
SomePlaces    == {q1}

Seeded(kind, n) ==
    [kind |-> kind, name |-> n, password |-> IF kind = "user" THEN p1 ELSE None,
     place |-> IF kind = "user" THEN None ELSE q1, complete |-> kind = "user",
     live |-> TRUE, seen |-> 0]

SomeSeeds ==
    { <<>>,
      <<Seeded("user", n1)>>,
      <<Seeded("directory", n1), Seeded("user", n1)>> }

Symmetric == Permutations(Threads)
=============================================================================
