----------------------------- MODULE MCDatabase -----------------------------
(* A small instance of DatabaseResource, in two scenarios. *)
EXTENDS DatabaseResource, TLC

CONSTANTS d1, d2, a, b, adm

Db(n, r, isOpen, isTemplate, alters) ==
    [name |-> n, owner |-> r, open |-> isOpen, template |-> isTemplate, alter |-> alters]

\* One database, of either role or of the user, a template or not.
MCPlans == {Db(d1, a, TRUE, FALSE, FALSE), Db(d1, b, TRUE, TRUE, FALSE),
            Db(d2, a, TRUE, FALSE, FALSE), Db(d2, adm, FALSE, FALSE, FALSE)}

\* The same with the ownership of objects following the owner.
MCAlterPlans == {Db(d1, a, TRUE, FALSE, TRUE), Db(d1, b, TRUE, FALSE, TRUE),
                 Db(d2, a, TRUE, FALSE, TRUE)}

\* Every statement but the revoke may fail; and every one but the lock, whose
\* failure leaks a connection, with one connection more than two lock transactions
\* hold and a database of others.
MCScenarios ==
    {[plans |-> MCPlans, foreign |-> {}, mayFail |-> Statements \ {"revoke"}, maxConns |-> 0],
     [plans |-> MCAlterPlans, foreign |-> {d2}, mayFail |-> Statements \ {"pgLockRole"},
      maxConns |-> 3]}
=============================================================================
