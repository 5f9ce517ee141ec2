---------------------------- MODULE MCCredentials ----------------------------
EXTENDS Credentials

CONSTANTS t1, t2, t3, k1, k2

Names(ns, u, p) == [namespace |-> ns, name |-> "db", user |-> u, pass |-> p]

\* Two targets that share a secret and name different keys, and a third one: with
\* a secret of the same name elsewhere, without keys, or without a secret.
MCLayouts ==
  {[t \in {t1, t2, t3} |-> CASE t = t1 -> Names("n1", k1, k2)
                             [] t = t2 -> Names("n1", k2, Nil)
                             [] t = t3 -> third] :
     third  \in {Names("n2", k1, k2), Names("n1", Nil, Nil),
                 [Names("n1", Nil, Nil) EXCEPT !.name = Nil]}}

MCContents == {{k2}, {k1, k2}}

MCSecrets == {<<"n1", "db">>, <<"n2", "db">>}
=============================================================================
