---- MODULE MCNewsCorpus ----
(* NewsCorpus with a few listings of a few articles. *)
EXTENDS NewsCorpus

\* u1 is kept for two buckets, and listed by an earlier and a later date; u2 is
\* the same story retitled; u3 is a topical article of the same domain.
MCItems == {
  [url |-> "u1", title |-> "a", tier |-> 1, seen |-> 1, buckets |-> {"S", "M"}],
  [url |-> "u2", title |-> "b", tier |-> 0, seen |-> 1, buckets |-> {"S"}],
  [url |-> "u3", title |-> "c", tier |-> 0, seen |-> 2, buckets |-> {}]}
MCDomain == [u \in {"u1", "u2", "u3"} |-> "d"]
MCSimilar == {<<"a", "a">>, <<"b", "b">>, <<"c", "c">>, <<"a", "b">>, <<"b", "a">>}

\* One article, always listed alike.
OneItem == {[url |-> "u1", title |-> "a", tier |-> 1, seen |-> 1, buckets |-> {"S"}]}
OneDomain == [u \in {"u1"} |-> "d"]
====
