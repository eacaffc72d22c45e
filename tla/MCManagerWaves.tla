--------------------------- MODULE MCManagerWaves ---------------------------
(* Plans of two and three steps: b and d/x clash with nothing but d.       *)
EXTENDS ManagerWaves

Plan(files, deps) == [k \in 1..Len(files) |-> [files |-> files[k], deps |-> deps[k]]]

MCFiles == {"b", "d", "d/x"}
MCInside == {<<"d/x", "d">>}
MCPlans == {
  Plan(<<{"b"}, {"d"}, {"d/x"}>>, <<{}, {}, {1}>>),
  Plan(<<{"b"}, {}, {"d"}>>, <<{}, {}, {}>>),
  Plan(<<{"d"}, {"b"}>>, <<{}, {3}>>) }
MCEdits == {{}, {1}}
MCOffers == {[title |-> 9, files |-> {"d/x"}], [title |-> 1, files |-> {}]}
=============================================================================
