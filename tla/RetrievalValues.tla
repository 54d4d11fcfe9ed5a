-------------------------- MODULE RetrievalValues ---------------------------
(* Values for Retrieval.  Three days, the third of them today. *)
TheTimes == <<1, 2, 4, 9, 10, 12, 17>>
TheKinds == {[project |-> "p", language |-> "go", branch |-> "main"],
             [project |-> "q", language |-> "go", branch |-> "main"],
             [project |-> "",  language |-> "",   branch |-> ""]}
Exact(k, v) == [type |-> "project", key |-> k, value |-> {v}, wildcard |-> FALSE]
TheSettings == {[aliases |-> <<>>, labels |-> {}, exclude |-> TRUE],
                [aliases |-> <<Exact("a", "p"), Exact("a", "q")>>,
                 labels |-> {[project |-> "a", label |-> "work"]}, exclude |-> FALSE],
                [aliases |-> <<[type |-> "project", key |-> "p", value |-> {"q"}, wildcard |-> TRUE]>>,
                 labels |-> {[project |-> "p", label |-> "work"]}, exclude |-> FALSE]}
============================================================================
