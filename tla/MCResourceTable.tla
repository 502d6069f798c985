-------------------------- MODULE MCResourceTable --------------------------
EXTENDS ResourceTable
CONSTANT r1

all == [gvr |-> "pods", ns |-> "", sel |-> ""]
one == [gvr |-> "pods", ns |-> "a", sel |-> ""]
two == [gvr |-> "pods", ns |-> "b", sel |-> ""]

MCKeys == {all, one, two}
MCViews == {all, one, two}
MCInitially == {<<1, 2>>}
MCHome == <<"a", "b">>
MCKind == <<"pods", "pods">>
MCQueries == {[filter |-> {1, 2}, sort |-> "cell", desc |-> TRUE],
              [filter |-> {1}, sort |-> "created", desc |-> FALSE]}
=============================================================================
