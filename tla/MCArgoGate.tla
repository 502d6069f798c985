------------------------------ MODULE MCArgoGate ------------------------------
(***************************************************************************)
(* Clusters with and without Argo CD, and what is asked of their gate.     *)
(***************************************************************************)
EXTENDS ArgoGate
LOCAL INSTANCE TLC

-----------------------------------------------------------------------------
(* Claimers of an object in namespace 1. An object without a namespace has   *)
(* the namespace 0.                                                        *)

Id(namespace) == [group |-> "apps", kind |-> "Deployment", namespace |-> namespace, name |-> 1]
Another == [Id(1) EXCEPT !.name = 2]

Owner(namespace, name, resources, destination) ==
  [namespace |-> namespace, name |-> name, resources |-> resources, destination |-> destination]
Claimers == {Owner(n, 1, r, d) : n \in 1..2, r \in {{}, {Id(1)}, {Another}}, d \in {0, 1}}
Fleets == {<<>>} \cup {<<a>> : a \in Claimers}
          \cup {<<Owner(1, 1, r, 0), [b EXCEPT !.name = 2]>> : r \in {{}, {Id(1)}}, b \in Claimers}

\* How the API server answers: what it serves, what the session read of that and
\* when, and the two listings. Nothing is listed of what is not served.
Discovered ==
  {[serves |-> TRUE, indexed |-> i, groups |-> {"apps", "argoproj.io"}, whole |-> w] : i, w \in BOOLEAN}
  \cup {[serves |-> TRUE, indexed |-> FALSE, groups |-> g, whole |-> FALSE] : g \in {{}, {"apps"}}}
  \cup {[serves |-> FALSE, indexed |-> FALSE, groups |-> {"apps"}, whole |-> TRUE],
        [serves |-> FALSE, indexed |-> FALSE, groups |-> {}, whole |-> FALSE],
        [serves |-> FALSE, indexed |-> TRUE, groups |-> {"apps", "argoproj.io"}, whole |-> FALSE]}
Listings(serves) ==
  {[connected |-> TRUE, wide |-> w, near |-> n] :
     w \in (IF serves THEN {"ok"} ELSE {"not found"}) \cup {"forbidden", "failed"},
     n \in (IF serves THEN {"ok"} ELSE {}) \cup {"forbidden"}}
  \cup {[connected |-> FALSE, wide |-> "failed", near |-> "failed"]}
Clusters ==
  UNION {{d @@ l @@ [apps |-> f] : l \in Listings(d.serves), f \in IF d.serves THEN Fleets ELSE {<<>>}} :
         d \in Discovered}

Tracking(app, claims) == <<[app |-> app, claims |-> claims]>>
Objects == {[id |-> Id(1), tracking |-> t, instance |-> i] :
  t \in {<<>>, Tracking(<<1>>, Id(1)), Tracking(<<2, 2>>, Id(1)), Tracking(<<1>>, Another)},
  i \in {{}, {<<1>>}}}
Targets == {Id(1), [Id(1) EXCEPT !.name = 0], [Id(0) EXCEPT !.name = 0], Id(2)}

MCGateRequests ==
  {[of |-> "owner", cluster |-> c, object |-> o] : c \in Clusters, o \in Objects}
  \cup {[of |-> "claim", cluster |-> c, target |-> t] : c \in Clusters, t \in Targets}
=============================================================================
