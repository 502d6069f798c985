------------------------------- MODULE MCEditing -------------------------------
(***************************************************************************)
(* Two editors and one creation, beside two Applications: one that lists   *)
(* the object that exists, and one that deploys to the namespace.          *)
(***************************************************************************)
EXTENDS Editing
LOCAL INSTANCE TLC

MCSymmetry == Permutations(Editors)

App(name, resources, destination) ==
  [namespace |-> 9, name |-> name, resources |-> resources, destination |-> destination]
MCCandidates == [lister |-> App(1, {Target(1), Target(2)}, 0), deployer |-> App(2, {}, Here)]

Doc(kind, name, namespace) == [kind |-> kind, name |-> name, namespace |-> namespace]
Good(name) == Doc("namespaced", name, Here)
MCManifests ==
  {<<>>, <<Good(2)>>, <<Good(2), Good(3), Doc("cluster", 4, 0)>>, <<Good(2), Good(2)>>, <<Good(1)>>}
  \cup {<<d>> : d \in {Doc("unreadable", 0, 0), Doc("odd", 2, Here), Doc("", 2, 0), Doc("namespaced", 2, 7),
                       Doc("cluster", 2, Here), Doc("namespaced", 0, Here)}}
=============================================================================
