---------------------------- MODULE MCClusterRecords ----------------------------
(***************************************************************************)
(* A new installation, or a document with two clusters, one of a customer  *)
(* and one of nobody, and what an engineer may do to it.                   *)
(***************************************************************************)
EXTENDS ClusterRecords

Acme == 5
Zeta == 6
Input(name, customer, context, kind) ==
  [name |-> name, customerId |-> customer, customerName |-> IF customer = Acme THEN 8 ELSE 0,
   environmentId |-> IF kind = "" THEN "production" ELSE kind, environmentName |-> "", kind |-> kind,
   context |-> context, required |-> FALSE, profile |-> 0, labels |-> 0]
Record(in, id, profile, labels) ==
  [id |-> id, name |-> in.name, customerId |-> in.customerId, customerName |-> in.customerName,
   environmentId |-> in.environmentId, environmentName |-> "", kind |-> in.kind,
   context |-> in.context, required |-> FALSE, profile |-> profile, labels |-> labels, archived |-> FALSE]
NewDocument == [clusters |-> <<>>, preferences |-> <<>>, customers |-> <<>>, views |-> <<>>]
Opened ==
  [NewDocument EXCEPT
    !.clusters = <<Record(Input(1, Acme, 11, "production"), 21, 41, 31),
                   Record(Input(2, 0, 12, "development"), 22, 0, 0)>>,
    !.preferences = <<[cluster |-> 21, namespace |-> 0, mode |-> "read-only"]>>]

MCDocuments == {NewDocument, Opened}
MCInputs == {Input(1, Acme, 13, "production"), Input(1, Acme, 11, ""), Input(2, Zeta, 12, "staging"),
             [Input(3, 0, 14, "development") EXCEPT !.labels = 31],
             [Input(3, 0, 12, "development") EXCEPT !.required = TRUE]}
MCSectionKeys == {Ungrouped, Acme, Zeta, ArchivedKey}
MCContexts == [cluster : {0, 22, 31}, customer : {Acme, Zeta}, name : {1, 4},
               environment : {"production", "staging"}]
=============================================================================
