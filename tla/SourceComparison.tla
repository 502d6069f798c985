-------------------------- MODULE SourceComparison --------------------------
(***************************************************************************)
(* Holding a manifest against the live object (internal/gitops: normalise, *)
(* defaults, diff, classify).                                              *)
(*                                                                         *)
(* A document is a tree of maps, lists and leaves, as both sides are once  *)
(* the same decoder has read them. Normalisation takes from the live       *)
(* object what Kubernetes wrote, the walk lists what is left to disagree   *)
(* about, and classification says which of it a controller wrote.          *)
(***************************************************************************)
EXTENDS Naturals, Sequences, FiniteSets
LOCAL INSTANCE SequencesExt

CONSTANTS
  FloatingImages,   \* images without a tag, or tagged latest
  DifferenceLimit   \* differenceLimit

-----------------------------------------------------------------------------
(* Documents.                                                              *)

Leaf(v) == [leaf |-> v]
Map(f) == [map |-> f]
List(s) == [list |-> s]
Null == Leaf("null")
Missing == [missing |-> TRUE]
NoFields == Map([k \in {} |-> Null])

IsMap(x) == "map" \in DOMAIN x
IsList(x) == "list" \in DOMAIN x
Fields(x) == IF IsMap(x) THEN DOMAIN x.map ELSE {}

RECURSIVE At(_, _), Removed(_, _), With(_, _, _)

\* nested: Missing for a field that is not there.
At(x, path) ==
  IF path = <<>> THEN x
  ELSE IF Head(path) \in Fields(x) THEN At(x.map[Head(path)], Tail(path)) ELSE Missing

Sets(x, path) == At(x, path) # Missing

Removed(x, path) ==
  IF Head(path) \notin Fields(x) THEN x
  ELSE IF Len(path) = 1 THEN Map([k \in Fields(x) \ {Head(path)} |-> x.map[k]])
  ELSE Map([x.map EXCEPT ![Head(path)] = Removed(@, Tail(path))])

\* SetNestedField: the maps on the way are created.
With(x, path, v) ==
  IF path = <<>> THEN v
  ELSE LET below == IF Head(path) \in Fields(x) THEN x.map[Head(path)] ELSE NoFields
       IN  Map([k \in Fields(x) \cup {Head(path)} |->
                  IF k = Head(path) THEN With(below, Tail(path), v) ELSE x.map[k]])

Strip(x, paths) == FoldLeft(Removed, x, paths)

-----------------------------------------------------------------------------
(* Defaults: a field that the source omits and that has the documented     *)
(* value is no difference, and neither is a map that its removal empties.  *)

Default(path, value) == [path |-> path, value |-> value]

DeploymentDefaults == <<
  Default(<<"spec", "replicas">>, Leaf("1")),
  Default(<<"spec", "strategy", "type">>, Leaf("RollingUpdate")),
  Default(<<"spec", "strategy", "rollingUpdate", "maxSurge">>, Leaf("25%")),
  Default(<<"spec", "strategy", "rollingUpdate", "maxUnavailable">>, Leaf("25%"))>>
PodSpecDefaults == <<
  Default(<<"restartPolicy">>, Leaf("Always")),
  Default(<<"securityContext">>, NoFields)>>
ContainerDefaults == <<Default(<<"resources">>, NoFields)>>
PortDefaults == <<Default(<<"protocol">>, Leaf("TCP"))>>
HostPathDefaults == <<Default(<<"hostPath", "type">>, Leaf(""))>>

PrunedMutant(live, source, path) == live

RECURSIVE Pruned(_, _, _)
\* prune stops at what still holds something and at what the source declares.
Pruned(live, source, path) ==
  LET parent == Front(path)
  IN  IF parent = <<>> \/ At(live, parent) # NoFields \/ Sets(source, parent) THEN live
      ELSE Pruned(Removed(live, parent), source, parent)

DefaultFields(live, source, prefix, rules) ==
  FoldLeft(LAMBDA l, rule :
    LET path == prefix \o rule.path
    IN  IF Sets(source, path) \/ At(l, path) # rule.value THEN l
        ELSE Pruned(Removed(l, path), source, path),
    live, rules)

DefaultPullPolicy(live, source) ==
  LET expected == IF At(live, <<"image">>) \in {Leaf(i) : i \in FloatingImages}
                  THEN "Always" ELSE "IfNotPresent"
  IN  IF Sets(source, <<"imagePullPolicy">>) \/ At(live, <<"imagePullPolicy">>) # Leaf(expected)
      THEN live ELSE Removed(live, <<"imagePullPolicy">>)

\* The first element with that key, or a map that declares nothing.
Counterpart(list, key, value) ==
  LET same == SelectSeq(list, LAMBDA e : IsMap(e) /\ At(e, <<key>>) = value)
  IN  IF same = <<>> THEN NoFields ELSE Head(same)

DefaultList(live, source, path, key, Apply(_, _)) ==
  LET theirs == IF IsList(At(source, path)) THEN At(source, path).list ELSE <<>>
      Each(e) == IF IsMap(e) THEN Apply(e, Counterpart(theirs, key, At(e, <<key>>))) ELSE e
  IN  IF ~IsList(At(live, path)) THEN live
      ELSE LET ours == At(live, path).list
           IN  With(live, path, List([i \in DOMAIN ours |-> Each(ours[i])]))

DefaultPort(live, source) == DefaultFields(live, source, <<>>, PortDefaults)
DefaultContainer(live, source) ==
  DefaultList(DefaultPullPolicy(DefaultFields(live, source, <<>>, ContainerDefaults), source),
              source, <<"ports">>, "containerPort", DefaultPort)
DefaultVolume(live, source) == DefaultFields(live, source, <<>>, HostPathDefaults)

DefaultPodSpec(live, source, prefix) ==
  LET fields == DefaultFields(live, source, prefix, PodSpecDefaults)
      containers == FoldLeft(LAMBDA l, field :
                      DefaultList(l, source, Append(prefix, field), "name", DefaultContainer),
                      fields, <<"containers", "initContainers">>)
  IN  DefaultList(containers, source, Append(prefix, "volumes"), "name", DefaultVolume)

ApplyDefaults(live, source) ==
  IF At(live, <<"kind">>) # Leaf("Deployment") THEN live
  ELSE DefaultPodSpec(DefaultFields(live, source, <<>>, DeploymentDefaults), source,
                      <<"spec", "template", "spec">>)

-----------------------------------------------------------------------------
(* Normalisation.                                                          *)

Bookkeeping == <<<<"status">>, <<"metadata", "uid">>, <<"metadata", "resourceVersion">>,
                 <<"metadata", "creationTimestamp">>>>
Annotation(name) == <<"metadata", "annotations", name>>
WrittenByTools == <<Annotation("last-applied"), Annotation("tracking-id")>>
MetadataMaps == <<<<"metadata", "annotations">>, <<"metadata", "labels">>>>
ControllerMaps == MetadataMaps \o
  <<<<"spec", "template", "metadata", "annotations">>, <<"spec", "template", "metadata", "labels">>>>

RECURSIVE DropNullTimestamps(_), Emptied(_)
\* Only a map that a null timestamp was all of goes with it.
DropNullTimestamps(x) ==
  CASE IsList(x) -> List([i \in DOMAIN x.list |-> DropNullTimestamps(x.list[i])])
    [] IsMap(x) ->
         LET kept == {k \in Fields(x) : /\ ~(k = "creationTimestamp" /\ x.map[k] = Null)
                                        /\ ~Emptied(x.map[k])}
         IN  Map([k \in kept |-> DropNullTimestamps(x.map[k])])
    [] OTHER -> x
Emptied(x) == At(x, <<"creationTimestamp">>) = Null /\ DropNullTimestamps(x) = NoFields

DropEmptyMaps(live, source) ==
  FoldLeft(LAMBDA l, path :
    IF At(l, path) = NoFields /\ ~Sets(source, path) THEN Removed(l, path) ELSE l,
    live, MetadataMaps)

\* The source gets an empty map where the cluster has one that controllers
\* write into, unless something else is in the way.
ComparePerKey(live, source) ==
  FoldLeft(LAMBDA s, path :
    IF Sets(s, path) \/ ~IsMap(At(live, path))
       \/ \E n \in 0..(Len(path) - 1) :
            Sets(s, SubSeq(path, 1, n)) /\ ~IsMap(At(s, SubSeq(path, 1, n)))
    THEN s ELSE With(s, path, NoFields),
    source, ControllerMaps)

Normalise(live, source) ==
  LET own == Strip(Strip(live, Bookkeeping), WrittenByTools)
      placed == IF Sets(source, <<"metadata", "namespace">>) THEN own
                ELSE Removed(own, <<"metadata", "namespace">>)
      settled == ApplyDefaults(DropEmptyMaps(DropNullTimestamps(placed), source), source)
  IN  [live |-> settled,
       source |-> DropNullTimestamps(Strip(ComparePerKey(settled, source), Bookkeeping))]

-----------------------------------------------------------------------------
(* The walk. Its order is a fixed one of the keys of a map; the limit      *)
(* keeps the differences that come first in it.                            *)

MergeKeys(field) ==
  CASE field \in {"containers", "initContainers", "env", "volumes"} -> <<"name">>
    [] field = "volumeMounts" -> <<"mountPath">>
    [] field = "ports" -> <<"name", "containerPort", "port">>
    [] OTHER -> <<>>

Key(k) == [key |-> k]
Element(k, v) == [key |-> k, is |-> v]
Position(i) == [at |-> i]

\* index: the key names every element, and no two alike.
Identifies(key, list) ==
  /\ list # <<>>
  /\ \A i \in DOMAIN list : "leaf" \in DOMAIN At(list[i], <<key>>)
                            /\ At(list[i], <<key>>) \notin {Leaf(""), Null}
  /\ \A i, j \in DOMAIN list : i # j => At(list[i], <<key>>) # At(list[j], <<key>>)

PairingKeys(field, source, live) ==
  SelectSeq(MergeKeys(field), LAMBDA k : Identifies(k, source) /\ Identifies(k, live))

Difference(path, kind, source, live) ==
  <<[path |-> path, kind |-> kind, source |-> source, live |-> live]>>

Flat(seqs) == FoldLeft(\o, <<>>, seqs)

RECURSIVE Walk(_, _, _)
\* Two values of one place, either of which may be missing there.
Beside(path, source, live) ==
  CASE live = Missing -> Difference(path, "missing in live", source, live)
    [] source = Missing -> Difference(path, "added in live", source, live)
    [] OTHER -> Walk(path, source, live)

Walk(path, source, live) ==
  CASE IsMap(source) /\ IsMap(live) ->
         LET keys == SetToSeq(Fields(source)) \o SetToSeq(Fields(live) \ Fields(source))
         IN  Flat([i \in DOMAIN keys |->
               Beside(Append(path, Key(keys[i])), At(source, <<keys[i]>>), At(live, <<keys[i]>>))])
    [] IsList(source) /\ IsList(live) ->
         LET field == IF path = <<>> \/ "key" \notin DOMAIN Last(path) THEN "" ELSE Last(path).key
             by == PairingKeys(field, source.list, live.list)
             Named(list, key, v) ==
               LET e == SelectSeq(list, LAMBDA x : At(x, <<key>>) = v)
               IN  IF e = <<>> THEN Missing ELSE Head(e)
             names == [i \in DOMAIN source.list |-> At(source.list[i], <<by[1]>>)]
             others == SelectSeq([i \in DOMAIN live.list |-> At(live.list[i], <<by[1]>>)],
                                 LAMBDA v : ~Contains(names, v))
             all == names \o others
             longest == IF Len(source.list) > Len(live.list) THEN Len(source.list)
                                                              ELSE Len(live.list)
             Nth(list, i) == IF i > Len(list) THEN Missing ELSE list[i]
         IN  IF by # <<>>
             THEN Flat([i \in DOMAIN all |->
                    Beside(Append(path, Element(by[1], all[i])),
                           Named(source.list, by[1], all[i]), Named(live.list, by[1], all[i]))])
             ELSE Flat([i \in 1..longest |->
                    Beside(Append(path, Position(i)), Nth(source.list, i), Nth(live.list, i))])
    [] OTHER -> IF source = live THEN <<>> ELSE Difference(path, "changed", source, live)

\* A value of a Secret stays where it is; that it differs does not.
SecretValue(path) == path[1] \in {Key("data"), Key("stringData")}
Redact(d, secret) ==
  IF secret /\ SecretValue(d.path) THEN [path |-> d.path, kind |-> d.kind, redacted |-> TRUE]
  ELSE d @@ [redacted |-> FALSE]

Compare(source, live, secret) ==
  LET found == Walk(<<>>, source, live)
      kept == IF Len(found) > DifferenceLimit THEN SubSeq(found, 1, DifferenceLimit) ELSE found
  IN  {Redact(kept[i], secret) : i \in DOMAIN kept}

-----------------------------------------------------------------------------
(* Classification: only a field that the cluster alone has can have been   *)
(* written by a controller.                                                *)

Keys(names) == [i \in DOMAIN names |-> Key(names[i])]
SystemManaged == {Keys(Annotation("revision")),
                  Keys(<<"spec", "template", "metadata", "annotations", "restartedAt">>)}
TrackingLabels == {Keys(<<"metadata", "labels", "instance">>)}

Class(d) ==
  IF d.kind = "added in live" /\ d.path \in SystemManaged \cup TrackingLabels
  THEN "system managed" ELSE "meaningful"

\* compareAgainst, once a manifest was located: what a reader is shown first.
Meaningful(source, live, secret) ==
  LET both == Normalise(live, source)
  IN  {d \in Compare(both.source, both.live, secret) : Class(d) = "meaningful"}
=============================================================================
