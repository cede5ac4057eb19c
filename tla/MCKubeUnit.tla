----------------------------- MODULE MCKubeUnit -----------------------------
(* Two names in two namespaces; one unit gives a namespace that one of its *)
(* manifests contradicts.                                                  *)
EXTENDS KubeUnit

Form(namespace, manifests) == [namespace |-> namespace, manifests |-> manifests]
One(k, v) == [x \in {k} |-> v]
Two(k, v, l, w) == [x \in {k, l} |-> IF x = k THEN v ELSE w]

a == <<Unnamed, "a">>
c == <<Unnamed, "c">>
aOfApps == <<"apps", "a">>
cOfApps == <<"apps", "c">>
cOfMain == <<"main", "c">>

Forms ==
  {Form(Unnamed, One(a, 1)), Form(Unnamed, One(a, 2)),
   Form(Unnamed, Two(a, 1, cOfApps, 1)), Form(Unnamed, Two(aOfApps, 1, c, 1)),
   Form("apps", One(a, 1)), Form("apps", Two(aOfApps, 2, c, 1)),
   Form("apps", Two(a, 1, cOfMain, 1))}
==============================================================================
