------------------------------ MODULE MCLoading ------------------------------
(* Projects of two or three stacks over the backends b1 and b2, and the    *)
(* changes and the mistakes that a user makes in them.                     *)
EXTENDS Loading, TLC

Bk(n, place) == [kind |-> "Backend", name |-> n, provider |-> "s3", place |-> place]
Unit(n, type, depends, remote) == [name |-> n, type |-> type, depends |-> depends, remote |-> remote]
Stack(n, b, us) ==
  [kind |-> "Stack", name |-> n, disabled |-> FALSE, backend |-> b, units |-> us]
File(objs) == [kind |-> "objects", name |-> "", refers |-> {}, applies |-> {}, objects |-> objs]
Secret(n) == [kind |-> "secret", name |-> n, refers |-> {}, applies |-> {}, objects |-> <<>>]
Using(f, refers, applies) == [f EXCEPT !.refers = refers, !.applies = applies]
Project(files) == [config |-> "b1", files |-> files]
Old(s) == [s EXCEPT !.kind = "Infrastructure"]
Off(s) == [s EXCEPT !.disabled = TRUE]

a == Unit("a", "tfmodule", <<>>, {})
c == Unit("c", "terraform", <<>>, {<<"s", "a">>})
h == Unit("h", "shell", <<<<"this", "a">>>>, {})
S == Stack("s", "b1", <<a>>)
T == Stack("t", "b2", <<c>>)
backendFile == File(<<Bk("b1", "p1"), Bk("b2", "p2")>>)
Files3(s, t) == [b |-> backendFile, s |-> s, t |-> t]

Good ==
  {Project(Files3(File(<<S>>), File(<<T>>))),
   Project(Files3(File(<<[S EXCEPT !.backend = "b2"]>>), File(<<T>>))),
   Project(Files3(File(<<[S EXCEPT !.units = <<a, h>>]>>), File(<<T, Off(S)>>))),
   Project(Files3(File(<<[kind |-> "Secret"], Off(S)>>), File(<<[T EXCEPT !.units = <<a>>], Old(S)>>))),
   Project(Files3(Using(File(<<S>>), {"pw", "gone"}, {}), Using(File(<<T>>), {"pw"}, {"pw"}))
           @@ [x |-> Secret("pw")]),
   [Project(Files3(File(<<S, [T EXCEPT !.backend = "default"]>>), File(<<>>))) EXCEPT !.config = "b2"]}

Bad ==
  {Project([b |-> File(<<Bk("b1", "p1"), Bk("b3", "p1")>>),
            s |-> File(<<[S EXCEPT !.backend = "b3"], [T EXCEPT !.backend = "b1"]>>), x |-> File(<<Bk("b3", "p2")>>)]),
   Project(Files3(File(<<S>>), File(<<S>>))),
   Project(Files3(File(<<[S EXCEPT !.units = <<Unit("a", "tfmodule", <<<<"t", "c">>>>, {})>>]>>), File(<<T>>))),
   Project(Files3(File(<<[S EXCEPT !.units = <<Unit("a", "shell", <<Malformed, <<"x", "y">>>>, {})>>]>>), File(<<>>))),
   Project(Files3(File(<<T>>), File(<<>>))),
   Project(Files3(File(<<Off(S)>>), File(<<>>))),
   Project(Files3(File(<<[S EXCEPT !.units = <<a, a>>]>>), File(<<>>))),
   Project(Files3(File(<<[S EXCEPT !.units = <<Unit("a", "pod", <<>>, {})>>]>>), File(<<>>))),
   Project(Files3(File(<<[S EXCEPT !.units = <<>>]>>), File(<<>>))),
   Project(Files3(File(<<S>>), Secret("pw")) @@ [x |-> Secret("pw")]),
   Project([b |-> File(<<Bk("default", "p1"), Bk("b1", "p1")>>), s |-> File(<<S>>)]),
   [Project([b |-> File(<<Bk("b2", "p1")>>), s |-> File(<<[S EXCEPT !.backend = "b2"]>>)]) EXCEPT !.config = "b2"],
   [Project([b |-> File(<<Bk("b2", "p1")>>), s |-> File(<<[S EXCEPT !.backend = "b2"]>>), x |-> File(<<Bk("b2", "p2")>>)])
      EXCEPT !.config = "b2"],
   Project(Files3(File(<<[S EXCEPT !.units = <<Unit("a", "shell", <<>>, {})>>]>>), File(<<T>>)))}

All == Good \cup Bad
==============================================================================
