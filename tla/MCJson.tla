------------------------------- MODULE MCJson -------------------------------
(* Instance of Json for TLC: documents of two keys and two levels. *)
EXTENDS Json

\* Values that meet in every way: scalar, object, nil and nothing under the same key,
\* and an integer that no int holds.
MCGiven ==
    { Nil,
      Obj(1 :> Integer(1)),
      Obj(1 :> Integer(2) @@ 2 :> Obj(1 :> Integer(3))),
      Obj(1 :> Obj(1 :> Integer(4) @@ 2 :> Nil) @@ 2 :> Integer(5)),
      Obj(1 :> Obj(2 :> Integer(6)) @@ 2 :> Nil),
      Obj(2 :> Obj(1 :> Integer(20))) }

MCPath == {<<1>>, <<1, 2>>, <<2, 1>>}
=============================================================================
