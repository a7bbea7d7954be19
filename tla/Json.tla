-------------------------------- MODULE Json --------------------------------
(***************************************************************************)
(* zpt::json: documents that share elements.                               *)
(*                                                                         *)
(* A variable of type zpt::json is a shared pointer to an element, and so  *)
(* is what an object holds under each of its keys.  Whoever puts documents *)
(* together, with the operators or by path, decides which elements are     *)
(* shared, and a change made through one document is seen in all that      *)
(* share the element.                                                      *)
(*                                                                         *)
(* Elements are objects, integers and nil; the other types of scalars      *)
(* differ in arithmetic only, and arrays are left out.  Documents are      *)
(* combined as wholes: merging one into a part of itself, which makes a    *)
(* cycle or inserts into the map that is iterated over, is not considered. *)
(***************************************************************************)
EXTENDS Integers, Sequences, SequencesExt

CONSTANTS
    Doc,          \* variables of type zpt::json
    Result,       \* the one that the binary operators are assigned to
    Key,          \* keys of objects, in the order of std::map
    Given,        \* the values that all other documents may have at first
    Path,         \* paths: sequences of keys
    Written,      \* the integer that set_path writes
    IntLimit,     \* an int, as opposed to a long long, is in -IntLimit..IntLimit - 1
    MaxDepth,     \* bound: steps from the root of a document to its innermost element
    MaxSteps      \* bound: number of operations

ASSUME JsonAssumption ==
    /\ Result \in Doc
    /\ Key \subseteq Nat
    /\ Path \subseteq Seq(Key) \ {<<>>}
    /\ IntLimit \in Nat \ {0}

VARIABLES
    heap,       \* the elements that were ever made; an object has elements for fields
    doc,        \* the element that each variable points to
    family,     \* history: the documents that each one may share elements with
    steps       \* number of operations

vars == <<heap, doc, family, steps>>

\* An element, or a whole value: then the fields are values.
Nil == [kind |-> "nil", value |-> 0, fields |-> <<>>]
Integer(v) == [kind |-> "integer", value |-> v, fields |-> <<>>]
Obj(f) == [kind |-> "object", value |-> 0, fields |-> f]

Is(h, n, kind) == h[n].kind = kind
Sorted(keys) == SetToSortSeq(keys, <)
Keys(h, n) == DOMAIN h[n].fields
Put(h, n, k, m) == [h EXCEPT ![n].fields = (k :> m) @@ @]

\* The root of what was built last.
Root(h) == Len(h)

\* operator[] of an object: a key that is missing is put there, with nil.
Access(h, n, k) == IF k \in Keys(h, n) THEN h ELSE Put(Append(h, Nil), n, k, Len(h) + 1)

\* The value of an element.
RECURSIVE ValueOf(_, _)
ValueOf(h, n) == [h[n] EXCEPT !.fields = [k \in DOMAIN @ |-> ValueOf(h, @[k])]]

\* New elements for a value; the last one is its root.
RECURSIVE Build(_, _)
Build(h, v) ==
    LET Field(acc, k) ==
            LET b == Build(acc.heap, v.fields[k])
            IN  [heap |-> b, fields |-> (k :> Root(b)) @@ acc.fields]
        all == FoldLeft(Field, [heap |-> h, fields |-> <<>>], Sorted(DOMAIN v.fields))
    IN  Append(all.heap, [v EXCEPT !.fields = all.fields])

\* Faulty variant: the copy of an object has the same elements.
Clone_shallow(h, n) == Append(h, h[n])

\* clone: new elements all the way down.  An integer goes through an int.
Narrow(v) == ((v + IntLimit) % (2 * IntLimit)) - IntLimit
RECURSIVE Clone(_, _)
Clone(h, n) ==
    LET Field(acc, k) ==
            LET c == Clone(acc.heap, h[n].fields[k])
            IN  [heap |-> c, fields |-> (k :> Root(c)) @@ acc.fields]
        all == FoldLeft(Field, [heap |-> h, fields |-> <<>>], Sorted(Keys(h, n)))
    IN  Append(all.heap, [h[n] EXCEPT !.fields = all.fields,
                                      !.value = IF Is(h, n, "integer") THEN Narrow(@) ELSE @])

Init ==
    /\ \E given \in [Doc \ {Result} -> Given] :
          LET Make(acc, d) == [heap |-> Build(acc.heap, given[d]),
                               doc |-> (d :> Root(Build(acc.heap, given[d]))) @@ acc.doc]
              all == FoldLeft(Make, [heap |-> <<Nil>>, doc |-> (Result :> 1)],
                              SetToSeq(Doc \ {Result}))
          IN  heap = all.heap /\ doc = all.doc
    /\ family = [d \in Doc |-> {d}]
    /\ steps = 0

(***************************************************************************)
(* The operators, on elements a and b of heap h                            *)
(***************************************************************************)
\* Faulty variant: what the left has is overwritten.
RECURSIVE StrictUnion_right(_, _, _)
StrictUnion_right(h, a, b) ==
    LET Field(g, k) ==
            LET g1 == Access(g, a, k)
                m == g1[a].fields[k]
                e == g1[b].fields[k]
            IN  IF Is(g1, m, "object") THEN StrictUnion_right(g1, m, e) ELSE Put(g1, a, k, e)
    IN  IF Is(h, a, "object") /\ Is(h, b, "object")
        THEN FoldLeft(Field, h, Sorted(Keys(h, b))) ELSE h

\* Faulty variant: a missing field gets all of the right-hand side.
RECURSIVE StrictUnion_whole(_, _, _)
StrictUnion_whole(h, a, b) ==
    LET Field(g, k) ==
            LET g1 == Access(g, a, k)
                m == g1[a].fields[k]
                e == g1[b].fields[k]
            IN  CASE Is(g1, m, "object") -> StrictUnion_whole(g1, m, e)
                  [] Is(g1, m, "nil") -> Put(g1, a, k, b)
                  [] OTHER -> g1
    IN  IF Is(h, a, "object") /\ Is(h, b, "object")
        THEN FoldLeft(Field, h, Sorted(Keys(h, b))) ELSE h

\* strict_union changes a: what it lacks it takes from b.
RECURSIVE StrictUnion(_, _, _)
StrictUnion(h, a, b) ==
    LET Field(g, k) ==
            LET g1 == Access(g, a, k)
                m == g1[a].fields[k]
                e == g1[b].fields[k]
            IN  CASE Is(g1, m, "object") -> StrictUnion(g1, m, e)
                  [] Is(g1, m, "nil") -> Put(g1, a, k, e)
                  [] OTHER -> g1
    IN  IF Is(h, a, "object") /\ Is(h, b, "object")
        THEN FoldLeft(Field, h, Sorted(Keys(h, b))) ELSE h

\* strict_intersection: the fields of a that are objects are replaced one by one, and a new
\* object with the fields that b has too takes the place of a.
RECURSIVE StrictIntersection(_, _, _)
StrictIntersection(h, a, b) ==
    LET Field(g, k) ==
            IF k \in Keys(g, a) /\ Is(g, g[a].fields[k], "object")
            THEN LET s == StrictIntersection(g, g[a].fields[k], g[b].fields[k])
                 IN  Put(s.heap, a, k, s.root)
            ELSE g
        h1 == FoldLeft(Field, h, Sorted(Keys(h, b)))
        kept == {k \in Keys(h1, a) \cap Keys(h1, b) : ~ Is(h1, h1[b].fields[k], "nil")}
    IN  IF Is(h, a, "object") /\ Is(h, b, "object")
        THEN [heap |-> Append(h1, Obj([k \in kept |-> h1[a].fields[k]])), root |-> Len(h1) + 1]
        ELSE [heap |-> h, root |-> a]

\* a - b and a -= b: the keys of b are taken out of a.
Without(h, a, b) == [h EXCEPT ![a].fields = [k \in Keys(h, a) \ Keys(h, b) |-> @[k]]]

\* a + b for an object a: a copy of a, into which the fields of b are put.
RECURSIVE Plus(_, _, _)
Plus(h, a, b) ==
    LET c == Clone(h, a)
        root == Root(c)
        Field(g, k) ==
            IF k \in Keys(g, root) /\ Is(g, g[root].fields[k], "object")
            THEN LET p == Plus(g, g[root].fields[k], g[b].fields[k])
                 IN  Put(p.heap, root, k, p.root)
            ELSE Put(g, root, k, g[b].fields[k])
    IN  [heap |-> FoldLeft(Field, c, Sorted(Keys(h, b))), root |-> root]

\* a += b: fields that both have are added up, and integers change in place.  An integer and
\* an object cannot be added: number() throws, and what has been added stays so.
RECURSIVE PlusAssign(_, _, _)
PlusAssign(h, a, b) ==
    LET Field(acc, k) ==
            LET g == Access(acc.heap, a, k)
                m == g[a].fields[k]
                e == g[b].fields[k]
            IN  CASE acc.threw -> acc
                  [] ~ acc.threw /\ Is(g, m, "nil") -> [heap |-> Put(g, a, k, e), threw |-> FALSE]
                  [] OTHER -> PlusAssign(g, m, e)
    IN  CASE Is(h, b, "nil") -> [heap |-> h, threw |-> FALSE]
          [] Is(h, a, "object") ->
                FoldLeft(Field, [heap |-> h, threw |-> FALSE], Sorted(Keys(h, b)))
          [] Is(h, a, "integer") /\ Is(h, b, "integer") ->
                [heap |-> [h EXCEPT ![a].value = @ + h[b].value], threw |-> FALSE]
          [] OTHER -> [heap |-> h, threw |-> TRUE]

\* get_path finds its way with operator[]: a key that is missing is there afterwards.
RECURSIVE GetPath(_, _, _)
GetPath(h, n, path) ==
    LET h1 == Access(h, n, Head(path))
        m == h1[n].fields[Head(path)]
    IN  CASE ~ Is(h, n, "object") -> h
          [] Is(h, n, "object") /\ Len(path) > 1 /\ ~ Is(h1, m, "nil") -> GetPath(h1, m, Tail(path))
          [] OTHER -> h1

\* set_path makes the objects that are missing, and gives up where it meets an integer.
RECURSIVE SetPath(_, _, _, _)
SetPath(h, n, path, v) ==
    LET k == Head(path)
        missing == k \notin Keys(h, n) \/ Is(h, h[n].fields[k], "nil")
        made == Append(h, Obj(<<>>))
    IN  CASE ~ Is(h, n, "object") -> h
          [] Is(h, n, "object") /\ Len(path) = 1 -> Put(h, n, k, v)
          [] Is(h, n, "object") /\ Len(path) > 1 /\ missing ->
                SetPath(Put(made, n, k, Root(made)), Root(made), Tail(path), v)
          [] OTHER -> SetPath(h, h[n].fields[k], Tail(path), v)

\* The rest of del_path, from an element that was found: a scalar in the way throws.
RECURSIVE DelRest(_, _, _)
DelRest(h, n, path) ==
    LET k == Head(path)
        h1 == Access(h, n, k)
        m == h1[n].fields[k]
    IN  CASE path = <<>> \/ ~ Is(h, n, "object") -> h
          [] Is(h, n, "object") /\ path # <<>> /\ Is(h1, m, "nil") -> h1
          [] Is(h, n, "object") /\ Len(path) = 1 /\ ~ Is(h1, m, "nil") ->
                [h1 EXCEPT ![n].fields = [j \in Keys(h1, n) \ {k} |-> @[j]]]
          [] OTHER -> DelRest(h1, m, Tail(path))

\* del_path removes what is inside the first part of the path; a path of one part only looks.
DelPath(h, n, path) ==
    LET h1 == Access(h, n, Head(path))
        m == h1[n].fields[Head(path)]
    IN  CASE ~ Is(h, n, "object") -> h
          [] Is(h, n, "object") /\ Is(h1, m, "nil") -> h1
          [] OTHER -> DelRest(h1, m, Tail(path))

(***************************************************************************)
(* Operations on documents                                                 *)
(***************************************************************************)
Step == steps < MaxSteps /\ steps' = steps + 1

\* The document d is a new one, that may share elements with the documents of S.
Renew(d, S) ==
    family' = [c \in Doc |-> IF c \in S \cup {d} THEN (S \ {d}) \cup {d} ELSE family[c] \ {d}]

\* The document a takes elements of b.
Unite(a, b) ==
    LET both == family[a] \cup family[b]
    IN  family' = [c \in Doc |-> IF c \in both THEN both ELSE family[c]]

Assign(d, r) == heap' = r.heap /\ doc' = [doc EXCEPT ![d] = r.root]
Copy(d, n) == Assign(d, [heap |-> Clone(heap, n), root |-> Root(Clone(heap, n))])
Empty(d) == Is(heap, doc[d], "nil")

\* Result = a: both are one element from now on.
Share(a) ==
    /\ Step
    /\ doc' = [doc EXCEPT ![Result] = doc[a]]
    /\ Renew(Result, family[a])
    /\ UNCHANGED heap

\* Result = a->clone()
CloneDoc(a) ==
    /\ Step
    /\ Copy(Result, doc[a])
    /\ Renew(Result, {})

\* Result = a | b
Or(a, b) ==
    /\ Step
    /\ IF Empty(a) \/ Empty(b)
       THEN Copy(Result, IF Empty(b) THEN doc[a] ELSE doc[b]) /\ Renew(Result, {})
       ELSE /\ LET c == Clone(heap, doc[a])
               IN  Assign(Result, [heap |-> StrictUnion(c, Root(c), doc[b]), root |-> Root(c)])
            /\ Renew(Result, family[b])

\* Result = a & b
And(a, b) ==
    /\ Step
    /\ LET c == Clone(heap, doc[a])
       IN  Assign(Result, StrictIntersection(c, Root(c), doc[b]))
    /\ Renew(Result, {})

\* Result = a + b
Add(a, b) ==
    /\ Step
    /\ IF Empty(a) \/ Empty(b)
       THEN Copy(Result, IF Empty(b) THEN doc[a] ELSE doc[b]) /\ Renew(Result, {})
       ELSE Assign(Result, Plus(heap, doc[a], doc[b])) /\ Renew(Result, family[b])

\* Result = a - b
Sub(a, b) ==
    /\ Step
    /\ IF Empty(a) \/ Empty(b)
       THEN Copy(Result, IF Empty(b) THEN doc[a] ELSE doc[b])
       ELSE LET c == Clone(heap, doc[a])
            IN  Assign(Result, [heap |-> Without(c, Root(c), doc[b]), root |-> Root(c)])
    /\ Renew(Result, {})

\* In-place forms on a document that is nil: it becomes a copy.
Adopt(a, b) == Copy(a, doc[b]) /\ Renew(a, {})

\* a |= b
OrAssign(a, b) ==
    /\ Step
    /\ CASE Empty(b) -> UNCHANGED <<heap, doc, family>>
         [] Empty(a) /\ ~ Empty(b) -> Adopt(a, b)
         [] OTHER -> heap' = StrictUnion(heap, doc[a], doc[b]) /\ Unite(a, b) /\ UNCHANGED doc

\* a &= b: a is another element afterwards, unless b is nil.
AndAssign(a, b) ==
    /\ Step
    /\ IF Empty(a) THEN Adopt(a, b)
       ELSE /\ Assign(a, StrictIntersection(heap, doc[a], doc[b]))
            /\ UNCHANGED family

\* a += b, which may throw half-way
AddAssign(a, b) ==
    /\ Step
    /\ CASE Empty(b) -> UNCHANGED <<heap, doc, family>>
         [] Empty(a) /\ ~ Empty(b) -> Adopt(a, b)
         [] OTHER -> heap' = PlusAssign(heap, doc[a], doc[b]).heap /\ Unite(a, b) /\ UNCHANGED doc

\* a -= b, which would take elements out of the map it iterates over if both were one object
SubAssign(a, b) ==
    /\ Step
    /\ CASE Empty(a) -> Adopt(a, b)
         [] ~ Empty(a) /\ Empty(b) -> UNCHANGED <<heap, doc, family>>
         [] OTHER -> /\ doc[a] # doc[b]
                     /\ heap' = Without(heap, doc[a], doc[b])
                     /\ UNCHANGED <<doc, family>>

\* d->get_path(path), d->set_path(path, Written) and d->del_path(path)
ReadPath(d, path) ==
    /\ Step
    /\ heap' = GetPath(heap, doc[d], path)
    /\ UNCHANGED <<doc, family>>

WritePath(d, path) ==
    /\ Step
    /\ LET h == Append(heap, Integer(Written))
       IN  heap' = SetPath(h, doc[d], path, Root(h))
    /\ UNCHANGED <<doc, family>>

RemovePath(d, path) ==
    /\ Step
    /\ heap' = DelPath(heap, doc[d], path)
    /\ UNCHANGED <<doc, family>>

Next ==
    \/ \E a \in Doc : Share(a) \/ CloneDoc(a)
    \/ \E a, b \in Doc : Or(a, b) \/ And(a, b) \/ Add(a, b) \/ Sub(a, b)
    \/ \E a, b \in Doc : OrAssign(a, b) \/ AndAssign(a, b) \/ AddAssign(a, b) \/ SubAssign(a, b)
    \/ \E d \in Doc, path \in Path :
          ReadPath(d, path) \/ WritePath(d, path) \/ RemovePath(d, path)

Spec == Init /\ [][Next]_vars

(***************************************************************************)
(* Reference: the same operations on values, where nothing is shared       *)
(***************************************************************************)
IsObj(v) == v.kind = "object"
IsNil(v) == v.kind = "nil"
Field(v, k) == IF k \in DOMAIN v.fields THEN v.fields[k] ELSE Nil
Both(a, b) == DOMAIN a.fields \cup DOMAIN b.fields

\* a | b: what both have is a's, unless both are objects.
RECURSIVE Union(_, _)
Union(a, b) ==
    CASE IsNil(a) -> b
      [] IsObj(a) /\ IsObj(b) -> Obj([k \in Both(a, b) |-> Union(Field(a, k), Field(b, k))])
      [] OTHER -> a

\* a & b: the fields of a that b has too.
RECURSIVE Common(_, _)
Common(a, b) ==
    IF IsObj(a) /\ IsObj(b)
    THEN Obj([k \in {k \in DOMAIN a.fields : ~ IsNil(Field(b, k))} |->
                    Common(a.fields[k], b.fields[k])])
    ELSE a

\* a + b: what both have is b's, unless a's is an object.
RECURSIVE Merge(_, _)
Merge(a, b) ==
    CASE IsNil(a) -> b
      [] IsObj(a) /\ IsObj(b) ->
            Obj([k \in Both(a, b) |->
                    CASE k \notin DOMAIN b.fields -> a.fields[k]
                      [] k \in DOMAIN b.fields /\ IsObj(Field(a, k)) ->
                            Merge(a.fields[k], b.fields[k])
                      [] OTHER -> b.fields[k]])
      [] OTHER -> a

\* a += b: the integers that both have are added up.  Defined if a and b are addable.
RECURSIVE Addable(_, _)
Addable(a, b) ==
    /\ a.kind = "integer" => ~ IsObj(b)
    /\ IsObj(a) => \A k \in DOMAIN a.fields \cap DOMAIN b.fields : Addable(a.fields[k], b.fields[k])
RECURSIVE Sum(_, _)
Sum(a, b) ==
    CASE IsNil(a) -> b
      [] IsObj(a) /\ IsObj(b) -> Obj([k \in Both(a, b) |-> Sum(Field(a, k), Field(b, k))])
      [] a.kind = "integer" /\ b.kind = "integer" -> Integer(a.value + b.value)
      [] OTHER -> a

\* a - b: the fields of a that b does not have.
Rest(a, b) ==
    IF IsNil(a) THEN b ELSE Obj([k \in DOMAIN a.fields \ DOMAIN b.fields |-> a.fields[k]])

\* A value without the fields that are nil.
RECURSIVE Pruned(_)
Pruned(v) ==
    [v EXCEPT !.fields = [k \in {k \in DOMAIN @ : ~ IsNil(@[k])} |-> Pruned(@[k])]]

\* The value with the integer at the end of the path: an integer on the way is kept.
RECURSIVE With(_, _)
With(v, path) ==
    CASE path = <<>> -> Integer(Written)
      [] path # <<>> /\ v.kind = "integer" -> v
      [] OTHER -> Obj((Head(path) :> With(Field(v, Head(path)), Tail(path))) @@ v.fields)

\* The value without the field at the end of the path.
RECURSIVE Removed(_, _)
Removed(v, path) ==
    IF ~ IsObj(v) \/ Head(path) \notin DOMAIN v.fields THEN v
    ELSE IF Len(path) = 1
         THEN Obj([k \in DOMAIN v.fields \ {Head(path)} |-> v.fields[k]])
         ELSE Obj([v.fields EXCEPT ![Head(path)] = Removed(@, Tail(path))])

\* All integers fit an int.
RECURSIVE Fits(_)
Fits(v) ==
    /\ v.value \in -IntLimit .. IntLimit - 1
    /\ \A k \in DOMAIN v.fields : Fits(v.fields[k])

(***************************************************************************)
(* Properties                                                              *)
(***************************************************************************)
\* The elements that are reached in at most depth steps, and whether that is all.
RECURSIVE Tree(_, _, _)
Tree(h, n, depth) ==
    /\ n \in DOMAIN h
    /\ Is(h, n, "object") \/ h[n].fields = <<>>
    /\ h[n].fields = <<>> \/ depth > 0
    /\ \A k \in Keys(h, n) : k \in Key /\ Tree(h, h[n].fields[k], depth - 1)

\* A document is nil or an object, and a finite tree no deeper than the documents were to
\* begin with: combining them never makes a cycle.
TypeOK ==
    /\ steps \in 0 .. MaxSteps
    /\ doc \in [Doc -> DOMAIN heap]
    /\ family \in [Doc -> SUBSET Doc]
    /\ \A d \in Doc : ~ Is(heap, doc[d], "integer") /\ Tree(heap, doc[d], MaxDepth)

Value(d) == ValueOf(heap, doc[d])

\* A document is changed by what is done to it or to a document of its family only.
OthersKept(S) == \A c \in Doc \ S : Value(c)' = Value(c)

\* Every operation gives the value that its reference gives on values that share nothing,
\* however the documents share elements, provided that the integers fit the int that clone
\* takes them through (JSONElement.cpp).  The binary forms leave all other documents alone;
\* the in-place forms leave those alone that have never been combined with the left-hand
\* side.  Reading by path puts in nothing but nil; del_path with one key removes nothing;
\* += that throws is the one operation whose result is not determined.
Combined ==
    [][ /\ \A a, b \in Doc :
              LET va == Value(a)
                  vb == Value(b)
                  small == Fits(va) /\ Fits(vb)
              IN  /\ Share(a) => Value(Result)' = va /\ OthersKept({Result})
                  /\ CloneDoc(a) => (small => Value(Result)' = va) /\ OthersKept({Result})
                  /\ Or(a, b) => (small => Value(Result)' = Union(va, vb)) /\ OthersKept({Result})
                  /\ And(a, b) => (small => Value(Result)' = Common(va, vb)) /\ OthersKept({Result})
                  /\ Add(a, b) => (small => Value(Result)' = Merge(va, vb)) /\ OthersKept({Result})
                  /\ Sub(a, b) => (small => Value(Result)' = Rest(va, vb)) /\ OthersKept({Result})
                  /\ OrAssign(a, b) =>
                        (small => Value(a)' = Union(va, vb)) /\ OthersKept(family[a])
                  /\ AndAssign(a, b) =>
                        /\ small => Value(a)' = (IF IsNil(va) THEN vb ELSE Common(va, vb))
                        /\ OthersKept(family[a])
                  /\ AddAssign(a, b) =>
                        /\ small /\ Addable(va, vb) => Value(a)' = Sum(va, vb)
                        /\ OthersKept(family[a])
                  /\ SubAssign(a, b) =>
                        (small => Value(a)' = Rest(va, vb)) /\ OthersKept(family[a])
        /\ \A d \in Doc, path \in Path :
              LET v == Value(d)
              IN  /\ ReadPath(d, path) => \A c \in Doc : Pruned(Value(c)') = Pruned(Value(c))
                  /\ WritePath(d, path) =>
                        /\ Pruned(Value(d)') = IF IsNil(v) THEN Nil ELSE Pruned(With(v, path))
                        /\ OthersKept(family[d])
                  /\ RemovePath(d, path) =>
                        /\ Pruned(Value(d)') =
                              IF Len(path) = 1 THEN Pruned(v) ELSE Pruned(Removed(v, path))
                        /\ OthersKept(family[d])
      ]_vars

\* The elements of a document.
RECURSIVE Elements(_, _)
Elements(h, n) == {n} \cup UNION {Elements(h, h[n].fields[k]) : k \in Keys(h, n)}

\* Two documents share an element only if one was made from the other as the right-hand
\* side of + or | or of an in-place form, or by plain assignment: what clone and & return,
\* and the left-hand side of + and |, are independent of the result from then on.
Related ==
    \A c, d \in Doc :
        Elements(heap, doc[c]) \cap Elements(heap, doc[d]) # {} => d \in family[c]
=============================================================================
