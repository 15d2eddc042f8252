----------------------------- MODULE MCToolSchema -----------------------------
(***************************************************************************)
(* Schemas and arguments for ToolSchema, nested three deep: every type and *)
(* keyword of the subset where it is used, and every way not to keep to it,*)
(* at the root, in a property and in items.                                *)
(***************************************************************************)
EXTENDS ToolSchema, TLC

Nothing == [keyword \in {} |-> Null]

(* The integers of two bits are -2..1.                                     *)
InnerScalars ==
  {Null, Bool(TRUE), Str("x"),
   Num(1, "plain"), Num(1, "respelled"), Num(0, "fraction"), Num(2, "plain")}

InnerValues ==
  InnerScalars
    \cup {Arr(<<>>), Arr(<<Str("x")>>), Arr(<<Num(1, "plain"), Str("x")>>),
          Arr(<<Num(1, "respelled")>>)}
    \cup {Obj(Nothing), Obj([a |-> Str("x")]), Obj([a |-> Num(1, "plain")]), Obj([b |-> Null])}

(* One array more than a document may nest.                                *)
TooDeep == Arr(<<Arr(<<Arr(<<Arr(<<Arr(<<Arr(<<Arr(<<Arr(<<>>)>>)>>)>>)>>)>>)>>)>>)

MCArguments ==
  {One(Obj([a |-> v])) : v \in InnerValues}
    \cup {One(Obj([a |-> v, b |-> Null])) : v \in InnerValues}
    \cup {One(Obj(Nothing)), One(Obj([b |-> Null])), One(Null), One(Str("x"))}
    \cup {Document(<<>>, FALSE), Document(<<Obj(Nothing)>>, TRUE),
          Document(<<Obj(Nothing), Null>>, FALSE)}
    \cup {One(TooDeep)}

-----------------------------------------------------------------------------
Type(type) == [type |-> Str(type)]

Enums ==
  {Nothing, [enum |-> Arr(<<Num(1, "plain"), Str("x")>>)], [enum |-> Arr(<<Num(1, "respelled")>>)]}

Scalars == {Obj(Type(t) @@ e) : t \in Types \ {"object", "array"}, e \in Enums}

Arrays == {Obj(Type("array") @@ [items |-> s]) : s \in Scalars}

Given == {Nothing, [required |-> Arr(<<Str("a")>>)], [required |-> Arr(<<Str("a"), Str("b")>>)]}
Closed == {Nothing, [additionalProperties |-> Bool(FALSE)]}

Objects(properties) ==
  {Obj(Type("object") @@ p @@ g @@ c) :
     p \in {Nothing} \cup {[properties |-> Obj([a |-> s])] : s \in properties},
     g \in Given, c \in Closed}

Names == SupportedKeywords \cup {"pattern", "a", "b"}

SubsetRoots ==
  Objects(Scalars \cup Arrays \cup Objects({Obj(Type("string")), Obj(Type("integer"))}))
    \cup {Obj(Type("object") @@ [enum |-> Arr(<<Obj([a |-> Num(1, "plain")])>>)])}

(* Schemas outside the subset; the last keeps to it where it is used.      *)
Strays ==
  {Str("x"), Obj(Nothing), Obj([type |-> Bool(TRUE)]), Obj(Type("tuple")),
   Obj(Type("string") @@ [enum |-> Str("x")]),
   Obj(Type("string") @@ [pattern |-> Str("x")]),
   Obj(Type("string") @@ [items |-> Str("x")])}

StrayArrays == {Obj(Type("array"))} \cup {Obj(Type("array") @@ [items |-> s]) : s \in Strays}

StrayKeywords ==
  {[properties |-> Str("x")],
   [required |-> Str("a")], [required |-> Arr(<<Bool(TRUE)>>)],
   [required |-> Arr(<<Str("a"), Null>>)],
   [additionalProperties |-> Bool(TRUE)], [additionalProperties |-> Obj(Type("string"))]}

StrayObjects ==
  Objects(Strays \cup StrayArrays)
    \cup {Obj(Type("object") @@ k @@ g @@ c) : k \in StrayKeywords, g \in Given, c \in Closed}

OtherRoots == StrayObjects \cup Objects(StrayObjects) \cup Strays \cup Scalars \cup Arrays

MCDefinitions ==
  {One(s) : s \in SubsetRoots \cup OtherRoots}
    \cup {One(Null), Document(<<>>, FALSE), Document(<<Obj(Type("object"))>>, TRUE),
          Document(<<Obj(Type("object")), Null>>, FALSE)}

(* What values contain, one array or object further in.                    *)
Contents(values) ==
  {p[1].members[p[2]] :
     p \in {q \in values \X Names : q[1].kind = "object" /\ q[2] \in DOMAIN q[1].members}}
    \cup {p[1].elements[p[2]] :
            p \in {q \in values \X {1, 2} : q[1].kind = "array" /\ q[2] \in DOMAIN q[1].elements}}

Roots == {d.values[1] : d \in {e \in MCDefinitions \cup MCArguments : e.values # <<>>}}

MCValues ==
  LET inner1 == Contents(Roots)   inner2 == Contents(inner1)  inner3 == Contents(inner2)
      inner4 == Contents(inner3)  inner5 == Contents(inner4)  inner6 == Contents(inner5)
      inner7 == Contents(inner6)
  IN  Roots \cup inner1 \cup inner2 \cup inner3 \cup inner4 \cup inner5 \cup inner6 \cup inner7
=============================================================================
