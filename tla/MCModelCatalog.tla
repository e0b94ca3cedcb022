--------------------------- MODULE MCModelCatalog ---------------------------
(* Instances of ModelCatalog and ModelSchema for TLC.  They share no state, so a
   behaviour is either three requests on two nodes, in several combinations of
   backend, stored model and jobs, or two writers that extend one schema. *)
EXTENDS ModelCatalog, ModelSchema

CONSTANTS n1, n2, a, b, c, r1, r2, r3, e1, e2

Model(state, level, schema) == [state |-> state, level |-> level, keys |-> {}, schema |-> schema]
JobAt(kind, n, docs) == [kind |-> kind, node |-> n, docs |-> docs, ids |-> <<e1, e2>>,
                         strict |-> FALSE, level |-> "STRUCTURAL"]
Three(x, y, z) == r1 :> x @@ r2 :> y @@ r3 :> z
Entity(id) == [id |-> id, doc |-> {a}]

Growing == Model("LOCKED", "STRUCTURAL", {a})
Draft == Model("UNLOCKED", "STRUCTURAL", {a})
Create(n, doc) == JobAt("create", n, <<doc>>)
Update(n, docs) == JobAt("update", n, docs)
Admin(kind, n) == JobAt(kind, n, <<{b}>>)

Setup(backend, model, es, jobs) ==
    [backend |-> backend, row |-> model, entities |-> es, jobs |-> jobs, failing |-> {}]

\* Extensions, alone and in a transaction, against each other and a search.
Extending(backend) ==
    { Setup(backend, Growing, {Entity(e1), Entity(e2)},
            Three(Create(n1, {a, b}), Update(n2, <<{a, c}, {a, b}>>), JobAt("search", n2, <<{b}>>))),
      Setup(backend, Growing, {Entity(e1)},
            Three(Create(n1, {a, c}), Update(n1, <<{a, b}>>), Update(n2, <<{a, c}>>))),
      Setup(backend, Growing, {Entity(e1)},
            Three([Update(n1, <<{a, b}>>) EXCEPT !.strict = TRUE], Create(n1, {b}),
                  JobAt("search", n1, <<{b}>>))) }

\* Lifecycle operations against each other and against writers.
Lifecycle(backend) ==
    { Setup(backend, Growing, {Entity(e1)},
            Three(Admin("purge", n1), Admin("unlock", n1), Create(n2, {a, c}))),
      Setup(backend, Draft, {}, Three(Admin("lock", n1), Admin("import", n1), Create(n2, {a, c}))),
      Setup(backend, Draft, {}, Three(Admin("keys", n1), Admin("import", n2), Admin("delete", n1))),
      Setup(backend, Model("UNLOCKED", "", {a, b}), {},
            Three(Admin("lock", n1), Admin("level", n2), Admin("keys", n2))) }

\* An import, and a search that shares its read, beside a writer: the read may fail.
Unread(backend) ==
    { [Setup(backend, Growing, {Entity(e1)},
             Three(Admin("import", n1), JobAt("search", n1, <<{b}>>), Create(n2, {a, c})))
         EXCEPT !.failing = {r1, r2}] }

NoWork == Setup("memory", Growing, {}, [r \in Req |-> Admin("none", n1)])
MCLoad ==
    {NoWork} \cup UNION {Extending(bk) \cup Lifecycle(bk) : bk \in {"memory", "sqlite", "postgres"}}
             \cup Unread("sqlite") \cup Unread("postgres")

-----------------------------------------------------------------------------
\* Documents.
Null == [tag |-> "null"]
Sc(t) == [tag |-> "scalar", type |-> t]
Arr(s) == [tag |-> "array", items |-> s]
Obj(f) == [tag |-> "object", fields |-> f]
F(v) == Obj("f" :> v)
FG(v, w) == Obj("f" :> v @@ "g" :> w)

Tree(base, level, keys, docs) == [base |-> base, level |-> level, keys |-> keys, docs |-> docs]
Learnt(doc) == walkSampleData(<<doc>>)

\* Values a path may be observed as, and the schemas a behaviour starts from:
\* learnt from sample documents, or stored with an element never observed.
Shapes == {Null, Sc("STRING"), Sc("LONG"), F(Sc("INTEGER")), Arr(<<>>), Arr(<<Sc("DATE"), F(Null)>>)}
Bases == {Learnt(F(v)) : v \in {Null, Sc("DATE"), Sc("INTEGER"), F(Sc("DATE")), Arr(<<>>),
                                Arr(<<Sc("INTEGER")>>), Arr(<<F(Arr(<<>>))>>)}}
         \cup {ObjectNode("f" :> ArrayNode(<<>>)),
               walkSampleData(<<F(Sc("STRING")), F(Arr(<<Sc("STRING")>>))>>)}
Keyed == Learnt(FG(Sc("STRING"), Arr(<<F(Sc("DATE"))>>)))
Deep == F(F(F(F(Sc("STRING")))))

NoTree == Tree(Empty, "", {}, {})
MCSLoad ==
    {NoTree}
    \cup {Tree(n, l, {}, {F(v) : v \in Shapes}) : n \in Bases, l \in {"ARRAY_ELEMENTS", "TYPE", "STRUCTURAL"}}
    \cup {Tree(Keyed, l, {}, {F(v) : v \in Shapes}) : l \in {"", "ARRAY_LENGTH"}}
    \cup {Tree(Learnt(F(Null)), "STRUCTURAL", {}, {Obj("g" :> v) : v \in Shapes}),
          Tree(Keyed, "STRUCTURAL", {<<"f">>},
               {FG(Sc("LONG"), Arr(<<F(Sc("STRING"))>>)), FG(Null, Arr(<<Sc("DATE")>>)), F(F(Null)), Deep,
                Obj("f" :> Sc("STRING") @@ "a.b" :> Null)})}

-----------------------------------------------------------------------------
ModelsInit == Init /\ SInit /\ (load = NoWork <=> sload # NoTree)
ModelsNext == \/ Next /\ UNCHANGED svars
              \/ SNext /\ UNCHANGED vars
ModelsSpec == ModelsInit /\ [][ModelsNext]_<<vars, svars>> /\ Fairness
=============================================================================
