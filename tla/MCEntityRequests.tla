--------------------------- MODULE MCEntityRequests --------------------------
(***************************************************************************)
(* Entity requests on small instances: a behaviour runs either a workload  *)
(* of queries (EntityQuery) or one write request (EntityService).          *)
(***************************************************************************)
EXTENDS EntityQuery, EntityService, TLC

-----------------------------------------------------------------------------
(* Queries.  n is a number, a text that spells one or another, a boolean,  *)
(* null or absent; s is a text, a boolean, an object or null.              *)
Doc(n, s, tags, at, state) ==
    [n |-> n, s |-> s, tags |-> tags, at |-> <<"time", at>>, state |-> <<"text", state>>]

Num(n) == <<"num", n>>
Text(t) == <<"text", t>>
Null == <<"null", "">>
Missing == <<"absent", "">>

D10 == Doc(Num(10), Text("10"), {Text("1")}, 2, "1")
D11 == Doc(Num(11), Null, {}, 3, "5")
D5  == Doc(Missing, Text("11"), {Text("11"), Num(5)}, 4, "5")
D5s == Doc(Text("5"), Text("10"), {}, 4, "5")
DTrue == Doc(<<"bool", TRUE>>, Text("n/a"), {}, 4, "1")
DFlag == Doc(Num(5), <<"bool", TRUE>>, {}, 4, "1")
DObj == Doc(Null, <<"obj", "">>, {Text("n/a")}, 5, "1")

Leaf(op, path, kind, arg) ==
    [op |-> op, path |-> path, source |-> "data", temporal |-> FALSE, declared |-> {kind},
     wildcard |-> FALSE, arg |-> arg, hi |-> arg]

Group(op, kids) == [op |-> op, kids |-> kids]

Zero == [op |-> ""]
Over10 == Leaf("gt", "n", "num", Num(10))
From5 == [Leaf("between", "n", "num", Num(5)) EXCEPT !.hi = Num(11)]
Holds1 == Leaf("contains", "s", "text", Text("1"))
Like1 == Leaf("like", "s", "text", Text("1"))
Tagged == [Leaf("contains", "tags", "text", Text("1")) EXCEPT !.wildcard = TRUE]
NoS == Leaf("is_null", "s", "text", Text(""))
SomeN == Leaf("not_null", "n", "num", Num(5))
Later == [Leaf("gt", "at", "time", <<"time", 3>>) EXCEPT !.temporal = TRUE, !.source = "meta"]
Other10 == Leaf("ne", "n", "num", Num(10))
Malformed == Leaf("eq", "malformed", "num", Num(5))
AnyKind(op) == [Leaf(op, "s", "text", Num(10)) EXCEPT !.declared = {"num", "text"}]
Unknown == [NoS EXCEPT !.path = "bogus", !.source = "meta"]
Unreadable == Leaf("gt", "n", "num", Text("n/a"))

Filters == {Zero, Over10, From5, Group("AND", <<Over10, Like1>>), Group("OR", <<Holds1, Like1>>),
            Group("OR", <<Over10, NoS>>), Group("OR", <<>>), Group("AND", <<SomeN, NoS>>),
            Group("NOT", <<Over10>>), Tagged, Later, Other10, Malformed,
            AnyKind("eq"), AnyKind("gt"), Group("AND", <<NoS, Unknown>>), Group("NOT", <<Unreadable>>)}

Ask(op, f, pit, limit, track) ==
    [op |-> op, filter |-> f, pit |-> pit, limit |-> limit, track |-> track,
     group |-> "state", agg |-> "none", field |-> "n", max |-> 0]

Searches ==
    {Ask("search", f, Now, 3, f = Over10) : f \in Filters}
      \cup {Ask("search", f, pit, 1, FALSE) : f \in {Zero, Other10, NoS}, pit \in {Now, 1}}

Iterates ==
    {Ask("iterate", f, pit, 1, TRUE) : f \in {Zero, Over10, Group("NOT", <<NoS>>)}, pit \in {Now, 1}}
      \cup {Ask("iterate", Unknown, Now, 1, TRUE)}

Stats ==
    {[Ask("stats", f, Now, 1, FALSE) EXCEPT !.group = g, !.agg = a, !.max = m] :
        f \in {SomeN, Over10}, g \in {"state", "s"}, a \in {"avg", "min", "max", "stdev"}, m \in {1, 3}}
      \cup {[Ask("stats", f, pit, 1, FALSE) EXCEPT !.agg = "sum", !.max = 3] :
               f \in {Zero, SomeN, Unknown}, pit \in {Now, 1}}

QueryLoad(be, docs, writes, queries) ==
    [be |-> be, docs |-> docs, writes |-> writes, queries |-> queries]

MCLoads ==
    [l \in ({"memory", "sqlite", "postgres"} \X {"search", "iterate", "stats"}) \cup {<<"memory", "none">>} |->
        CASE l[2] = "search"  -> QueryLoad(l[1], 1 :> D10 @@ 2 :> D11, {D5, DObj, DTrue}, Searches)
          [] l[2] = "iterate" -> QueryLoad(l[1], 1 :> D10 @@ 2 :> D11, {D5}, Iterates)
          [] l[2] = "stats"   -> QueryLoad(l[1], 1 :> D10 @@ 2 :> D11, {DObj, D5s, DTrue, DFlag}, Stats)
          [] l[2] = "none"    -> QueryLoad(l[1], <<>>, {}, {})]

-----------------------------------------------------------------------------
(* Write requests.  Entities 1 to 3 have two versions, of transactions 1   *)
(* and 2; 4 and 5 are free for creation.                                   *)
Rows2(hit2) ==
    <<Row(1, 1, "wait", TRUE, FALSE, 0), Row(2, 2, "wait", hit2, FALSE, 1)>>

Stock == [i \in Id |-> IF i > 3 THEN <<>> ELSE Rows2(i # 2)]

Write(op, items) ==
    [be |-> "memory", rows |-> Stock, op |-> op, items |-> items, pit |-> 0, cond |-> FALSE, size |-> 0,
     others |-> 1]

Erase(op, cond, pit, size) ==
    [Write(op, <<>>) EXCEPT !.cond = cond, !.pit = pit, !.size = size]

It(id, to, doc, ifMatch, flow) ==
    [id |-> id, to |-> to, doc |-> doc, ifMatch |-> ifMatch, flow |-> flow]

Requests == <<
    Write("create", <<It(4, "done", "hit", 0, "plain")>>),
    Write("createAll", <<It(4, "", "hit", 0, "plain"), It(5, "done", "miss", 0, "segment")>>),
    Write("update", <<It(1, "done", "keep", 0, "plain")>>),
    Write("update", <<It(1, "done", "keep", 2, "plain")>>),
    Write("update", <<It(1, "done", "miss", 2, "segment")>>),
    [Write("update", <<It(1, "done", "miss", 0, "segmentTx")>>) EXCEPT !.others = 2],
    Write("updateAll", <<It(1, "done", "miss", 1, "plain"), It(2, "done", "hit", 2, "plain")>>),
    Write("updateAll", <<It(1, "done", "miss", 2, "segment"), It(2, "done", "hit", 1, "segmentTx"),
                         It(3, "", "hit", 2, "plain")>>),
    Write("updateAll", <<It(1, "done", "miss", 0, "plain"), It(1, "", "hit", 2, "plain")>>),
    Write("updateAll", <<It(1, "done", "miss", 0, "plain"), It(2, "", "hit", 2, "fail")>>),
    Write("delete", <<It(1, "", "keep", 0, "plain")>>),
    Erase("deleteAll", FALSE, 0, 0),
    [Erase("deleteIf", TRUE, 0, 0) EXCEPT !.others = 2],
    Erase("deleteIf", TRUE, 1, 0),
    Erase("deleteBatch", TRUE, 0, 1),
    [Erase("deleteBatch", TRUE, 0, 2) EXCEPT !.others = 2],
    Erase("deleteBatch", TRUE, 1, 2)>>

MCSLoads ==
    [l \in ({"memory", "sqlite"} \X (1 .. Len(Requests))) \cup {<<"memory", 0>>} |->
        IF l[2] = 0 THEN Write("none", <<>>) ELSE [Requests[l[2]] EXCEPT !.be = l[1]]]

MCId == 1 .. 5

-----------------------------------------------------------------------------
RequestsInit ==
    /\ QInit /\ SInit
    /\ qload[2] = "none" <=> sload[2] # 0

RequestsNext ==
    \/ sload[2] = 0 /\ QNext /\ UNCHANGED svars
    \/ qload[2] = "none" /\ SNext /\ UNCHANGED qvars

RequestsSpec == RequestsInit /\ [][RequestsNext]_<<qvars, svars>>
=============================================================================
