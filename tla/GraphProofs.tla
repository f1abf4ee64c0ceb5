----------------------------- MODULE GraphProofs -----------------------------
(***************************************************************************)
(* Proofs about the execution of an operation by the generated code, for   *)
(* any set of operations and lists of any length.                          *)
(*                                                                         *)
(* The objects of a response form a tree.  ExecInv says who waits for whom *)
(* in it, and what a finished object or group has; from it follow that no  *)
(* group is left behind and that the responses conform to the schema.      *)
(* ErrorInv adds the errors: an error goes up from its field exactly as    *)
(* far as the fields on its way may not be null, and never reaches a field *)
(* that was answered before.  Both need what the tables of GraphSchema say *)
(* of nulls, type by type: the executors leave out of their count the      *)
(* fields the schema declares nullable, and a resolver finds nothing only  *)
(* for such a field.                                                       *)
(***************************************************************************)
EXTENDS GraphExec, FiniteSetTheorems, SequenceTheorems, WellFoundedInduction, TLAPS

\* The paths of objects.
Path == Seq(STRING \X Nat)
\* The field of which the object o is the answer or an element.
Above(o) == <<SubSeq(o, 1, Len(o) - 1), o[Len(o)][1]>>

-----------------------------------------------------------------------------
(***************************************************************************)
(* Paths and the types of objects.                                         *)
(***************************************************************************)

\* What is appended to a sequence is its last element.
LEMMA LastOfAppend ==
    ASSUME NEW S, NEW s \in Seq(S), NEW e \in S
    PROVE  /\ Append(s, e) \in Seq(S) /\ Append(s, e) # <<>>
           /\ Len(Append(s, e)) = Len(s) + 1
           /\ Append(s, e)[Len(s) + 1] = e
           /\ SubSeq(Append(s, e), 1, Len(s)) = s
<1>1. /\ Append(s, e) \in Seq(S) /\ Append(s, e) # <<>>
      /\ Len(Append(s, e)) = Len(s) + 1
      /\ \A i \in 1..Len(s) : Append(s, e)[i] = s[i]
      /\ Append(s, e)[Len(s) + 1] = e
    BY AppendProperties
<1>2. SubSeq(Append(s, e), 1, Len(s)) = s
    BY <1>1
<1> QED BY <1>1, <1>2

\* A sequence that is not empty is its front with its last element appended.
LEMMA AppendToFront ==
    ASSUME NEW S, NEW s \in Seq(S), s # <<>>
    PROVE  /\ Len(s) \in Nat \ {0} /\ s[Len(s)] \in S
           /\ SubSeq(s, 1, Len(s) - 1) \in Seq(S)
           /\ Len(SubSeq(s, 1, Len(s) - 1)) = Len(s) - 1
           /\ s = Append(SubSeq(s, 1, Len(s) - 1), s[Len(s)])
<1>1. PICK t \in Seq(S), e \in S : s = Append(t, e)
    BY SequenceEmptyOrAppend
<1> QED BY <1>1, LastOfAppend

\* The object below a field has that field above it.
LEMMA AboveAppend ==
    ASSUME NEW o \in Path, NEW f \in STRING, NEW i \in Nat
    PROVE  /\ Append(o, <<f, i>>) \in Path
           /\ Append(o, <<f, i>>) # <<>>
           /\ Above(Append(o, <<f, i>>)) = <<o, f>>
           /\ Len(Append(o, <<f, i>>)) = Len(o) + 1
           /\ Append(o, <<f, i>>)[Len(o) + 1] = <<f, i>>
<1> DEFINE S == STRING \X Nat
           e == <<f, i>>
           c == Append(o, e)
<1>1. o \in Seq(S) /\ e \in S
    BY DEF Path
<1>2. /\ c \in Seq(S) /\ c # <<>> /\ Len(c) = Len(o) + 1 /\ c[Len(o) + 1] = e
      /\ SubSeq(c, 1, Len(o)) = o
    <2> HIDE DEF S, e
    <2> QED BY <1>1, LastOfAppend
<1>3. Len(o) \in Nat /\ Len(o) + 1 - 1 = Len(o)
    <2> HIDE DEF S
    <2> QED BY <1>1
<1>4. Above(c) = <<o, f>>
    <2> HIDE DEF c
    <2> QED BY <1>2, <1>3 DEF Above
<1> QED BY <1>2, <1>4 DEF Path

\* An object that is not the root is below the field above it.
LEMMA BelowAbove ==
    ASSUME NEW o \in Path, o # <<>>
    PROVE  /\ Len(o) \in Nat \ {0}
           /\ Above(o)[1] \in Path /\ Above(o)[2] \in STRING
           /\ o[Len(o)][2] \in Nat
           /\ Len(Above(o)[1]) = Len(o) - 1
           /\ o = Append(Above(o)[1], <<Above(o)[2], o[Len(o)][2]>>)
<1> DEFINE S == STRING \X Nat
           p == SubSeq(o, 1, Len(o) - 1)
           e == o[Len(o)]
<1>1. o \in Seq(S)
    BY DEF Path
<1>2. Len(o) \in Nat \ {0} /\ e \in S /\ p \in Seq(S) /\ Len(p) = Len(o) - 1 /\ o = Append(p, e)
    <2> HIDE DEF S
    <2> QED BY <1>1, AppendToFront
<1>3. e = <<e[1], e[2]>> /\ e[1] \in STRING /\ e[2] \in Nat
    BY <1>2
<1>4. Above(o) = <<p, e[1]>>
    BY DEF Above
<1> HIDE DEF e, p
<1> QED BY <1>2, <1>3, <1>4 DEF Path, e

\* A selected field is a name.
LEMMA SelectedNames ==
    ASSUME op \in Queries, NEW o \in Path, NEW f \in Selected(o)
    PROVE  f \in STRING
<1>1. FieldNames(o) \in Seq(STRING)
    BY DEF FieldNames, Path
<1>2. Append(FieldNames(o), f) \in Seq(STRING)
    BY GraphAssumption DEF Selected, GraphAssumption
<1> QED BY <1>1, <1>2

\* Every set of naturals that is not empty has a least element.
LEMMA LeastOf ==
    ASSUME NEW S, S \subseteq Nat, S # {}
    PROVE  \E m \in S : \A k \in S : m <= k
<1> DEFINE R == {ss \in Nat \X Nat : ss[1] < ss[2]}
<1>1. IsWellFoundedOn(R, Nat)
    BY NatLessThanWellFounded DEF OpToRel
<1>2. PICK m \in S : \A k \in S : ~(<<k, m>> \in R)
    <2> HIDE DEF R
    <2> QED BY <1>1, WFMin
<1>3. ASSUME NEW k \in S PROVE m <= k
    <2>1. k \in Nat /\ m \in Nat /\ ~(<<k, m>> \in R)
        BY <1>2
    <2>2. k < m => <<k, m>> \in R
        BY <2>1
    <2> HIDE DEF R
    <2> QED BY <2>1, <2>2
<1> QED BY <1>3

\* The type that a step of a path leads to.
Into(t, step) == Fields[t][step[1]].type
\* What the recursive function of TypeFrom satisfies, for the first n steps.
TypesTo(g, root, o, n) == g = [k \in 0..n |-> IF k = 0 THEN root ELSE Into(g[k - 1], o[k])]

\* There is such a function, however long the path is.
LEMMA TypesExist ==
    ASSUME NEW root, NEW o
    PROVE  \A n \in Nat : \E g : TypesTo(g, root, o, n)
<1> DEFINE Bad == {m \in Nat : ~\E g : TypesTo(g, root, o, m)}
<1> SUFFICES ASSUME Bad # {} PROVE FALSE
    OBVIOUS
<1>1. PICK m \in Bad : \A k \in Bad : m <= k
    <2>1. Bad \subseteq Nat
        OBVIOUS
    <2> HIDE DEF Bad
    <2> QED BY <2>1, LeastOf
<1>2. CASE m = 0
    <2> DEFINE g == [k \in 0..0 |-> root]
    <2>1. TypesTo(g, root, o, 0)
        BY DEF TypesTo
    <2> QED BY <1>2, <2>1
<1>3. CASE m # 0
    <2>1. PICK h : TypesTo(h, root, o, m - 1)
        BY <1>1, <1>3
    <2>2. /\ DOMAIN h = 0..m - 1
          /\ \A k \in 0..m - 1 : h[k] = IF k = 0 THEN root ELSE Into(h[k - 1], o[k])
        BY <2>1 DEF TypesTo
    <2> DEFINE last == Into(h[m - 1], o[m])
               g == [k \in 0..m |-> IF k = m THEN last ELSE h[k]]
    <2> HIDE DEF last
    <2>3. g[m] = last /\ \A k \in 0..m : k # m => g[k] = h[k]
        OBVIOUS
    <2>4. \A k \in 0..m : k # 0 => g[k - 1] = h[k - 1]
        OBVIOUS
    <2>5. \A k \in 0..m : g[k] = IF k = 0 THEN root ELSE Into(g[k - 1], o[k])
        <3> TAKE k \in 0..m
        <3>1. CASE k = m
            BY <1>3, <2>3, <2>4, <3>1 DEF last
        <3>2. CASE k # m
            <4>1. k \in 0..m - 1
                BY <3>2
            <4> QED BY <2>2, <2>3, <2>4, <3>2, <4>1
        <3> QED BY <3>1, <3>2
    <2>6. TypesTo(g, root, o, m)
        <3>1. g = [k \in 0..m |-> g[k]]
            OBVIOUS
        <3> HIDE DEF g
        <3> QED BY <2>5, <3>1 DEF TypesTo
    <2> QED BY <2>6
<1> QED BY <1>2, <1>3

\* So the type of an object is the last value of one.
LEMMA TypeChosen ==
    ASSUME NEW root, NEW o, Len(o) \in Nat
    PROVE  \E g : TypesTo(g, root, o, Len(o)) /\ TypeFrom(root, o) = g[Len(o)]
<1> DEFINE g == CHOOSE h : TypesTo(h, root, o, Len(o))
<1>1. TypesTo(g, root, o, Len(o))
    BY TypesExist, Zenon
<1>2. TypeFrom(root, o) = g[Len(o)]
    BY DEF TypeFrom, TypesTo, Into
<1> QED BY <1>1, <1>2

\* The root has the type of the operation, an object below a field the field's.
LEMMA TypeOfRoot == ASSUME NEW root PROVE TypeFrom(root, <<>>) = root
BY TypeChosen DEF TypesTo

\* The type of an object below a field is the type that the schema gives the field.
LEMMA TypeBelow ==
    ASSUME NEW root, NEW o \in Path, NEW f \in STRING, NEW i \in Nat
    PROVE  TypeFrom(root, Append(o, <<f, i>>)) = Fields[TypeFrom(root, o)][f].type
<1> DEFINE S == STRING \X Nat
           e == <<f, i>>
           c == Append(o, e)
           n == Len(o)
<1>0. e \in S /\ o \in Seq(S)
    BY DEF Path
<1>1. /\ n \in Nat /\ Len(c) = n + 1 /\ c[n + 1] = e
      /\ \A j \in 1..n : c[j] = o[j]
    <2> HIDE DEF S, e
    <2> QED BY <1>0, AppendProperties
<1> HIDE DEF c, n, S
<1>2. PICK g : TypesTo(g, root, o, n) /\ TypeFrom(root, o) = g[n]
    BY <1>1, TypeChosen DEF n
<1>3. PICK h : TypesTo(h, root, c, n + 1) /\ TypeFrom(root, c) = h[n + 1]
    BY <1>1, TypeChosen
<1>4. \A k \in 0..n : g[k] = IF k = 0 THEN root ELSE Into(g[k - 1], o[k])
    BY <1>2 DEF TypesTo
<1>5. \A k \in 0..n + 1 : h[k] = IF k = 0 THEN root ELSE Into(h[k - 1], c[k])
    BY <1>3 DEF TypesTo
<1>6. g[n] = h[n]
    <2> DEFINE Bad == {k \in 0..n : g[k] # h[k]}
    <2> SUFFICES ASSUME Bad # {} PROVE FALSE
        BY <1>1
    <2>1. Bad \subseteq Nat
        BY <1>1
    <2>2. PICK m \in Bad : \A k \in Bad : m <= k
        <3>1. Bad # {}
            OBVIOUS
        <3> HIDE DEF Bad
        <3> QED BY <2>1, <3>1, LeastOf
    <2>3. m # 0 /\ m \in 0..n /\ m \in 0..n + 1 /\ m \in 1..n /\ m - 1 \in 0..n
        BY <1>1, <1>4, <1>5, <2>2
    <2>4. g[m - 1] = h[m - 1]
        BY <2>2, <2>3
    <2>5. g[m] = Into(g[m - 1], o[m])
        BY <1>4, <2>3
    <2>6. h[m] = Into(h[m - 1], c[m])
        BY <1>5, <2>3
    <2> QED BY <1>1, <2>2, <2>3, <2>4, <2>5, <2>6
<1>7. h[n + 1] = Into(h[n], c[n + 1])
    <2> DEFINE m == n + 1
    <2>1. m \in 0..n + 1 /\ m # 0 /\ m - 1 = n
        BY <1>1
    <2> HIDE DEF m
    <2>2. h[m] = Into(h[m - 1], c[m])
        BY <1>5, <2>1
    <2> QED BY <2>1, <2>2 DEF m
<1> QED BY <1>1, <1>2, <1>3, <1>6, <1>7 DEF Into, c

-----------------------------------------------------------------------------
(***************************************************************************)
(* The tables.                                                             *)
(***************************************************************************)

\* A mutation answers a string and defers nothing.
LEMMA MutationLeaf ==
    /\ ~IsObject("String") /\ Exec["Mutation"].defers = FALSE
    /\ FieldsOf("Mutation") = {"requestTokens"}
    /\ Fields["Mutation"]["requestTokens"].type = "String"
BY DEF IsObject, Types, Fields, Exec, Mutation_exec, RootExecutor, Executor, FieldsOf,
       Mutation_fields, Call, Prop

\* The roots of the operations are types of the schema.
LEMMA RootTypes == {"Query", "FaucetQuery", "Mutation"} \subseteq Types
BY DEF Types, Fields

\* An executor leaves out of its count exactly the fields that the schema text or
\* the specification of GraphQL declares nullable.
LEMMA UncountedIsNullable ==
    ASSUME NEW t \in Types
    PROVE  Exec[t].uncounted = NullableIn(t)
<1>1. CASE t \in {"Query", "FaucetQuery"}
    BY <1>1 DEF Exec, Query_exec, FaucetQuery_exec, RootExecutor, Executor,
                NullableIn, Nullable, IntrospectionNullable
<1>2. CASE t \in {"__Directive", "__EnumValue", "__Field", "__InputValue", "__Schema", "__Type"}
    BY <1>2 DEF Exec, __Directive_exec, __EnumValue_exec, __Field_exec, __InputValue_exec,
                __Schema_exec, __Type_exec, Executor, NullableIn, Nullable,
                IntrospectionNullable
<1>3. CASE t \in {"SeawaterPositionsGlobal", "SeawaterPositionsUser", "SeawaterSwaps"}
    BY <1>3 DEF Exec, SeawaterPositionsGlobal_exec, SeawaterPositionsUser_exec,
                SeawaterSwaps_exec, Executor, NullableIn, Nullable,
                IntrospectionNullable
<1>4. CASE t \in {"Amount", "GetSwaps", "GetSwapsForUser", "LiquidityCampaign",
                  "LiquidityOverTime", "PairAmount", "PriceOverTime", "SeawaterConfig",
                  "SeawaterLiquidity", "SeawaterPool"}
    BY <1>4 DEF Exec, Amount_exec, GetSwaps_exec, GetSwapsForUser_exec, LiquidityCampaign_exec,
                LiquidityOverTime_exec, PairAmount_exec, PriceOverTime_exec,
                SeawaterConfig_exec, SeawaterLiquidity_exec, SeawaterPool_exec, Executor,
                NullableIn, Nullable, IntrospectionNullable
<1>5. CASE t \in {"SeawaterPosition", "SeawaterSwap", "Served", "Token", "TvlOverTime",
                  "VolumeOverTime", "Wallet", "YieldOverTime", "Mutation"}
    BY <1>5 DEF Exec, SeawaterPosition_exec, SeawaterSwap_exec, Served_exec, Token_exec,
                TvlOverTime_exec, VolumeOverTime_exec, Wallet_exec, YieldOverTime_exec,
                Mutation_exec, RootExecutor, Executor, NullableIn, Nullable,
                IntrospectionNullable
<1> QED BY <1>1, <1>2, <1>3, <1>4, <1>5 DEF Types, Fields

\* A field that may come out as nil is one that lets a null through, in the field
\* function and in the executor.
NilAllowed(t, f) ==
    "nil" \in OutcomesOf(t, f) => ~Fields[t][f].refusesNull /\ f \in Exec[t].uncounted

\* The same of the table T of a type: its resolvers are those of the names in D,
\* the ones in N may find nothing, and its executor does not count those in U.
Rows(T, D, N, U) ==
    \A f \in DOMAIN T :
        IF T[f].resolver THEN f \in D /\ (f \in N => ~T[f].refusesNull)
        ELSE T[f].refusesNull \/ f \in U

\* What the kinds of rows say of resolvers and of nulls.
LEMMA RowKinds ==
    /\ \A t : Prop(t).resolver = FALSE /\ Prop(t).refusesNull = TRUE
    /\ \A t : Call(t).resolver = TRUE /\ Call(t).refusesNull = TRUE
    /\ \A t : Many(Prop(t)).resolver = FALSE /\ Many(Prop(t)).refusesNull = TRUE
    /\ \A t : Many(Call(t)).resolver = TRUE /\ Many(Call(t)).refusesNull = TRUE
    /\ \A t : Maybe(Prop(t)).resolver = FALSE /\ Maybe(Prop(t)).refusesNull = FALSE
    /\ \A t : Maybe(Call(t)).resolver = TRUE /\ Maybe(Call(t)).refusesNull = FALSE
    /\ \A t : Maybe(Many(Prop(t))).resolver = FALSE /\ Maybe(Many(Prop(t))).refusesNull = FALSE
    /\ \A t : Maybe(Many(Call(t))).resolver = TRUE /\ Maybe(Many(Call(t))).refusesNull = FALSE
BY DEF Prop, Call, Maybe, Many

\* Tables are compared part by part,
LEMMA JoinRows ==
    ASSUME NEW a, NEW b, NEW D, NEW N, NEW U, Rows(a, D, N, U), Rows(b, D, N, U)
    PROVE  Rows(Join(a, b), D, N, U)
BY DEF Rows, Join

\* The resolvers of the table R find nothing only for names in N.
Ends(R, N) == \A f \in DOMAIN R : "nil" \in R[f] => f \in N

\* and so are the resolvers of a type,
LEMMA JoinEnds ==
    ASSUME NEW a, NEW b, NEW N, Ends(a, N), Ends(b, N)
    PROVE  Ends(Join(a, b), N)
BY DEF Ends, Join

\* whose names are those of both parts.
LEMMA JoinNames == ASSUME NEW a, NEW b PROVE DOMAIN Join(a, b) = (DOMAIN a) \cup DOMAIN b
BY DEF Join

\* A type whose table passes the comparison lets through the nulls its fields give.
LEMMA RowsAgree ==
    ASSUME NEW t, NEW D, NEW N, Rows(Fields[t], D, N, Exec[t].uncounted),
           N \subseteq Exec[t].uncounted,
           \A f \in D : "nil" \in Resolvers[t][f] => f \in N
    PROVE  \A f \in FieldsOf(t) : NilAllowed(t, f)
BY DEF Rows, NilAllowed, OutcomesOf, FieldsOf

\* The same of a type without resolvers.
LEMMA PropertiesAlone ==
    ASSUME NEW t, Rows(Fields[t], {}, {}, Exec[t].uncounted)
    PROVE  \A f \in FieldsOf(t) : NilAllowed(t, f)
BY DEF Rows, NilAllowed, OutcomesOf, FieldsOf

\* The types that are read from the database or a file as they are.
LEMMA PropertiesAgree ==
    ASSUME NEW t \in {"GetSwaps", "GetSwapsForUser", "LiquidityOverTime", "PairAmount", "PriceOverTime",
                      "Served", "TvlOverTime", "VolumeOverTime", "YieldOverTime"}
    PROVE  \A f \in FieldsOf(t) : NilAllowed(t, f)
<1>1. Rows(Fields[t], {}, {}, Exec[t].uncounted)
    BY RowKinds DEF Rows, Fields, GetSwaps_fields, GetSwapsForUser_fields, LiquidityOverTime_fields,
        PairAmount_fields, PriceOverTime_fields, Served_fields, TvlOverTime_fields,
        VolumeOverTime_fields, YieldOverTime_fields
<1> QED BY <1>1, PropertiesAlone

\* The types of the introspection.
LEMMA IntrospectionAgrees ==
    ASSUME NEW t \in {"__Directive", "__EnumValue", "__Field", "__InputValue", "__Schema"}
    PROVE  \A f \in FieldsOf(t) : NilAllowed(t, f)
<1>1. CASE t \in {"__Directive", "__EnumValue"}
    <2>1. Rows(Fields[t], {}, {}, Exec[t].uncounted)
        BY <1>1, RowKinds DEF Rows, Fields, Exec, Executor, __Directive_fields, __Directive_exec,
            __EnumValue_fields, __EnumValue_exec
    <2> QED BY <2>1, PropertiesAlone
<1>2. CASE t \in {"__Field", "__InputValue", "__Schema"}
    <2>1. Rows(Fields[t], {}, {}, Exec[t].uncounted)
        BY <1>2, RowKinds DEF Rows, Fields, Exec, Executor, __Field_fields, __Field_exec,
            __InputValue_fields, __InputValue_exec, __Schema_fields, __Schema_exec
    <2> QED BY <2>1, PropertiesAlone
<1> QED BY <1>1, <1>2

\* The type of a type, in the three parts of its table.
LEMMA TypeAgrees == \A f \in FieldsOf("__Type") : NilAllowed("__Type", f)
<1> DEFINE U == Exec["__Type"].uncounted
<1>1. Rows(__Type_names, {}, {}, U)
    BY RowKinds DEF Rows, Exec, Executor, __Type_names, __Type_exec
<1>2. Rows(__Type_members, {}, {}, U)
    BY RowKinds DEF Rows, Exec, Executor, __Type_members, __Type_exec
<1>3. Rows(__Type_values, {}, {}, U)
    BY RowKinds DEF Rows, Exec, Executor, __Type_values, __Type_exec
<1>4. Fields["__Type"] = Join(Join(__Type_names, __Type_members), __Type_values)
    BY DEF Fields
<1> HIDE DEF U
<1>5. Rows(Fields["__Type"], {}, {}, U)
    BY <1>1, <1>2, <1>3, <1>4, JoinRows
<1> QED BY <1>5, PropertiesAlone DEF U

\* The same of a type whose resolvers never find nothing.
LEMMA FindsAlways ==
    ASSUME NEW t, Rows(Fields[t], DOMAIN Resolvers[t], {}, Exec[t].uncounted),
           \A f \in DOMAIN Resolvers[t] : "nil" \notin Resolvers[t][f]
    PROVE  \A f \in FieldsOf(t) : NilAllowed(t, f)
BY DEF Rows, NilAllowed, OutcomesOf, FieldsOf

\* The small types with resolvers.
LEMMA ResolversAgree ==
    ASSUME NEW t \in {"Amount", "SeawaterConfig", "SeawaterLiquidity", "Token", "Wallet", "Mutation"}
    PROVE  \A f \in FieldsOf(t) : NilAllowed(t, f)
<1>1. Rows(Fields[t], DOMAIN Resolvers[t], {}, Exec[t].uncounted)
    <2>1. CASE t = "Amount"
        BY <2>1, RowKinds DEF Rows, Fields, Amount_fields, Resolvers, AmountResolver
    <2>2. CASE t = "SeawaterConfig"
        BY <2>2, RowKinds DEF Rows, Fields, SeawaterConfig_fields, Resolvers, SeawaterConfigResolver
    <2>3. CASE t = "SeawaterLiquidity"
        BY <2>3, RowKinds DEF Rows, Fields, SeawaterLiquidity_fields, Resolvers, SeawaterLiquidityResolver
    <2>4. CASE t = "Token"
        BY <2>4, RowKinds DEF Rows, Fields, Token_fields, Resolvers, TokenResolver
    <2>5. CASE t = "Wallet"
        BY <2>5, RowKinds DEF Rows, Fields, Wallet_fields, Resolvers, WalletResolver
    <2>6. CASE t = "Mutation"
        BY <2>6, RowKinds DEF Rows, Fields, Mutation_fields, Resolvers, FaucetResolver
    <2> QED BY <2>1, <2>2, <2>3, <2>4, <2>5, <2>6
<1>2. \A f \in DOMAIN Resolvers[t] : "nil" \notin Resolvers[t][f]
    BY DEF Resolvers, AmountResolver, SeawaterConfigResolver, SeawaterLiquidityResolver,
           TokenResolver, WalletResolver, FaucetResolver, Sure, Fails, Panics
<1> QED BY <1>1, <1>2, FindsAlways

\* The types whose resolvers may find nothing for any field that is not counted.
LEMMA PagesAgree ==
    ASSUME NEW t \in {"SeawaterPositionsGlobal", "SeawaterPositionsUser", "SeawaterSwaps", "FaucetQuery"}
    PROVE  \A f \in FieldsOf(t) : NilAllowed(t, f)
<1> DEFINE U == Exec[t].uncounted
<1>1. Rows(Fields[t], DOMAIN Resolvers[t], U, U)
    BY RowKinds DEF Rows, Fields, SeawaterPositionsGlobal_fields, SeawaterPositionsUser_fields,
        SeawaterSwaps_fields, FaucetQuery_fields, Resolvers, SeawaterPositionsGlobalResolver,
        SeawaterPositionsUserResolver, SeawaterSwapsResolver, FaucetResolver, Exec, Executor,
        RootExecutor, SeawaterPositionsGlobal_exec, SeawaterPositionsUser_exec,
        SeawaterSwaps_exec, FaucetQuery_exec
<1>2. \A f \in DOMAIN Resolvers[t] : "nil" \in Resolvers[t][f] => f \in U
    BY DEF Resolvers, SeawaterPositionsGlobalResolver, SeawaterPositionsUserResolver,
        SeawaterSwapsResolver, FaucetResolver, Exec, Executor, RootExecutor,
        SeawaterPositionsGlobal_exec, SeawaterPositionsUser_exec, SeawaterSwaps_exec,
        FaucetQuery_exec, Sure, Fails, Panics, Finds
<1> HIDE DEF U
<1> QED BY <1>1, <1>2, RowsAgree DEF U

\* The types with tables in parts.
LEMMA PartsAgree ==
    ASSUME NEW t \in {"SeawaterPosition", "SeawaterSwap", "LiquidityCampaign"}
    PROVE  \A f \in FieldsOf(t) : NilAllowed(t, f)
<1> DEFINE D == DOMAIN Resolvers[t]
           U == Exec[t].uncounted
<1>1. Rows(Fields[t], D, {}, U)
    <2>1. CASE t = "SeawaterPosition"
        <3>1. Fields[t] = Join(Join(SeawaterPosition_identity, SeawaterPosition_links),
                               SeawaterPosition_range)
            BY <2>1 DEF Fields
        <3>2. /\ Rows(SeawaterPosition_identity, D, {}, U) /\ Rows(SeawaterPosition_links, D, {}, U)
              /\ Rows(SeawaterPosition_range, D, {}, U)
            BY <2>1, RowKinds DEF Rows, SeawaterPosition_identity, SeawaterPosition_links,
                                  SeawaterPosition_range, Resolvers, SeawaterPositionResolver
        <3> HIDE DEF D, U
        <3> QED BY <3>1, <3>2, JoinRows
    <2>2. CASE t = "SeawaterSwap"
        <3>1. Fields[t] = Join(SeawaterSwap_identity, SeawaterSwap_amounts)
            BY <2>2 DEF Fields
        <3>2. Rows(SeawaterSwap_identity, D, {}, U) /\ Rows(SeawaterSwap_amounts, D, {}, U)
            BY <2>2, RowKinds DEF Rows, SeawaterSwap_identity, SeawaterSwap_amounts, Resolvers,
                                  SeawaterSwapResolver
        <3> HIDE DEF D, U
        <3> QED BY <3>1, <3>2, JoinRows
    <2>3. CASE t = "LiquidityCampaign"
        <3>1. Fields[t] = Join(LiquidityCampaign_terms, LiquidityCampaign_period)
            BY <2>3 DEF Fields
        <3>2. Rows(LiquidityCampaign_terms, D, {}, U) /\ Rows(LiquidityCampaign_period, D, {}, U)
            BY <2>3, RowKinds DEF Rows, LiquidityCampaign_terms, LiquidityCampaign_period, Resolvers,
                                  LiquidityCampaignResolver
        <3> HIDE DEF D, U
        <3> QED BY <3>1, <3>2, JoinRows
    <2> QED BY <2>1, <2>2, <2>3
<1>2. \A f \in DOMAIN Resolvers[t] : "nil" \notin Resolvers[t][f]
    BY DEF Resolvers, SeawaterPositionResolver, SeawaterSwapResolver, LiquidityCampaignResolver,
           Sure, Fails, Panics
<1> QED BY <1>1, <1>2, FindsAlways

\* The pool, in the seven parts of its table.
LEMMA PoolAgrees == \A f \in FieldsOf("SeawaterPool") : NilAllowed("SeawaterPool", f)
<1> DEFINE D == DOMAIN Resolvers["SeawaterPool"]
           U == Exec["SeawaterPool"].uncounted
           R == Join(Join(Join(PoolStateResolver, PoolHistoryResolver), PoolYieldResolver),
                     PoolPositionsResolver)
<1>1. Resolvers["SeawaterPool"] = R
    BY DEF Resolvers
<1>2. Ends(R, {})
    <2>1. Ends(PoolStateResolver, {}) /\ Ends(PoolHistoryResolver, {})
        BY DEF Ends, PoolStateResolver, PoolHistoryResolver, Sure, Fails, Panics
    <2>2. Ends(PoolYieldResolver, {}) /\ Ends(PoolPositionsResolver, {})
        BY DEF Ends, PoolYieldResolver, PoolPositionsResolver, Sure, Fails, Panics
    <2> QED BY <2>1, <2>2, JoinEnds
<1>3. D = (DOMAIN PoolStateResolver) \cup (DOMAIN PoolHistoryResolver)
             \cup (DOMAIN PoolYieldResolver) \cup (DOMAIN PoolPositionsResolver)
    <2> DEFINE R2 == Join(PoolStateResolver, PoolHistoryResolver)
               R3 == Join(R2, PoolYieldResolver)
    <2>1. DOMAIN R2 = (DOMAIN PoolStateResolver) \cup (DOMAIN PoolHistoryResolver)
        BY JoinNames
    <2>2. DOMAIN R3 = (DOMAIN R2) \cup (DOMAIN PoolYieldResolver)
        <3> HIDE DEF R2
        <3> QED BY JoinNames
    <2>3. DOMAIN R = (DOMAIN R3) \cup (DOMAIN PoolPositionsResolver)
        <3> HIDE DEF R3
        <3>1. R = Join(R3, PoolPositionsResolver)
            BY DEF R3
        <3> HIDE DEF R
        <3> QED BY <3>1, JoinNames
    <2> QED BY <1>1, <2>1, <2>2, <2>3
<1> HIDE DEF D, R, U
<1>4. Rows(SeawaterPool_identity, D, {}, U) /\ Rows(SeawaterPool_price, D, {}, U)
    BY <1>3, RowKinds DEF Rows, SeawaterPool_identity, SeawaterPool_price, PoolStateResolver,
                          PoolHistoryResolver
<1>5. Rows(SeawaterPool_history, D, {}, U) /\ Rows(SeawaterPool_earnings, D, {}, U)
    BY <1>3, RowKinds DEF Rows, SeawaterPool_history, SeawaterPool_earnings, PoolHistoryResolver,
                          PoolYieldResolver
<1>6. Rows(SeawaterPool_positions, D, {}, U) /\ Rows(SeawaterPool_trading, D, {}, U)
      /\ Rows(SeawaterPool_totals, D, {}, U)
    BY <1>3, RowKinds DEF Rows, SeawaterPool_positions, SeawaterPool_trading,
                          SeawaterPool_totals, PoolPositionsResolver
<1>7. Fields["SeawaterPool"] =
        Join(Join(Join(Join(Join(Join(SeawaterPool_identity, SeawaterPool_price),
             SeawaterPool_history), SeawaterPool_earnings), SeawaterPool_positions),
             SeawaterPool_trading), SeawaterPool_totals)
    BY DEF Fields
<1>8. Rows(Fields["SeawaterPool"], D, {}, U)
    BY <1>4, <1>5, <1>6, <1>7, JoinRows
<1>9. \A f \in DOMAIN Resolvers["SeawaterPool"] : "nil" \notin Resolvers["SeawaterPool"][f]
    BY <1>1, <1>2 DEF Ends
<1> QED BY <1>8, <1>9, FindsAlways DEF D, U

\* The root of the queries, in the five parts of its table.
LEMMA QueryAgrees == \A f \in FieldsOf("Query") : NilAllowed("Query", f)
<1> DEFINE U == {"getPool", "getPosition", "getWallet", "__type", "__schema"}
           N == {"getPool", "getPosition"}
           R == Join(QueryResolver, SwapsQueryResolver)
           D == DOMAIN R
<1>1. Exec["Query"].uncounted = U
    BY DEF Exec, Query_exec, RootExecutor, Executor
<1>2. Resolvers["Query"] = R
    BY DEF Resolvers
<1>3. Fields["Query"] = Join(Join(Join(Join(Query_market, Query_pool), Query_positions),
                                  Query_wallet), Query_introspection)
    BY DEF Fields
<1>4. D = (DOMAIN QueryResolver) \cup DOMAIN SwapsQueryResolver
    BY JoinNames
<1> HIDE DEF R, D
<1>5. Rows(Query_market, D, N, U) /\ Rows(Query_pool, D, N, U)
    BY <1>4, RowKinds DEF Rows, Query_market, Query_pool, QueryResolver
<1>6. Rows(Query_positions, D, N, U) /\ Rows(Query_wallet, D, N, U)
    BY <1>4, RowKinds DEF Rows, Query_positions, Query_wallet, QueryResolver, SwapsQueryResolver
<1>7. Rows(Query_introspection, D, N, U)
    BY RowKinds DEF Rows, Query_introspection
<1>8. Ends(QueryResolver, N) /\ Ends(SwapsQueryResolver, N)
    BY DEF Ends, QueryResolver, SwapsQueryResolver, Sure, Fails, Finds, Panics
<1>9. N \subseteq U
    OBVIOUS
<1> HIDE DEF U, N
<1>10. Rows(Fields["Query"], D, N, U)
    BY <1>3, <1>5, <1>6, <1>7, JoinRows
<1>11. Ends(R, N)
    BY <1>8, JoinEnds DEF R
<1> QED BY <1>1, <1>2, <1>9, <1>10, <1>11, RowsAgree DEF D, Ends

\* Where a field may come out as nil, the field function and the executor let
\* the null through.
LEMMA NilIsAllowed == ASSUME NEW t \in Types, NEW f \in FieldsOf(t) PROVE NilAllowed(t, f)
<1>1. t \in {"GetSwaps", "GetSwapsForUser", "LiquidityOverTime", "PairAmount", "PriceOverTime",
             "Served", "TvlOverTime", "VolumeOverTime", "YieldOverTime"}
      \cup {"__Directive", "__EnumValue", "__Field", "__InputValue", "__Schema"}
      \cup {"Amount", "SeawaterConfig", "SeawaterLiquidity", "Token", "Wallet", "Mutation"}
      \cup {"SeawaterPositionsGlobal", "SeawaterPositionsUser", "SeawaterSwaps", "FaucetQuery"}
      \cup {"SeawaterPosition", "SeawaterSwap", "LiquidityCampaign"}
      \cup {"SeawaterPool", "Query", "__Type"}
    BY DEF Types, Fields
<1> QED BY <1>1, PropertiesAgree, IntrospectionAgrees, ResolversAgree, PagesAgree, PartsAgree,
           PoolAgrees, QueryAgrees, TypeAgrees

-----------------------------------------------------------------------------
(***************************************************************************)
(* The invariant.                                                          *)
(***************************************************************************)

\* The types; an object of a response has a type of the schema.
ShapeInv ==
    /\ op \in Queries
    /\ \A o \in DOMAIN obj : /\ o \in Path /\ obj[o] \in {"open", "valid", "null"}
                             /\ TypeOf(o) \in Types
    /\ \A of \in DOMAIN fld : /\ of = <<of[1], of[2]>>
                              /\ of[1] \in DOMAIN obj /\ of[2] \in Selected(of[1])
                              /\ fld[of].is \in {"wait", "value", "nil", "null"}
                              /\ fld[of].len \in Nat
    /\ DOMAIN invalids = (DOMAIN obj) \X {"out", "defer"}
    /\ \A s \in DOMAIN invalids : invalids[s] \in Nat
    /\ \A o \in DOMAIN group : /\ o \in DOMAIN obj /\ obj[o] = "valid"
                               /\ group[o] \in {"run", "send", "sent"}

\* The objects form a tree: every object but the root is an answer of a field,
\* which waits for it as long as it is open, and has an object for each element.
TreeInv ==
    /\ \A o \in DOMAIN obj \ {<<>>} :
        /\ Above(o) \in DOMAIN fld
        /\ obj[o] = "open" => fld[Above(o)].is = "wait"
        /\ fld[Above(o)].is = "wait" => o[Len(o)][2] \in 1..fld[Above(o)].len
    /\ \A of \in DOMAIN fld : \A i \in 1..fld[of].len : Append(of[1], <<of[2], i>>) \in DOMAIN obj

\* A field that waits holds up its object, or the deferred group it is in.
WaitInv ==
    \A of \in DOMAIN fld : fld[of].is = "wait" =>
        IF of[2] \in Deferred(of[1]) THEN of[1] \in DOMAIN group /\ group[of[1]] = "run"
        ELSE obj[of[1]] = "open"

\* The handler marshals the root's answer; before the first call there is nothing.
RootInv ==
    /\ handler \in {"first", "exec", "write", "idle", "receive", "end"}
    /\ handler = "first" => DOMAIN obj = {}
    /\ handler # "first" => <<>> \in DOMAIN obj
    /\ handler \notin {"first", "exec"} => obj[<<>>] # "open"

\* The counter counts the groups that were not received.
Unsent == {o \in DOMAIN group : group[o] # "sent"}
CountInv == IsFiniteSet(Unsent) /\ pending = Cardinality(Unsent)

\* A mutation has one object and no group.
MutationInv == op.root = "Mutation" => DOMAIN obj \subseteq {<<>>} /\ DOMAIN group = {}

\* A response that announces no other left no group out.
LastInv == handler = "end" \/ (handler = "idle" /\ ~hasNext) => pending = 0

\* Finished objects and groups have all their fields, and an object or a group
\* whose counter is 0 has no null in a field that is counted.
FieldInv ==
    /\ \A o \in DOMAIN obj : obj[o] = "valid" =>
        /\ \A f \in Selected(o) \ Deferred(o) : Settled(o, f)
        /\ invalids[<<o, "out">>] = 0
    /\ \A o \in DOMAIN group : group[o] # "run" => \A f \in Deferred(o) : Settled(o, f)
    /\ \A of \in DOMAIN fld :
        fld[of].is \in {"nil", "null"} /\ of[2] \notin Exec[TypeOf(of[1])].uncounted
            => invalids[FieldSet(of[1], of[2])] # 0

\* The inductive invariant of the execution.
ExecInv ==
    /\ ShapeInv /\ TreeInv /\ WaitInv /\ RootInv /\ CountInv /\ MutationInv /\ LastInv /\ FieldInv

\* What is collected for an object depends on the operation alone.
LEMMA SameOperation ==
    ASSUME op' = op, NEW o
    PROVE  /\ TypeOf(o)' = TypeOf(o) /\ Selected(o)' = Selected(o) /\ Deferred(o)' = Deferred(o)
           /\ \A f : FieldSet(o, f)' = FieldSet(o, f)
BY DEF TypeOf, Selected, Deferred, FieldSet

\* What is not deferred is run in place or dispatched.
LEMMA NotDeferred ==
    ASSUME NEW o
    PROVE  /\ InPlace(o) \cup Dispatched(o) = Selected(o) \ Deferred(o)
           /\ InPlace(o) \cap Deferred(o) = {} /\ Deferred(o) \subseteq Selected(o)
BY DEF InPlace, Dispatched, Deferred

\* An operation is under way as long as an object is open: it, or an object
\* above it, is the root or in a group that runs.
LEMMA OpenHasCause ==
    ASSUME ExecInv, Unsent = {}, <<>> \in DOMAIN obj => obj[<<>>] # "open"
    PROVE  \A o \in DOMAIN obj : obj[o] # "open"
<1> DEFINE Lens == {Len(o) : o \in {c \in DOMAIN obj : obj[c] = "open"}}
<1> SUFFICES ASSUME NEW x \in DOMAIN obj, obj[x] = "open" PROVE FALSE
    OBVIOUS
<1>0. \A o \in DOMAIN obj : Len(o) \in Nat
    BY LenProperties DEF ExecInv, ShapeInv, Path
<1>1. Lens \subseteq Nat /\ Lens # {}
    BY <1>0
<1>2. PICK m \in Lens : \A k \in Lens : m <= k
    <2> HIDE DEF Lens
    <2> QED BY <1>1, LeastOf
<1>3. PICK o \in DOMAIN obj : obj[o] = "open" /\ Len(o) = m
    BY <1>2
<1>4. o # <<>> /\ o \in Path
    BY <1>3 DEF ExecInv, ShapeInv
<1> DEFINE of == Above(o)
<1>5. of \in DOMAIN fld /\ fld[of].is = "wait"
    BY <1>3, <1>4 DEF ExecInv, TreeInv
<1>6. obj[of[1]] = "open" /\ of[1] \in DOMAIN obj
    BY <1>5 DEF ExecInv, WaitInv, ShapeInv, Unsent
<1>7. Len(of[1]) \in Lens
    BY <1>6
<1>8. Len(of[1]) = Len(o) - 1 /\ Len(o) \in Nat
    BY <1>4, BelowAbove
<1> HIDE DEF Lens, of
<1> QED BY <1>2, <1>3, <1>7, <1>8

-----------------------------------------------------------------------------
(***************************************************************************)
(* Each step keeps the invariant.                                          *)
(***************************************************************************)

\* A field function runs for an object that is open or a group that runs.
Turn(o, f) ==
    IF f \in Deferred(o) THEN o \in DOMAIN group /\ group[o] = "run" ELSE obj[o] = "open"

\* A field function is entered in its turn, once.
LEMMA MayRunTurn == ASSUME NEW o, NEW f, MayRun(o, f) PROVE Turn(o, f) /\ <<o, f>> \notin DOMAIN fld
BY NotDeferred DEF MayRun, Turn, Started, Dispatched

\* The executor is given the answer of a field, below which no object is open.
LEMMA SettleKeeps ==
    ASSUME ExecInv, NEW o \in DOMAIN obj, NEW f \in Selected(o), Turn(o, f),
           \A c \in DOMAIN obj \ {<<>>} : Above(c) = <<o, f>> => obj[c] # "open",
           NEW is \in {"value", "nil", "null"}, Settle(o, f, is),
           UNCHANGED <<op, group, pending, handler, hasNext>>
    PROVE  ExecInv'
<1> DEFINE counted == is \in {"nil", "null"} /\ f \notin Exec[TypeOf(o)].uncounted
           fs == FieldSet(o, f)
<1>1. op' = op /\ group' = group /\ pending' = pending /\ handler' = handler /\ hasNext' = hasNext
      /\ obj' = obj
    BY DEF Settle
<1>2. \A p : /\ TypeOf(p)' = TypeOf(p) /\ Selected(p)' = Selected(p) /\ Deferred(p)' = Deferred(p)
             /\ \A g : FieldSet(p, g)' = FieldSet(p, g)
    BY <1>1, SameOperation
<1>3. /\ DOMAIN fld' = DOMAIN fld \cup {<<o, f>>}
      /\ fld'[<<o, f>>].is = is /\ fld'[<<o, f>>].len = 0
      /\ \A of \in DOMAIN fld \ {<<o, f>>} : fld'[of] = fld[of]
    BY DEF Settle, Put
<1>4. fs \in DOMAIN invalids /\ DOMAIN invalids = (DOMAIN obj) \X {"out", "defer"}
      /\ \A s \in DOMAIN invalids : invalids[s] \in Nat
    BY DEF ExecInv, ShapeInv, FieldSet
<1>5. /\ DOMAIN invalids' = DOMAIN invalids
      /\ \A s \in DOMAIN invalids : invalids'[s] \in Nat /\ (s # fs => invalids'[s] = invalids[s])
      /\ \A s \in DOMAIN invalids : invalids[s] # 0 => invalids'[s] # 0
      /\ counted => invalids'[fs] # 0
    <2> HIDE DEF fs
    <2> QED BY <1>4 DEF Settle, fs
<1>6. \A p, g : Settled(p, g) => Settled(p, g)'
    BY <1>3 DEF Settled
<1> HIDE DEF fs
<1>7. ShapeInv'
    <2>1. \A of \in DOMAIN fld' : /\ of = <<of[1], of[2]>>
                                  /\ of[1] \in DOMAIN obj /\ of[2] \in Selected(of[1])
                                  /\ fld'[of].is \in {"wait", "value", "nil", "null"}
                                  /\ fld'[of].len \in Nat
        BY <1>3 DEF ExecInv, ShapeInv
    <2> QED BY <1>1, <1>2, <1>4, <1>5, <2>1 DEF ExecInv, ShapeInv
<1>8. TreeInv'
    BY <1>1, <1>3 DEF ExecInv, TreeInv
<1>9. WaitInv'
    BY <1>1, <1>2, <1>3 DEF ExecInv, WaitInv
<1>10. RootInv' /\ CountInv' /\ MutationInv' /\ LastInv'
    BY <1>1 DEF ExecInv, RootInv, CountInv, Unsent, MutationInv, LastInv
<1>11. FieldInv'
    <2>1. ASSUME NEW p \in DOMAIN obj, obj[p] = "valid"
          PROVE  /\ \A g \in Selected(p) \ Deferred(p) : Settled(p, g)'
                 /\ invalids'[<<p, "out">>] = 0
        <3>1. <<p, "out">> # fs
            BY <2>1 DEF fs, FieldSet, Turn
        <3>2. <<p, "out">> \in DOMAIN invalids
            BY <1>4
        <3> QED BY <1>5, <1>6, <2>1, <3>1, <3>2 DEF ExecInv, FieldInv
    <2>2. \A p \in DOMAIN group : group[p] # "run" => \A g \in Deferred(p) : Settled(p, g)'
        BY <1>6 DEF ExecInv, FieldInv
    <2>3. ASSUME NEW of \in DOMAIN fld', fld'[of].is \in {"nil", "null"},
                 of[2] \notin Exec[TypeOf(of[1])].uncounted
          PROVE  invalids'[FieldSet(of[1], of[2])] # 0
        <3>1. CASE of = <<o, f>>
            BY <1>3, <1>5, <2>3, <3>1 DEF fs
        <3>2. CASE of # <<o, f>>
            <4>1. of \in DOMAIN fld /\ of[1] \in DOMAIN obj /\ fld'[of] = fld[of]
                BY <1>3, <3>2 DEF ExecInv, ShapeInv
            <4>2. FieldSet(of[1], of[2]) \in DOMAIN invalids
                BY <1>4, <4>1 DEF FieldSet
            <4>3. invalids[FieldSet(of[1], of[2])] # 0
                BY <2>3, <4>1 DEF ExecInv, FieldInv
            <4> QED BY <1>5, <4>2, <4>3
        <3> QED BY <3>1, <3>2
    <2> QED BY <1>1, <1>2, <2>1, <2>2, <2>3 DEF FieldInv
<1> QED BY <1>7, <1>8, <1>9, <1>10, <1>11 DEF ExecInv

\* A mutation has no field with objects below it.
LEMMA MutationHasLeaves ==
    ASSUME ExecInv, NEW o \in DOMAIN obj, NEW f \in Selected(o),
           IsObject(Fields[TypeOf(o)][f].type)
    PROVE  op.root # "Mutation"
<1> SUFFICES ASSUME op.root = "Mutation" PROVE FALSE
    OBVIOUS
<1>1. o = <<>>
    BY DEF ExecInv, MutationInv
<1>2. TypeOf(o) = "Mutation"
    BY <1>1, TypeOfRoot DEF TypeOf
<1>3. f = "requestTokens"
    BY <1>2, MutationLeaf DEF Selected
<1> QED BY <1>2, <1>3, MutationLeaf

\* The objects below a field are handed to their executors.
LEMMA ChildrenKeep ==
    ASSUME ExecInv, NEW o \in DOMAIN obj, NEW f \in Selected(o), Turn(o, f),
           <<o, f>> \notin DOMAIN fld, NEW n \in Nat,
           IsObject(Fields[TypeOf(o)][f].type),
           fld' = Put(fld, {<<o, f>>}, [is |-> "wait", len |-> n]),
           OpenObjects({Append(o, <<f, i>>) : i \in 1..n}),
           UNCHANGED <<op, group, pending, handler, hasNext>>
    PROVE  ExecInv'
<1> DEFINE S == {Append(o, <<f, i>>) : i \in 1..n}
<1>1. op' = op /\ group' = group /\ pending' = pending /\ handler' = handler /\ hasNext' = hasNext
    OBVIOUS
<1>2. \A p : /\ TypeOf(p)' = TypeOf(p) /\ Selected(p)' = Selected(p) /\ Deferred(p)' = Deferred(p)
             /\ \A g : FieldSet(p, g)' = FieldSet(p, g)
    BY <1>1, SameOperation
<1>3. o \in Path /\ f \in STRING
    BY SelectedNames DEF ExecInv, ShapeInv
<1>4. \A i \in 1..n : LET c == Append(o, <<f, i>>) IN
        c \in Path /\ c # <<>> /\ Above(c) = <<o, f>> /\ c[Len(c)] = <<f, i>>
    BY <1>3, AboveAppend
<1>5. \A c \in S : /\ c \in Path /\ c # <<>> /\ Above(c) = <<o, f>> /\ c[Len(c)][2] \in 1..n
                   /\ c \notin DOMAIN obj
    <2> SUFFICES ASSUME NEW i \in 1..n
                 PROVE  LET c == Append(o, <<f, i>>) IN
                        /\ c \in Path /\ c # <<>> /\ Above(c) = <<o, f>> /\ c[Len(c)][2] \in 1..n
                        /\ c \notin DOMAIN obj
        OBVIOUS
    <2> DEFINE c == Append(o, <<f, i>>)
    <2>1. c \in Path /\ c # <<>> /\ Above(c) = <<o, f>> /\ c[Len(c)] = <<f, i>>
        BY <1>4
    <2> HIDE DEF c
    <2>2. c \notin DOMAIN obj
        BY <2>1 DEF ExecInv, TreeInv
    <2>3. c[Len(c)][2] \in 1..n
        BY <2>1
    <2> QED BY <2>1, <2>2, <2>3 DEF c
<1>6. \A c \in S : TypeOf(c) \in Types
    <2> SUFFICES ASSUME NEW i \in 1..n PROVE TypeOf(Append(o, <<f, i>>)) \in Types
        OBVIOUS
    <2>1. i \in Nat
        OBVIOUS
    <2> QED BY <1>3, <2>1, TypeBelow DEF TypeOf, IsObject
<1>7. \A i \in 1..n : Append(o, <<f, i>>) \in S
    OBVIOUS
<1>8. /\ DOMAIN obj' = DOMAIN obj \cup S
      /\ \A c \in S : obj'[c] = "open"
      /\ \A c \in DOMAIN obj \ S : obj'[c] = obj[c]
      /\ DOMAIN invalids' = DOMAIN invalids \cup (S \X {"out", "defer"})
      /\ \A s \in S \X {"out", "defer"} : invalids'[s] = 0
      /\ \A s \in DOMAIN invalids \ (S \X {"out", "defer"}) : invalids'[s] = invalids[s]
    <2> HIDE DEF S
    <2>1. OpenObjects(S)
        BY DEF S
    <2> QED BY <2>1 DEF OpenObjects, Put
<1> HIDE DEF S
<1>9. \A c \in DOMAIN obj : c \notin S /\ obj'[c] = obj[c]
    BY <1>5, <1>8
<1>10. DOMAIN invalids = (DOMAIN obj) \X {"out", "defer"}
    BY DEF ExecInv, ShapeInv
<1>11. \A c \in DOMAIN obj : \A w \in {"out", "defer"} : invalids'[<<c, w>>] = invalids[<<c, w>>]
    BY <1>8, <1>9, <1>10
<1>12. /\ DOMAIN fld' = DOMAIN fld \cup {<<o, f>>}
       /\ fld'[<<o, f>>].is = "wait" /\ fld'[<<o, f>>].len = n
       /\ \A of \in DOMAIN fld : fld'[of] = fld[of]
    BY DEF Put
<1>13. \A p, g : Settled(p, g) => Settled(p, g)'
    BY <1>12 DEF Settled
<1>14. ShapeInv'
    <2>1. op' \in Queries
        BY <1>1 DEF ExecInv, ShapeInv
    <2>2. \A c \in DOMAIN obj' : c \in Path /\ obj'[c] \in {"open", "valid", "null"} /\ TypeOf(c) \in Types
        BY <1>5, <1>6, <1>8, <1>9 DEF ExecInv, ShapeInv
    <2>3. \A of \in DOMAIN fld' : /\ of = <<of[1], of[2]>>
                                  /\ of[1] \in DOMAIN obj' /\ of[2] \in Selected(of[1])
                                  /\ fld'[of].is \in {"wait", "value", "nil", "null"}
                                  /\ fld'[of].len \in Nat
        <3> TAKE of \in DOMAIN fld'
        <3>1. CASE of = <<o, f>>
            BY <1>8, <1>12, <3>1
        <3>2. CASE of \in DOMAIN fld
            <4>1. fld'[of] = fld[of]
                BY <1>12, <3>2
            <4> QED BY <1>8, <3>2, <4>1 DEF ExecInv, ShapeInv
        <3> QED BY <1>12, <3>1, <3>2
    <2>4. DOMAIN invalids' = (DOMAIN obj') \X {"out", "defer"}
        BY <1>8, <1>10
    <2>5. \A s \in DOMAIN invalids' : invalids'[s] \in Nat
        <3>1. \A s \in DOMAIN invalids : invalids[s] \in Nat
            BY DEF ExecInv, ShapeInv
        <3>2. \A s \in DOMAIN invalids' : s \in S \X {"out", "defer"}
                                          \/ s \in DOMAIN invalids \ (S \X {"out", "defer"})
            BY <1>8
        <3> QED BY <1>8, <3>1, <3>2
    <2>6. \A p \in DOMAIN group' : p \in DOMAIN obj' /\ obj'[p] = "valid" /\ group'[p] \in {"run", "send", "sent"}
        BY <1>1, <1>8, <1>9 DEF ExecInv, ShapeInv
    <2> QED BY <1>2, <2>1, <2>2, <2>3, <2>4, <2>5, <2>6 DEF ShapeInv
<1>15. TreeInv'
    <2>1. ASSUME NEW c \in DOMAIN obj' \ {<<>>}
          PROVE  /\ Above(c) \in DOMAIN fld'
                 /\ obj'[c] = "open" => fld'[Above(c)].is = "wait"
                 /\ fld'[Above(c)].is = "wait" => c[Len(c)][2] \in 1..fld'[Above(c)].len
        <3>1. CASE c \in S
            BY <1>5, <1>12, <3>1
        <3>2. CASE c \in DOMAIN obj
            BY <1>9, <1>12, <3>2, <2>1 DEF ExecInv, TreeInv
        <3> QED BY <1>8, <3>1, <3>2
    <2>2. ASSUME NEW of \in DOMAIN fld', NEW i \in 1..fld'[of].len
          PROVE  Append(of[1], <<of[2], i>>) \in DOMAIN obj'
        <3>1. CASE of = <<o, f>>
            BY <1>7, <1>8, <1>12, <3>1
        <3>2. CASE of # <<o, f>>
            BY <1>8, <1>12, <3>2 DEF ExecInv, TreeInv
        <3> QED BY <3>1, <3>2
    <2> QED BY <2>1, <2>2 DEF TreeInv
<1>16. WaitInv'
    <2>1. ASSUME NEW of \in DOMAIN fld', fld'[of].is = "wait"
          PROVE  IF of[2] \in Deferred(of[1]) THEN of[1] \in DOMAIN group /\ group[of[1]] = "run"
                 ELSE obj'[of[1]] = "open"
        <3>1. CASE of = <<o, f>>
            BY <1>9, <3>1 DEF Turn
        <3>2. CASE of \in DOMAIN fld
            <4>1. fld[of].is = "wait" /\ of[1] \in DOMAIN obj
                BY <1>12, <2>1, <3>2 DEF ExecInv, ShapeInv
            <4>2. obj'[of[1]] = obj[of[1]]
                BY <1>9, <4>1
            <4> QED BY <3>2, <4>1, <4>2 DEF ExecInv, WaitInv
        <3> QED BY <1>12, <3>1, <3>2
    <2> QED BY <1>1, <1>2, <2>1 DEF WaitInv
<1>17. RootInv'
    BY <1>1, <1>8, <1>9 DEF ExecInv, RootInv
<1>18. CountInv' /\ LastInv'
    BY <1>1 DEF ExecInv, CountInv, Unsent, LastInv
<1>19. MutationInv'
    BY <1>1, MutationHasLeaves DEF MutationInv
<1>20. FieldInv'
    <2>1. ASSUME NEW p \in DOMAIN obj', obj'[p] = "valid"
          PROVE  /\ \A g \in Selected(p) \ Deferred(p) : Settled(p, g)'
                 /\ invalids'[<<p, "out">>] = 0
        <3>1. p \in DOMAIN obj /\ obj[p] = "valid"
            BY <1>8, <1>9, <2>1
        <3> QED BY <1>11, <1>13, <3>1 DEF ExecInv, FieldInv
    <2>2. \A p \in DOMAIN group : group[p] # "run" => \A g \in Deferred(p) : Settled(p, g)'
        BY <1>13 DEF ExecInv, FieldInv
    <2>3. ASSUME NEW of \in DOMAIN fld', fld'[of].is \in {"nil", "null"},
                 of[2] \notin Exec[TypeOf(of[1])].uncounted
          PROVE  invalids'[FieldSet(of[1], of[2])] # 0
        <3>1. of \in DOMAIN fld /\ of[1] \in DOMAIN obj /\ fld'[of] = fld[of]
            BY <1>12, <2>3 DEF ExecInv, ShapeInv
        <3>2. invalids[FieldSet(of[1], of[2])] # 0
            BY <2>3, <3>1 DEF ExecInv, FieldInv
        <3> QED BY <1>11, <3>1, <3>2 DEF FieldSet
    <2> QED BY <1>1, <1>2, <2>1, <2>2, <2>3 DEF FieldInv
<1> QED BY <1>14, <1>15, <1>16, <1>17, <1>18, <1>19, <1>20 DEF ExecInv

\* A field function is entered and ends, or hands on the objects it found.
LEMMA FieldStepKeeps == ASSUME ExecInv, FieldStep PROVE ExecInv'
<1>1. PICK o \in DOMAIN obj : \E f \in Selected(o) :
        \/ FieldError(o, f)
        \/ FieldNil(o, f)
        \/ \E n \in FieldLengths(o, f) : FieldValue(o, f, n)
    BY DEF FieldStep, FieldFunction
<1>2. PICK f \in Selected(o) :
        \/ FieldError(o, f)
        \/ FieldNil(o, f)
        \/ \E n \in FieldLengths(o, f) : FieldValue(o, f, n)
    BY <1>1
<1>3. MayRun(o, f) /\ UNCHANGED <<op, group, pending, handler, hasNext>>
    BY <1>2 DEF FieldError, FieldNil, FieldValue
<1>4. Turn(o, f) /\ <<o, f>> \notin DOMAIN fld
    BY <1>3, MayRunTurn
<1>5. \A c \in DOMAIN obj \ {<<>>} : Above(c) = <<o, f>> => obj[c] # "open"
    BY <1>4 DEF ExecInv, TreeInv
<1>6. ASSUME NEW is \in {"value", "nil", "null"}, Settle(o, f, is) PROVE ExecInv'
    BY <1>3, <1>4, <1>5, <1>6, SettleKeeps
<1>7. CASE FieldError(o, f)
    BY <1>6, <1>7 DEF FieldError
<1>8. CASE FieldNil(o, f)
    BY <1>6, <1>8 DEF FieldNil
<1>9. ASSUME NEW n \in FieldLengths(o, f), FieldValue(o, f, n) PROVE ExecInv'
    <2>1. n \in Nat
        BY GraphAssumption DEF FieldLengths
    <2>2. CASE IsObject(Fields[TypeOf(o)][f].type) /\ n > 0
        BY <1>3, <1>4, <1>9, <2>1, <2>2, ChildrenKeep DEF FieldValue
    <2>3. CASE ~(IsObject(Fields[TypeOf(o)][f].type) /\ n > 0)
        BY <1>6, <1>9, <2>3 DEF FieldValue
    <2> QED BY <2>2, <2>3
<1> QED BY <1>2, <1>7, <1>8, <1>9

\* The objects of a field that waits are the ones below it.
LEMMA ChildrenBelow ==
    ASSUME ExecInv, NEW of \in DOMAIN fld, fld[of].is = "wait",
           NEW c \in DOMAIN obj \ {<<>>}, Above(c) = of
    PROVE  c \in Children(of[1], of[2])
<1>1. c \in Path /\ of = <<of[1], of[2]>>
    BY DEF ExecInv, ShapeInv
<1>2. c = Append(of[1], <<of[2], c[Len(c)][2]>>)
    BY <1>1, BelowAbove
<1>3. c[Len(c)][2] \in 1..fld[of].len
    BY DEF ExecInv, TreeInv
<1> QED BY <1>1, <1>2, <1>3 DEF Children

\* A field function that waited returns.
LEMMA FieldReturnKeeps ==
    ASSUME ExecInv, NEW of \in DOMAIN fld, FieldReturn(of[1], of[2])
    PROVE  ExecInv'
<1> DEFINE o == of[1]
           f == of[2]
           is == IF \E c \in Children(o, f) : obj[c] = "null" THEN "null" ELSE "value"
<1>1. of = <<o, f>> /\ o \in DOMAIN obj /\ f \in Selected(o)
    BY DEF ExecInv, ShapeInv
<1>2. /\ fld[of].is = "wait" /\ \A c \in Children(o, f) : obj[c] # "open"
      /\ Settle(o, f, is) /\ UNCHANGED <<op, group, pending, handler, hasNext>>
    BY <1>1 DEF FieldReturn
<1>3. Turn(o, f)
    BY <1>2 DEF ExecInv, WaitInv, Turn
<1>4. \A c \in DOMAIN obj \ {<<>>} : Above(c) = <<o, f>> => obj[c] # "open"
    BY <1>1, <1>2, ChildrenBelow
<1>5. is \in {"value", "nil", "null"}
    OBVIOUS
<1> HIDE DEF is, o, f
<1> QED BY <1>1, <1>2, <1>3, <1>4, <1>5, SettleKeeps

\* The counter is 0 when no group is unsent.
LEMMA NoneUnsent == ASSUME CountInv PROVE pending \in Nat /\ (pending = 0 <=> Unsent = {})
BY FS_CardinalityType, FS_EmptySet DEF CountInv

\* While an object is open the handler has something to wait for.
LEMMA OpenIsNotLast ==
    ASSUME ExecInv, NEW o \in DOMAIN obj, obj[o] = "open"
    PROVE  ~(handler = "end" \/ (handler = "idle" /\ ~hasNext))
<1> SUFFICES ASSUME handler = "end" \/ (handler = "idle" /\ ~hasNext) PROVE FALSE
    OBVIOUS
<1>1. Unsent = {}
    BY NoneUnsent DEF ExecInv, LastInv
<1>2. obj[<<>>] # "open"
    BY DEF ExecInv, RootInv
<1> QED BY <1>1, <1>2, OpenHasCause

\* A mutation has no deferred fields.
LEMMA MutationDefersNothing ==
    ASSUME ExecInv, op.root = "Mutation", NEW o \in DOMAIN obj
    PROVE  Deferred(o) = {}
<1>1. o = <<>>
    BY DEF ExecInv, MutationInv
<1>2. TypeOf(o) = "Mutation"
    BY <1>1, TypeOfRoot DEF TypeOf
<1> QED BY <1>2, MutationLeaf DEF Deferred

\* An executor returns, and starts the deferred group of its object.
LEMMA ObjectReturnKeeps ==
    ASSUME ExecInv, NEW o \in DOMAIN obj, ObjectReturn(o)
    PROVE  ExecInv'
<1>1. /\ obj[o] = "open"
      /\ \A f \in Selected(o) \ Deferred(o) : Settled(o, f)
      /\ op' = op /\ fld' = fld /\ invalids' = invalids /\ handler' = handler /\ hasNext' = hasNext
    BY NotDeferred DEF ObjectReturn
<1>2. PICK v \in {"null", "valid"} : /\ obj' = [obj EXCEPT ![o] = v]
                                     /\ v = "valid" => ~(invalids[<<o, "out">>] > 0)
                                     /\ \/ group' = group /\ pending' = pending
                                        \/ /\ v = "valid" /\ Deferred(o) # {}
                                           /\ group' = Put(group, {o}, "run")
                                           /\ pending' = pending + 1
    BY DEF ObjectReturn
<1>3. \A p : /\ TypeOf(p)' = TypeOf(p) /\ Selected(p)' = Selected(p) /\ Deferred(p)' = Deferred(p)
             /\ \A g : FieldSet(p, g)' = FieldSet(p, g) /\ Settled(p, g)' = Settled(p, g)
    BY <1>1, SameOperation DEF Settled
<1>4. /\ DOMAIN obj' = DOMAIN obj /\ obj'[o] = v
      /\ \A p \in DOMAIN obj : p # o => obj'[p] = obj[p]
    BY <1>2
<1>5. o \notin DOMAIN group
    BY <1>1 DEF ExecInv, ShapeInv
<1>6. /\ DOMAIN group \subseteq DOMAIN group' /\ DOMAIN group' \subseteq DOMAIN group \cup {o}
      /\ \A p \in DOMAIN group : group'[p] = group[p]
      /\ o \in DOMAIN group' => group'[o] = "run" /\ v = "valid" /\ Deferred(o) # {}
    BY <1>2, <1>5 DEF Put
<1>7. v = "valid" => invalids[<<o, "out">>] = 0
    <2>1. invalids[<<o, "out">>] \in Nat
        BY DEF ExecInv, ShapeInv
    <2> QED BY <1>2, <2>1
<1>8. ShapeInv'
    <2>1. \A p \in DOMAIN group' : p \in DOMAIN obj' /\ obj'[p] = "valid" /\ group'[p] \in {"run", "send", "sent"}
        BY <1>4, <1>5, <1>6 DEF ExecInv, ShapeInv
    <2>2. \A p \in DOMAIN obj' : obj'[p] \in {"open", "valid", "null"}
        BY <1>4 DEF ExecInv, ShapeInv
    <2> QED BY <1>1, <1>3, <1>4, <2>1, <2>2 DEF ExecInv, ShapeInv
<1>9. TreeInv'
    BY <1>1, <1>4 DEF ExecInv, TreeInv
<1>10. WaitInv'
    <2>1. ASSUME NEW of \in DOMAIN fld, fld[of].is = "wait"
          PROVE  IF of[2] \in Deferred(of[1]) THEN of[1] \in DOMAIN group' /\ group'[of[1]] = "run"
                 ELSE obj'[of[1]] = "open"
        <3>1. of = <<of[1], of[2]>> /\ of[1] \in DOMAIN obj /\ of[2] \in Selected(of[1])
            BY DEF ExecInv, ShapeInv
        <3>2. IF of[2] \in Deferred(of[1]) THEN of[1] \in DOMAIN group /\ group[of[1]] = "run"
              ELSE obj[of[1]] = "open"
            BY <2>1 DEF ExecInv, WaitInv
        <3>3. of[2] \notin Deferred(of[1]) => of[1] # o
            <4> SUFFICES ASSUME of[1] = o, of[2] \notin Deferred(o) PROVE FALSE
                OBVIOUS
            <4>1. Settled(o, of[2])
                BY <1>1, <3>1
            <4> QED BY <2>1, <3>1, <4>1 DEF Settled
        <3> QED BY <1>4, <1>6, <3>1, <3>2, <3>3
    <2> QED BY <1>1, <1>3, <2>1 DEF WaitInv
<1>11. RootInv'
    BY <1>1, <1>4 DEF ExecInv, RootInv
<1>12. CountInv'
    <2>1. CASE group' = group /\ pending' = pending
        BY <2>1 DEF ExecInv, CountInv, Unsent
    <2>2. CASE group' = Put(group, {o}, "run") /\ pending' = pending + 1
        <3>1. Unsent' = Unsent \cup {o} /\ o \notin Unsent
            BY <1>5, <2>2 DEF Unsent, Put
        <3>2. IsFiniteSet(Unsent) /\ pending = Cardinality(Unsent)
            BY DEF ExecInv, CountInv
        <3> HIDE DEF Unsent
        <3>3. IsFiniteSet(Unsent') /\ Cardinality(Unsent') = Cardinality(Unsent) + 1
            BY <3>1, <3>2, FS_AddElement
        <3> QED BY <2>2, <3>2, <3>3 DEF CountInv
    <2> QED BY <1>2, <2>1, <2>2
<1>13. MutationInv'
    <2>1. op.root = "Mutation" => Deferred(o) = {}
        BY MutationDefersNothing
    <2> QED BY <1>1, <1>4, <1>6, <2>1 DEF ExecInv, MutationInv
<1>14. LastInv'
    BY <1>1, OpenIsNotLast DEF LastInv
<1>15. FieldInv'
    <2>1. ASSUME NEW p \in DOMAIN obj, obj'[p] = "valid"
          PROVE  /\ \A g \in Selected(p) \ Deferred(p) : Settled(p, g)
                 /\ invalids[<<p, "out">>] = 0
        <3>1. CASE p = o
            BY <1>1, <1>4, <1>7, <2>1, <3>1
        <3>2. CASE p # o
            BY <1>4, <2>1, <3>2 DEF ExecInv, FieldInv
        <3> QED BY <3>1, <3>2
    <2>2. \A p \in DOMAIN group' : group'[p] # "run" => \A g \in Deferred(p) : Settled(p, g)
        BY <1>6 DEF ExecInv, FieldInv
    <2>3. \A of \in DOMAIN fld :
            fld[of].is \in {"nil", "null"} /\ of[2] \notin Exec[TypeOf(of[1])].uncounted
                => invalids[FieldSet(of[1], of[2])] # 0
        BY DEF ExecInv, FieldInv
    <2> QED BY <1>1, <1>3, <1>4, <2>1, <2>2, <2>3 DEF FieldInv
<1> QED BY <1>8, <1>9, <1>10, <1>11, <1>12, <1>13, <1>14, <1>15 DEF ExecInv

\* A group that changes its state leaves objects and fields alone.
LEMMA GroupMoves ==
    ASSUME ExecInv, NEW o \in DOMAIN group, NEW v \in {"send", "sent"},
           group' = [group EXCEPT ![o] = v], \A f \in Deferred(o) : Settled(o, f),
           UNCHANGED <<op, obj, fld, invalids>>
    PROVE  ShapeInv' /\ TreeInv' /\ WaitInv' /\ MutationInv' /\ FieldInv'
<1>1. op' = op /\ obj' = obj /\ fld' = fld /\ invalids' = invalids
    OBVIOUS
<1>2. \A p : /\ TypeOf(p)' = TypeOf(p) /\ Selected(p)' = Selected(p) /\ Deferred(p)' = Deferred(p)
             /\ \A g : FieldSet(p, g)' = FieldSet(p, g) /\ Settled(p, g)' = Settled(p, g)
    BY <1>1, SameOperation DEF Settled
<1>3. /\ DOMAIN group' = DOMAIN group /\ group'[o] = v
      /\ \A p \in DOMAIN group : p # o => group'[p] = group[p]
    OBVIOUS
<1>4. ShapeInv'
    <2>1. \A p \in DOMAIN group' : /\ p \in DOMAIN obj /\ obj[p] = "valid"
                                   /\ group'[p] \in {"run", "send", "sent"}
        BY <1>3 DEF ExecInv, ShapeInv
    <2> QED BY <1>1, <1>2, <2>1 DEF ExecInv, ShapeInv
<1>5. TreeInv'
    BY <1>1 DEF ExecInv, TreeInv
<1>6. WaitInv'
    <2>1. ASSUME NEW of \in DOMAIN fld, fld[of].is = "wait", of[2] \in Deferred(of[1])
          PROVE  of[1] \in DOMAIN group' /\ group'[of[1]] = "run"
        <3>1. of = <<of[1], of[2]>> /\ of[1] \in DOMAIN group /\ group[of[1]] = "run"
            BY <2>1 DEF ExecInv, WaitInv, ShapeInv
        <3>2. of[1] # o
            <4> SUFFICES ASSUME of[1] = o PROVE FALSE
                OBVIOUS
            <4>1. Settled(o, of[2])
                BY <2>1
            <4> QED BY <2>1, <3>1, <4>1 DEF Settled
        <3> QED BY <1>3, <3>1, <3>2
    <2>2. \A of \in DOMAIN fld : fld[of].is = "wait" /\ of[2] \notin Deferred(of[1]) => obj[of[1]] = "open"
        BY DEF ExecInv, WaitInv
    <2> QED BY <1>1, <1>2, <2>1, <2>2 DEF WaitInv
<1>7. MutationInv'
    BY <1>1, <1>3 DEF ExecInv, MutationInv
<1>8. FieldInv'
    <2>1. \A p \in DOMAIN group' : group'[p] # "run" => \A g \in Deferred(p) : Settled(p, g)
        BY <1>3 DEF ExecInv, FieldInv
    <2> QED BY <1>1, <1>2, <2>1 DEF ExecInv, FieldInv
<1> QED BY <1>4, <1>5, <1>6, <1>7, <1>8

\* The goroutine of a group is done.
LEMMA GroupReturnKeeps == ASSUME ExecInv, NEW o \in DOMAIN group, GroupReturn(o) PROVE ExecInv'
<1>1. ShapeInv' /\ TreeInv' /\ WaitInv' /\ MutationInv' /\ FieldInv'
    BY GroupMoves DEF GroupReturn
<1>2. RootInv' /\ LastInv'
    BY DEF GroupReturn, ExecInv, RootInv, LastInv
<1>3. CountInv'
    <2>1. Unsent' = Unsent
        BY DEF GroupReturn, Unsent
    <2>2. pending' = pending
        BY DEF GroupReturn
    <2> HIDE DEF Unsent
    <2> QED BY <2>1, <2>2 DEF ExecInv, CountInv
<1> QED BY <1>1, <1>2, <1>3 DEF ExecInv

\* The handler receives a group.
LEMMA ReceiveKeeps == ASSUME ExecInv, NEW o \in DOMAIN group, HandlerReceive(o) PROVE ExecInv'
<1>1. ShapeInv' /\ TreeInv' /\ WaitInv' /\ MutationInv' /\ FieldInv'
    <2>1. \A f \in Deferred(o) : Settled(o, f)
        BY DEF HandlerReceive, ExecInv, FieldInv
    <2> QED BY <2>1, GroupMoves DEF HandlerReceive
<1>2. RootInv' /\ LastInv'
    BY DEF HandlerReceive, ExecInv, RootInv, LastInv
<1>3. CountInv'
    <2>1. Unsent' = Unsent \ {o} /\ o \in Unsent
        BY DEF HandlerReceive, Unsent
    <2>2. pending' = pending - 1
        BY DEF HandlerReceive
    <2>3. IsFiniteSet(Unsent) /\ pending = Cardinality(Unsent)
        BY DEF ExecInv, CountInv
    <2> HIDE DEF Unsent
    <2>4. IsFiniteSet(Unsent') /\ Cardinality(Unsent') = Cardinality(Unsent) - 1
        BY <2>1, <2>3, FS_RemoveElement
    <2> QED BY <2>2, <2>3, <2>4 DEF CountInv
<1> QED BY <1>1, <1>2, <1>3 DEF ExecInv

\* A step of the handler alone leaves the rest of the state as it is.
LEMMA HandlerAlone ==
    ASSUME ExecInv, UNCHANGED <<op, obj, fld, invalids, group, pending>>
    PROVE  ShapeInv' /\ TreeInv' /\ WaitInv' /\ CountInv' /\ MutationInv' /\ FieldInv'
<1>1. \A p : /\ TypeOf(p)' = TypeOf(p) /\ Selected(p)' = Selected(p) /\ Deferred(p)' = Deferred(p)
             /\ \A g : FieldSet(p, g)' = FieldSet(p, g) /\ Settled(p, g)' = Settled(p, g)
    BY SameOperation DEF Settled
<1>2. ShapeInv' /\ TreeInv'
    BY <1>1 DEF ExecInv, ShapeInv, TreeInv
<1>3. WaitInv'
    BY <1>1 DEF ExecInv, WaitInv
<1>4. CountInv' /\ MutationInv'
    BY DEF ExecInv, CountInv, Unsent, MutationInv
<1>5. FieldInv'
    BY <1>1 DEF ExecInv, FieldInv
<1> QED BY <1>2, <1>3, <1>4, <1>5

\* The first call of the handler starts the executor of the root.
LEMMA FirstKeeps == ASSUME ExecInv, HandlerFirst PROVE ExecInv'
<1>1. DOMAIN obj = {} /\ DOMAIN fld = {} /\ DOMAIN group = {} /\ DOMAIN invalids = {}
    BY DEF HandlerFirst, ExecInv, RootInv, ShapeInv
<1>2. /\ op' = op /\ fld' = fld /\ group' = group /\ pending' = pending /\ hasNext' = hasNext
      /\ handler' = "exec"
    BY DEF HandlerFirst
<1>3. /\ DOMAIN obj' = {<<>>} /\ obj'[<<>>] = "open"
      /\ DOMAIN invalids' = {<<>>} \X {"out", "defer"}
      /\ \A s \in DOMAIN invalids' : invalids'[s] = 0
    BY <1>1 DEF HandlerFirst, OpenObjects, Put
<1>4. \A p : TypeOf(p)' = TypeOf(p)
    BY <1>2, SameOperation
<1>5. ShapeInv'
    <2>1. op \in Queries /\ op' = op
        BY <1>2 DEF ExecInv, ShapeInv
    <2>2. TypeOf(<<>>) \in Types
        BY <2>1, GraphAssumption, RootTypes, TypeOfRoot DEF TypeOf
    <2>3. <<>> \in Path
        BY DEF Path
    <2> QED BY <1>1, <1>2, <1>3, <1>4, <2>1, <2>2, <2>3 DEF ShapeInv
<1>6. TreeInv' /\ WaitInv'
    BY <1>1, <1>2, <1>3 DEF TreeInv, WaitInv
<1>7. RootInv' /\ LastInv'
    BY <1>2, <1>3 DEF RootInv, LastInv
<1>8. CountInv'
    BY <1>2 DEF ExecInv, CountInv, Unsent
<1>9. MutationInv'
    BY <1>1, <1>2, <1>3 DEF MutationInv
<1>10. FieldInv'
    BY <1>1, <1>2, <1>3 DEF FieldInv
<1> QED BY <1>5, <1>6, <1>7, <1>8, <1>9, <1>10 DEF ExecInv

\* The handler has the answer of the root.
LEMMA MarshalKeeps == ASSUME ExecInv, HandlerMarshal PROVE ExecInv'
<1>1. RootInv' /\ LastInv'
    BY DEF HandlerMarshal, ExecInv, RootInv, LastInv
<1> QED BY <1>1, HandlerAlone DEF HandlerMarshal, ExecInv

\* The handler writes the first response.
LEMMA WriteKeeps == ASSUME ExecInv, HandlerWrite PROVE ExecInv'
<1>1. RootInv'
    BY DEF HandlerWrite, ExecInv, RootInv
<1>2. LastInv'
    <2>1. pending \in Nat /\ (Unsent = {} => pending = 0)
        BY NoneUnsent DEF ExecInv
    <2>2. op.root = "Mutation" => Unsent = {}
        BY DEF ExecInv, MutationInv, Unsent
    <2>3. pending' = pending /\ hasNext' = (pending > 0)
          /\ handler' = IF op.root = "Mutation" THEN "end" ELSE "idle"
        BY DEF HandlerWrite
    <2>4. CASE op.root = "Mutation"
        BY <2>1, <2>2, <2>3, <2>4 DEF LastInv
    <2>5. CASE op.root # "Mutation"
        <3>1. ~hasNext' => ~(pending > 0)
            BY <2>3, Zenon
        <3>2. ~(pending > 0) => pending = 0
            BY <2>1
        <3>3. handler' # "end" /\ pending' = pending
            BY <2>3, <2>5
        <3> QED BY <3>1, <3>2, <3>3, Zenon DEF LastInv
    <2> QED BY <2>4, <2>5
<1> QED BY <1>1, <1>2, HandlerAlone DEF HandlerWrite, ExecInv

\* The handler is called again.
LEMMA CallKeeps == ASSUME ExecInv, HandlerCall PROVE ExecInv'
<1>1. RootInv'
    BY DEF HandlerCall, ExecInv, RootInv
<1>2. LastInv'
    BY NoneUnsent DEF HandlerCall, ExecInv, LastInv
<1> QED BY <1>1, <1>2, HandlerAlone DEF HandlerCall, ExecInv

\* The invariant holds at the start and is kept by every step.
LEMMA ExecInit == Init => ExecInv
<1> SUFFICES ASSUME Init PROVE ExecInv
    OBVIOUS
<1>1. DOMAIN obj = {} /\ DOMAIN fld = {} /\ DOMAIN group = {} /\ DOMAIN invalids = {}
    BY DEF Init
<1>2. ShapeInv /\ TreeInv /\ WaitInv /\ RootInv /\ MutationInv /\ LastInv /\ FieldInv
    BY <1>1 DEF Init, ShapeInv, TreeInv, WaitInv, RootInv, MutationInv, LastInv, FieldInv
<1>3. CountInv
    <2>1. Unsent = {}
        BY <1>1 DEF Unsent
    <2> QED BY <2>1, FS_EmptySet DEF CountInv, Init
<1> QED BY <1>2, <1>3 DEF ExecInv

\* Every step keeps the invariant.
LEMMA ExecNext == ExecInv /\ [Next]_vars => ExecInv'
<1> SUFFICES ASSUME ExecInv, [Next]_vars PROVE ExecInv'
    OBVIOUS
<1>1. CASE FieldStep
    BY <1>1, FieldStepKeeps
<1>2. CASE ReturnStep
    BY <1>2, FieldReturnKeeps, ObjectReturnKeeps, GroupReturnKeeps DEF ReturnStep
<1>3. CASE HandlerStep
    BY <1>3, FirstKeeps, MarshalKeeps, WriteKeeps, ReceiveKeeps DEF HandlerStep
<1>4. CASE HandlerCall
    BY <1>4, CallKeeps
<1>5. CASE UNCHANGED vars
    <2>1. RootInv' /\ LastInv'
        BY <1>5 DEF vars, ExecInv, RootInv, LastInv
    <2> QED BY <1>5, <2>1, HandlerAlone DEF vars, ExecInv
<1> QED BY <1>1, <1>2, <1>3, <1>4, <1>5 DEF Next

-----------------------------------------------------------------------------
\* No deferred group is left behind when a response says that nothing follows:
\* processDeferredGroup counts a group before the one that starts it is sent,
\* so a counter of 0 means that no goroutine of the operation is left.
THEOREM NoGroupIsLeftBehind == Spec => []NothingLeftBehind
<1>1. ExecInv => NothingLeftBehind
    <2> SUFFICES ASSUME ExecInv, handler = "end" \/ (handler = "idle" /\ ~hasNext)
                 PROVE  /\ pending = 0
                        /\ \A o \in DOMAIN obj : obj[o] # "open"
                        /\ \A o \in DOMAIN group : group[o] = "sent"
        BY DEF NothingLeftBehind, NothingFollows
    <2>1. pending = 0 /\ Unsent = {}
        BY NoneUnsent DEF ExecInv, LastInv
    <2>2. \A o \in DOMAIN obj : obj[o] # "open"
        <3> SUFFICES ASSUME NEW o \in DOMAIN obj, obj[o] = "open" PROVE FALSE
            OBVIOUS
        <3> QED BY OpenIsNotLast
    <2> QED BY <2>1, <2>2 DEF Unsent
<1> QED BY <1>1, ExecInit, ExecNext, PTL DEF Spec

\* A finished object with deferred fields has its group: it was started when the
\* executor returned, and is never forgotten.
GroupInv ==
    \A o \in DOMAIN obj : obj[o] = "valid" /\ Deferred(o) # {} => o \in DOMAIN group

\* The executor of an object starts its group in the step in which it returns.
LEMMA ObjectReturnGroups ==
    ASSUME GroupInv, NEW o \in DOMAIN obj, ObjectReturn(o)
    PROVE  GroupInv'
<1>1. op' = op /\ DOMAIN obj' = DOMAIN obj
      /\ \A p \in DOMAIN obj : p # o => obj'[p] = obj[p]
    BY DEF ObjectReturn
<1>2. DOMAIN group \subseteq DOMAIN group'
    BY DEF ObjectReturn, Put
<1>3. obj'[o] = "valid" /\ Deferred(o) # {} => o \in DOMAIN group'
    BY DEF ObjectReturn, Put
<1> QED BY <1>1, <1>2, <1>3, SameOperation DEF GroupInv

\* A field function finishes no object: it settles a field or opens others.
LEMMA FieldStepGroups == ASSUME GroupInv, FieldStep PROVE GroupInv'
<1>1. PICK o \in DOMAIN obj : \E f \in Selected(o) : FieldFunction(o, f)
    BY DEF FieldStep
<1>2. op' = op /\ group' = group
    BY <1>1 DEF FieldFunction, FieldError, FieldNil, FieldValue
<1>3. obj' = obj \/ \E S : obj' = Put(obj, S, "open")
    BY <1>1 DEF FieldFunction, FieldError, FieldNil, FieldValue, Settle, OpenObjects
<1>4. \A p \in DOMAIN obj' : obj'[p] = "valid" => p \in DOMAIN obj /\ obj[p] = "valid"
    BY <1>3 DEF Put
<1> QED BY <1>2, <1>4, SameOperation DEF GroupInv

\* Every step keeps the groups.
LEMMA GroupNext == GroupInv /\ [Next]_vars => GroupInv'
<1> SUFFICES ASSUME GroupInv, [Next]_vars PROVE GroupInv'
    OBVIOUS
<1>1. CASE FieldStep
    BY <1>1, FieldStepGroups
<1>2. CASE ReturnStep
    <2>1. ASSUME NEW of \in DOMAIN fld, FieldReturn(of[1], of[2]) PROVE GroupInv'
        BY <2>1, SameOperation DEF FieldReturn, Settle, GroupInv
    <2>2. ASSUME NEW o \in DOMAIN group, GroupReturn(o) PROVE GroupInv'
        BY <2>2, SameOperation DEF GroupReturn, GroupInv
    <2> QED BY <1>2, <2>1, <2>2, ObjectReturnGroups DEF ReturnStep
<1>3. CASE HandlerStep
    <2>1. ASSUME HandlerFirst PROVE GroupInv'
        <3>1. op' = op /\ group' = group
              /\ \A p \in DOMAIN obj' : obj'[p] = "valid" => p \in DOMAIN obj /\ obj[p] = "valid"
            BY <2>1 DEF HandlerFirst, OpenObjects, Put
        <3> QED BY <3>1, SameOperation DEF GroupInv
    <2>2. ASSUME HandlerMarshal \/ HandlerWrite PROVE GroupInv'
        BY <2>2, SameOperation DEF HandlerMarshal, HandlerWrite, GroupInv
    <2>3. ASSUME NEW o \in DOMAIN group, HandlerReceive(o) PROVE GroupInv'
        BY <2>3, SameOperation DEF HandlerReceive, GroupInv
    <2> QED BY <1>3, <2>1, <2>2, <2>3 DEF HandlerStep
<1>4. CASE HandlerCall \/ UNCHANGED vars
    BY <1>4, SameOperation DEF HandlerCall, vars, GroupInv
<1> QED BY <1>1, <1>2, <1>3, <1>4 DEF Next

\* What a client is given conforms to the schema text but for the nulls that
\* stand for deferred fields: the executors count every null of a field that is
\* not declared nullable, an object or a deferred group with a counted null is
\* itself null, and the group of an object was given when nothing follows.
THEOREM ResponsesConform == Spec => []ResponseConforms
<1>1. ExecInv /\ GroupInv => ResponseConforms
    <2> SUFFICES ASSUME ExecInv, GroupInv, NEW o \in DOMAIN obj, InResponse(o),
                        NEW f \in Selected(o) \ NullableIn(TypeOf(o))
                 PROVE  IF f \in Deferred(o)
                        THEN /\ Delivered(o) => Settled(o, f) /\ fld[<<o, f>>].is = "value"
                             /\ NothingFollows => o \in DOMAIN group /\ group[o] = "sent"
                        ELSE Settled(o, f) /\ Slot(o, f) = "value"
        BY DEF ResponseConforms
    <2>1. obj[o] = "valid"
        <3>1. Len(o) \in Nat /\ SubSeq(o, 1, Len(o)) = o
            BY LenProperties, SubSeqFull DEF ExecInv, ShapeInv, Path
        <3>2. Len(o) \in 0..Len(o)
            BY <3>1
        <3> QED BY <3>1, <3>2 DEF InResponse
    <2>2. ASSUME Settled(o, f), invalids[FieldSet(o, f)] = 0 PROVE fld[<<o, f>>].is = "value"
        <3>1. f \notin Exec[TypeOf(o)].uncounted
            BY UncountedIsNullable DEF ExecInv, ShapeInv
        <3>2. fld[<<o, f>>].is \notin {"nil", "null"}
            BY <2>2, <3>1 DEF Settled, ExecInv, FieldInv
        <3> QED BY <2>2, <3>2 DEF Settled, ExecInv, ShapeInv
    <2>3. CASE f \in Deferred(o)
        <3>1. ASSUME Delivered(o) PROVE Settled(o, f) /\ fld[<<o, f>>].is = "value"
            <4>1. Settled(o, f) /\ invalids[FieldSet(o, f)] = 0
                BY <2>3, <3>1 DEF Delivered, FieldSet, ExecInv, FieldInv
            <4> QED BY <2>2, <4>1
        <3>2. ASSUME NothingFollows PROVE o \in DOMAIN group /\ group[o] = "sent"
            <4>1. Unsent = {}
                BY <3>2, NoneUnsent DEF NothingFollows, ExecInv, LastInv
            <4>2. o \in DOMAIN group
                BY <2>1, <2>3 DEF GroupInv
            <4> QED BY <4>1, <4>2 DEF Unsent
        <3> QED BY <2>3, <3>1, <3>2
    <2>4. CASE f \notin Deferred(o)
        <3>1. Settled(o, f) /\ invalids[FieldSet(o, f)] = 0
            BY <2>1, <2>4 DEF FieldSet, ExecInv, FieldInv
        <3> QED BY <2>2, <2>4, <3>1 DEF Slot
    <2> QED BY <2>3, <2>4
<1>2. Init => GroupInv
    BY DEF Init, GroupInv
<1> QED BY <1>1, <1>2, ExecInit, ExecNext, GroupNext, PTL DEF Spec

-----------------------------------------------------------------------------
(***************************************************************************)
(* How far an error goes.                                                  *)
(***************************************************************************)

\* The name of the ith field on the way down to the field e.
Name(e, i) == IF i <= Len(e[1]) THEN e[1][i][1] ELSE e[2]

\* Forces, by the prefixes of the path of the object of e.
LEMMA ForcesForm ==
    ASSUME NEW e, e[1] \in Path, e[2] \in STRING, NEW o \in Path, NEW f
    PROVE  Forces(e, o, f) <=>
               /\ Len(o) <= Len(e[1])
               /\ SubSeq(e[1], 1, Len(o)) = o /\ Name(e, Len(o) + 1) = f
               /\ \A i \in Len(o) + 2..Len(e[1]) + 1 : Binding(SubSeq(e[1], 1, i - 1), Name(e, i))
<1> DEFINE S == STRING \X Nat
           last == <<e[2], 1>>
           path == Append(e[1], last)
           n == Len(e[1])
<1>1. last \in S /\ e[1] \in Seq(S) /\ o \in Seq(S)
    BY DEF Path
<1>2. last[1] = e[2]
    OBVIOUS
<1>3. /\ path \in Seq(S) /\ n \in Nat /\ Len(o) \in Nat /\ Len(path) = n + 1
      /\ \A i \in 1..n : path[i] = e[1][i]
      /\ path[n + 1] = last
    <2> HIDE DEF S, last
    <2> QED BY <1>1, AppendProperties, LenProperties
<1>4. \A i \in 1..n + 1 : path[i][1] = Name(e, i)
    <2> TAKE i \in 1..n + 1
    <2>1. CASE i = n + 1
        BY <1>2, <1>3, <2>1 DEF Name
    <2>2. CASE i \in 1..n
        BY <1>3, <2>2 DEF Name
    <2> QED BY <1>3, <2>1, <2>2
<1>5. ASSUME NEW k \in 0..n PROVE SubSeq(path, 1, k) = SubSeq(e[1], 1, k)
    <2> HIDE DEF S, path
    <2>1. /\ SubSeq(path, 1, k) \in Seq(S) /\ Len(SubSeq(path, 1, k)) = k
          /\ \A i \in 1..k : SubSeq(path, 1, k)[i] = path[i]
        BY <1>1, <1>3, SubSeqProperties
    <2>2. /\ SubSeq(e[1], 1, k) \in Seq(S) /\ Len(SubSeq(e[1], 1, k)) = k
          /\ \A i \in 1..k : SubSeq(e[1], 1, k)[i] = e[1][i]
        BY <1>1, <1>3, SubSeqProperties
    <2>3. \A i \in 1..k : path[i] = e[1][i]
        BY <1>3
    <2> QED BY <2>1, <2>2, <2>3, SeqEqual
<1>6. Forces(e, o, f) <=>
        /\ Len(o) < Len(path)
        /\ SubSeq(path, 1, Len(o)) = o /\ path[Len(o) + 1][1] = f
        /\ \A i \in Len(o) + 2..Len(path) : Binding(SubSeq(path, 1, i - 1), path[i][1])
    BY DEF Forces
<1> HIDE DEF path, n, S, last
<1>7. Len(o) < Len(path) <=> Len(o) <= n
    BY <1>3
<1>8. ASSUME Len(o) <= n
      PROVE  /\ SubSeq(path, 1, Len(o)) = SubSeq(e[1], 1, Len(o))
             /\ path[Len(o) + 1][1] = Name(e, Len(o) + 1)
             /\ \A i \in Len(o) + 2..n + 1 :
                   Binding(SubSeq(path, 1, i - 1), path[i][1])
                   <=> Binding(SubSeq(e[1], 1, i - 1), Name(e, i))
    <2>1. Len(o) \in 0..n /\ Len(o) + 1 \in 1..n + 1
        BY <1>3, <1>8
    <2>2. ASSUME NEW i \in Len(o) + 2..n + 1
          PROVE  path[i][1] = Name(e, i) /\ SubSeq(path, 1, i - 1) = SubSeq(e[1], 1, i - 1)
        <3>1. i \in 1..n + 1 /\ i - 1 \in 0..n
            BY <1>3
        <3> QED BY <1>4, <1>5, <3>1
    <2> QED BY <1>4, <1>5, <2>1, <2>2
<1> QED BY <1>3, <1>6, <1>7, <1>8 DEF n

\* The prefixes of a path, and the field above one of them.
LEMMA Prefixes ==
    ASSUME NEW o \in Path, NEW n \in 0..Len(o)
    PROVE  /\ Len(o) \in Nat /\ SubSeq(o, 1, n) \in Path /\ Len(SubSeq(o, 1, n)) = n
           /\ \A i \in 1..n : SubSeq(o, 1, n)[i] = o[i]
           /\ \A k \in 0..n : SubSeq(SubSeq(o, 1, n), 1, k) = SubSeq(o, 1, k)
           /\ n # 0 => Above(SubSeq(o, 1, n)) = <<SubSeq(o, 1, n - 1), o[n][1]>>
           /\ SubSeq(o, 1, Len(o)) = o /\ SubSeq(o, 1, 0) = <<>>
<1> DEFINE S == STRING \X Nat
           p == SubSeq(o, 1, n)
<1>1. o \in Seq(S) /\ Len(o) \in Nat
    BY LenProperties DEF Path
<1> HIDE DEF S
<1>2. p \in Seq(S) /\ Len(p) = n /\ \A i \in 1..n : p[i] = o[i]
    BY <1>1, SubSeqProperties
<1>3. ASSUME NEW k \in 0..n PROVE SubSeq(p, 1, k) = SubSeq(o, 1, k)
    <2>1. /\ SubSeq(o, 1, k) \in Seq(S) /\ Len(SubSeq(o, 1, k)) = k
          /\ \A i \in 1..k : SubSeq(o, 1, k)[i] = o[i]
        BY <1>1, SubSeqProperties
    <2>2. /\ SubSeq(p, 1, k) \in Seq(S) /\ Len(SubSeq(p, 1, k)) = k
          /\ \A i \in 1..k : SubSeq(p, 1, k)[i] = p[i]
        <3> HIDE DEF p
        <3> QED BY <1>1, <1>2, SubSeqProperties
    <2>3. \A i \in 1..k : p[i] = o[i]
        BY <1>2
    <2> HIDE DEF p
    <2> QED BY <2>1, <2>2, <2>3, SeqEqual
<1>4. n # 0 => Above(p) = <<SubSeq(o, 1, n - 1), o[n][1]>>
    <2> SUFFICES ASSUME n # 0 PROVE Above(p) = <<SubSeq(o, 1, n - 1), o[n][1]>>
        OBVIOUS
    <2>1. n - 1 \in 0..n /\ n \in 1..n
        BY <1>1
    <2>2. SubSeq(p, 1, n - 1) = SubSeq(o, 1, n - 1) /\ p[n] = o[n]
        BY <1>2, <1>3, <2>1
    <2> HIDE DEF p
    <2> QED BY <1>2, <2>2 DEF Above
<1>5. SubSeq(o, 1, Len(o)) = o /\ SubSeq(o, 1, 0) = <<>>
    BY <1>1, SubSeqFull, SubSeqEmpty
<1> QED BY <1>1, <1>2, <1>3, <1>4, <1>5 DEF Path, S

\* An error goes from a field to the field above its object, if it binds.
LEMMA ForcesUp ==
    ASSUME NEW e, e = <<e[1], e[2]>>, e[1] \in Path, e[2] \in STRING,
           NEW o \in Path, NEW f, Forces(e, o, f), e # <<o, f>>
    PROVE  /\ e[1] # <<>> /\ Binding(e[1], e[2])
           /\ Forces(Above(e[1]), o, f)
<1> DEFINE n == Len(e[1])
           k == Len(o)
           a == Above(e[1])
<1>0. n \in Nat /\ k \in Nat
    BY LenProperties DEF Path
<1>1. /\ k <= n
      /\ SubSeq(e[1], 1, k) = o /\ Name(e, k + 1) = f
      /\ \A i \in k + 2..n + 1 : Binding(SubSeq(e[1], 1, i - 1), Name(e, i))
    BY ForcesForm
<1>2. SubSeq(e[1], 1, n) = e[1]
    BY <1>0, Prefixes
<1> HIDE DEF n, k, a
<1>3. k # n
    <2> SUFFICES ASSUME k = n PROVE FALSE
        OBVIOUS
    <2>1. o = e[1]
        BY <1>1, <1>2
    <2>2. f = e[2]
        BY <1>0, <1>1 DEF Name, n
    <2> QED BY <2>1, <2>2
<1>4. k < n /\ n # 0 /\ n + 1 \in k + 2..n + 1 /\ n - 1 \in 0..n /\ n \in 0..n /\ n \in 1..n
    BY <1>0, <1>1, <1>3
<1>5. e[1] # <<>>
    BY <1>4 DEF n
<1>6. Binding(e[1], e[2])
    <2>1. Name(e, n + 1) = e[2]
        BY <1>0 DEF Name, n
    <2>2. Binding(SubSeq(e[1], 1, n + 1 - 1), Name(e, n + 1))
        BY <1>1, <1>4
    <2>3. n + 1 - 1 = n
        BY <1>0
    <2> QED BY <1>2, <2>1, <2>2, <2>3
<1>7. /\ a = <<SubSeq(e[1], 1, n - 1), e[1][n][1]>>
      /\ a[1] \in Path /\ Len(a[1]) = n - 1 /\ a[2] \in STRING
    <2>1. a[1] \in Path /\ a[2] \in STRING /\ Len(a[1]) = n - 1
        BY <1>5, BelowAbove DEF a, n
    <2> QED BY <2>1 DEF a, n, Above
<1>8. \A j \in 0..n - 1 : SubSeq(a[1], 1, j) = SubSeq(e[1], 1, j)
    BY <1>4, <1>7, Prefixes DEF n
<1>9. \A i \in 1..n : Name(a, i) = Name(e, i)
    <2> TAKE i \in 1..n
    <2>1. CASE i = n
        <3>1. ~(n <= Len(a[1])) /\ n <= Len(e[1])
            BY <1>0, <1>7 DEF n
        <3> QED BY <1>7, <2>1, <3>1 DEF Name
    <2>2. CASE i \in 1..n - 1
        <3>1. i <= Len(a[1]) /\ i <= Len(e[1])
            BY <1>0, <1>7, <2>2 DEF n
        <3>2. a[1][i] = e[1][i]
            BY <1>4, <1>7, <2>2, Prefixes DEF n
        <3> QED BY <3>1, <3>2 DEF Name
    <2> QED BY <1>0, <2>1, <2>2
<1>10. Forces(a, o, f)
    <2>1. k <= Len(a[1])
        BY <1>0, <1>4, <1>7
    <2>2. SubSeq(a[1], 1, k) = o
        <3>1. k \in 0..n - 1
            BY <1>0, <1>4
        <3> QED BY <1>1, <1>8, <3>1, Zenon
    <2>3. Name(a, k + 1) = f
        BY <1>0, <1>1, <1>4, <1>9
    <2>4. ASSUME NEW i \in k + 2..Len(a[1]) + 1
          PROVE  Binding(SubSeq(a[1], 1, i - 1), Name(a, i))
        <3>1. i \in k + 2..n + 1 /\ i \in 1..n /\ i - 1 \in 0..n - 1
            BY <1>0, <1>7
        <3>2. Binding(SubSeq(e[1], 1, i - 1), Name(e, i))
            BY <1>1, <3>1
        <3>3. SubSeq(a[1], 1, i - 1) = SubSeq(e[1], 1, i - 1) /\ Name(a, i) = Name(e, i)
            BY <1>8, <1>9, <3>1, Zenon
        <3> QED BY <3>2, <3>3, Zenon
    <2>5. Forces(a, o, f) <=>
            /\ k <= Len(a[1])
            /\ SubSeq(a[1], 1, k) = o /\ Name(a, k + 1) = f
            /\ \A i \in k + 2..Len(a[1]) + 1 : Binding(SubSeq(a[1], 1, i - 1), Name(a, i))
        <3>1. a[1] \in Path /\ a[2] \in STRING
            BY <1>7
        <3> QED BY <3>1, ForcesForm DEF k
    <2> QED BY <2>1, <2>2, <2>3, <2>4, <2>5, Zenon
<1> QED BY <1>5, <1>6, <1>10 DEF a

\* An error below a field comes through one of the field's objects, and an error
\* that makes a binding field of that object null makes the field null.
LEMMA ForcesDown ==
    ASSUME NEW e, e = <<e[1], e[2]>>, e[1] \in Path, e[2] \in STRING,
           NEW o \in Path, NEW f, Forces(e, o, f), e # <<o, f>>
    PROVE  LET c == SubSeq(e[1], 1, Len(o) + 1)
               g == Name(e, Len(o) + 2)
           IN  /\ Len(o) < Len(e[1]) /\ c \in Path /\ c # <<>> /\ Above(c) = <<o, f>>
               /\ Binding(c, g) /\ Forces(e, c, g)
<1> DEFINE n == Len(e[1])
           k == Len(o)
           c == SubSeq(e[1], 1, k + 1)
           g == Name(e, k + 2)
<1>0. n \in Nat /\ k \in Nat
    BY LenProperties DEF Path
<1>1. /\ k <= n
      /\ SubSeq(e[1], 1, k) = o /\ Name(e, k + 1) = f
      /\ \A i \in k + 2..n + 1 : Binding(SubSeq(e[1], 1, i - 1), Name(e, i))
    BY ForcesForm
<1>2. SubSeq(e[1], 1, n) = e[1]
    BY <1>0, Prefixes
<1> HIDE DEF n, k
<1>3. k # n
    <2> SUFFICES ASSUME k = n PROVE FALSE
        OBVIOUS
    <2>1. o = e[1]
        BY <1>1, <1>2
    <2>2. f = e[2]
        BY <1>0, <1>1 DEF Name, n
    <2> QED BY <2>1, <2>2
<1>4. k < n /\ k + 1 \in 0..n /\ k + 2 \in k + 2..n + 1 /\ k + 1 # 0 /\ k + 1 - 1 = k /\ k + 2 - 1 = k + 1
    BY <1>0, <1>1, <1>3
<1>5. /\ c \in Path /\ Len(c) = k + 1
      /\ \A j \in 0..k + 1 : SubSeq(c, 1, j) = SubSeq(e[1], 1, j)
      /\ Above(c) = <<SubSeq(e[1], 1, k), e[1][k + 1][1]>>
    <2> DEFINE m == k + 1
    <2>1. m \in 0..Len(e[1]) /\ m # 0 /\ m - 1 = k /\ c = SubSeq(e[1], 1, m)
        BY <1>0, <1>4 DEF n
    <2> HIDE DEF m, c
    <2>2. /\ c \in Path /\ Len(c) = m
          /\ \A j \in 0..m : SubSeq(c, 1, j) = SubSeq(e[1], 1, j)
          /\ Above(c) = <<SubSeq(e[1], 1, m - 1), e[1][m][1]>>
        BY <2>1, Prefixes
    <2> QED BY <2>1, <2>2 DEF m
<1>6. c # <<>>
    BY <1>4, <1>5
<1>7. e[1][k + 1][1] = f
    <2>1. k + 1 <= Len(e[1])
        BY <1>0, <1>4 DEF n
    <2> QED BY <1>1, <2>1 DEF Name
<1>8. Binding(c, g)
    <2> DEFINE i == k + 2
    <2>1. i \in k + 2..n + 1 /\ i - 1 = k + 1
        BY <1>0, <1>4
    <2>2. Binding(SubSeq(e[1], 1, i - 1), Name(e, i))
        <3> HIDE DEF i
        <3> QED BY <1>1, <2>1, Zenon
    <2> QED BY <2>1, <2>2, Zenon
<1>9. Forces(e, c, g)
    <2>1. SubSeq(e[1], 1, Len(c)) = c /\ Len(c) <= Len(e[1]) /\ Name(e, Len(c) + 1) = g
        <3>1. Len(c) + 1 = k + 2 /\ Len(c) <= n
            BY <1>0, <1>4, <1>5
        <3> QED BY <1>5, <3>1 DEF n
    <2>2. ASSUME NEW i \in Len(c) + 2..Len(e[1]) + 1
          PROVE  Binding(SubSeq(e[1], 1, i - 1), Name(e, i))
        <3>1. i \in k + 2..n + 1
            BY <1>0, <1>5 DEF n
        <3> QED BY <1>1, <3>1
    <2> HIDE DEF c, g
    <2> QED BY <1>5, <2>1, <2>2, ForcesForm
<1> QED BY <1>1, <1>4, <1>5, <1>6, <1>7, <1>8, <1>9 DEF k, n

\* An error that makes a binding field of an object null makes null the field
\* whose answer the object is.
LEMMA ForcesThrough ==
    ASSUME NEW e, e[1] \in Path, e[2] \in STRING,
           NEW o \in Path, NEW f \in STRING, NEW j \in Nat, NEW g,
           Binding(Append(o, <<f, j>>), g), Forces(e, Append(o, <<f, j>>), g)
    PROVE  Forces(e, o, f)
<1> DEFINE n == Len(e[1])
           k == Len(o)
           c == Append(o, <<f, j>>)
<1>0. n \in Nat /\ k \in Nat
    BY LenProperties DEF Path
<1>1. c \in Path /\ c # <<>> /\ Above(c) = <<o, f>> /\ Len(c) = k + 1 /\ c[k + 1] = <<f, j>>
    BY AboveAppend
<1> HIDE DEF n, k, c
<1>2. /\ k + 1 <= n
      /\ SubSeq(e[1], 1, k + 1) = c /\ Name(e, k + 2) = g
      /\ \A i \in k + 3..n + 1 : Binding(SubSeq(e[1], 1, i - 1), Name(e, i))
    <2>1. Binding(c, g) /\ Forces(e, c, g)
        BY DEF c
    <2>2. Len(c) + 1 = k + 2 /\ Len(c) + 2 = k + 3
        BY <1>0, <1>1
    <2> QED BY <1>1, <2>1, <2>2, ForcesForm DEF n
<1>3. k <= n /\ k + 1 \in 0..n /\ k \in 0..k + 1 /\ k + 1 \in 1..k + 1 /\ k + 1 <= Len(e[1])
    BY <1>0, <1>2 DEF n
<1>4. SubSeq(e[1], 1, k) = o
    <2>1. SubSeq(c, 1, k) = SubSeq(e[1], 1, k)
        BY <1>2, <1>3, Prefixes DEF n
    <2>2. Above(c)[1] = SubSeq(c, 1, k)
        <3>1. Len(c) - 1 = k
            BY <1>0, <1>1
        <3> QED BY <3>1 DEF Above
    <2>3. Above(c)[1] = o
        BY <1>1
    <2> QED BY <2>1, <2>2, <2>3, Zenon
<1>5. Name(e, k + 1) = f
    <2>1. c[k + 1] = e[1][k + 1]
        <3> DEFINE m == k + 1
        <3>1. m \in 0..Len(e[1]) /\ m \in 1..m /\ SubSeq(e[1], 1, m) = c
            BY <1>2, <1>3 DEF n
        <3> HIDE DEF m
        <3>2. c[m] = e[1][m]
            BY <3>1, Prefixes
        <3> QED BY <3>2 DEF m
    <2>2. Name(e, k + 1) = e[1][k + 1][1]
        BY <1>3, Zenon DEF Name
    <2>3. c[k + 1][1] = f
        BY <1>1
    <2> QED BY <2>1, <2>2, <2>3, Zenon
<1>6. ASSUME NEW i \in k + 2..n + 1
      PROVE  Binding(SubSeq(e[1], 1, i - 1), Name(e, i))
    <2>1. CASE i = k + 2
        <3>1. i - 1 = k + 1
            BY <1>0, <2>1
        <3> QED BY <1>2, <2>1, <3>1 DEF c
    <2>2. CASE i # k + 2
        <3>1. i \in k + 3..n + 1
            BY <1>0, <2>2
        <3> QED BY <1>2, <3>1
    <2> QED BY <2>1, <2>2
<1> QED BY <1>3, <1>4, <1>5, <1>6, ForcesForm DEF n, k

\* Every prefix of the path of an object is the path of an object.
LEMMA PrefixesExist ==
    ASSUME ExecInv, NEW o \in DOMAIN obj, NEW n \in 0..Len(o)
    PROVE  SubSeq(o, 1, n) \in DOMAIN obj
<1> DEFINE Bad == {k \in 0..Len(o) : SubSeq(o, 1, Len(o) - k) \notin DOMAIN obj}
<1>0. o \in Path /\ Len(o) \in Nat
    BY LenProperties DEF ExecInv, ShapeInv, Path
<1>1. Bad = {}
    <2> SUFFICES ASSUME Bad # {} PROVE FALSE
        OBVIOUS
    <2>1. PICK k \in Bad : \A j \in Bad : k <= j
        <3>1. Bad \subseteq Nat /\ Bad # {}
            BY <1>0
        <3> HIDE DEF Bad
        <3> QED BY <3>1, LeastOf
    <2> DEFINE m == Len(o) - k
    <2>2. k # 0
        <3> SUFFICES ASSUME k = 0 PROVE FALSE
            OBVIOUS
        <3>1. Len(o) - k = Len(o) /\ Len(o) \in 0..Len(o)
            BY <1>0
        <3>2. SubSeq(o, 1, Len(o)) = o
            BY <1>0, <3>1, Prefixes
        <3> QED BY <2>1, <3>1, <3>2
    <2>3. k - 1 \in 0..Len(o) /\ ~(k <= k - 1) /\ k - 1 \notin Bad
        BY <1>0, <2>1, <2>2
    <2>4. SubSeq(o, 1, m + 1) \in DOMAIN obj
        <3>1. Len(o) - (k - 1) = m + 1
            BY <1>0, <2>1
        <3> QED BY <2>3, <3>1
    <2>5. m \in Nat /\ m + 1 \in 0..Len(o) /\ m + 1 # 0 /\ m + 1 - 1 = m
        BY <1>0, <2>1, <2>2
    <2>6. SubSeq(o, 1, m) \notin DOMAIN obj
        BY <2>1
    <2> HIDE DEF m, Bad
    <2> DEFINE l == m + 1
    <2>7. l \in 0..Len(o) /\ l # 0 /\ l - 1 = m /\ SubSeq(o, 1, l) \in DOMAIN obj
        BY <2>4, <2>5
    <2> HIDE DEF l
    <2> DEFINE c == SubSeq(o, 1, l)
    <2>8. Above(c) = <<SubSeq(o, 1, l - 1), o[l][1]>> /\ Len(c) = l
        BY <1>0, <2>7, Prefixes
    <2>9. c # <<>>
        BY <2>7, <2>8
    <2>10. Above(c) \in DOMAIN fld
        BY <2>7, <2>9 DEF ExecInv, TreeInv
    <2>11. Above(c)[1] \in DOMAIN obj
        BY <2>10 DEF ExecInv, ShapeInv
    <2>12. Above(c)[1] = SubSeq(o, 1, m)
        BY <2>7, <2>8
    <2> QED BY <2>6, <2>11, <2>12
<1>2. Len(o) - n \in 0..Len(o) /\ Len(o) - (Len(o) - n) = n
    BY <1>0
<1> QED BY <1>1, <1>2

\* An error of a field whose turn it is does not reach a field that is settled.
LEMMA ErrorsStop ==
    ASSUME ExecInv, NEW p \in Path, NEW g
    PROVE  \A o \in DOMAIN obj : \A f \in Selected(o) :
               Turn(o, f) /\ ~Settled(o, f) /\ Forces(<<o, f>>, p, g)
                   => Turn(p, g) /\ ~Settled(p, g)
<1> DEFINE Runs(o, f) == Turn(o, f) /\ ~Settled(o, f) /\ Forces(<<o, f>>, p, g)
           Bad == {o \in DOMAIN obj : \E f \in Selected(o) : Runs(o, f)}
           Lens == {Len(o) : o \in Bad}
<1> SUFFICES ASSUME ~(Turn(p, g) /\ ~Settled(p, g)), Bad # {} PROVE FALSE
    OBVIOUS
<1>0. \A o \in DOMAIN obj : o \in Path /\ Len(o) \in Nat
    BY LenProperties DEF ExecInv, ShapeInv, Path
<1>1. PICK m \in Lens : \A k \in Lens : m <= k
    <2>1. Lens \subseteq Nat /\ Lens # {}
        BY <1>0
    <2> HIDE DEF Lens
    <2> QED BY <2>1, LeastOf
<1>2. PICK o \in DOMAIN obj : Len(o) = m /\ \E f \in Selected(o) : Runs(o, f)
    BY <1>1
<1>3. PICK f \in Selected(o) : Runs(o, f)
    BY <1>2
<1>4. o \in Path /\ f \in STRING
    BY <1>0, SelectedNames DEF ExecInv, ShapeInv
<1>5. <<o, f>> # <<p, g>>
    BY <1>3
<1> DEFINE e == <<o, f>>
           a == Above(o)
<1>6. o # <<>> /\ Binding(o, f) /\ Forces(a, p, g)
    <2>1. e = <<e[1], e[2]>> /\ e[1] = o /\ e[2] = f /\ Forces(e, p, g)
        BY <1>3
    <2> HIDE DEF e
    <2> QED BY <1>4, <1>5, <2>1, ForcesUp DEF e
<1>7. obj[o] = "open"
    BY <1>3, <1>6 DEF Turn, Binding
<1>8. a \in DOMAIN fld /\ fld[a].is = "wait"
    BY <1>6, <1>7 DEF ExecInv, TreeInv
<1>9. a = <<a[1], a[2]>> /\ a[1] \in DOMAIN obj /\ a[2] \in Selected(a[1])
    BY <1>8 DEF ExecInv, ShapeInv
<1>10. Turn(a[1], a[2])
    BY <1>8, <1>9 DEF ExecInv, WaitInv, Turn
<1>11. ~Settled(a[1], a[2])
    BY <1>8, <1>9 DEF Settled
<1>12. Forces(<<a[1], a[2]>>, p, g)
    BY <1>6, <1>9, Zenon
<1>13. Len(a[1]) = Len(o) - 1
    BY <1>4, <1>6, BelowAbove
<1> HIDE DEF a
<1>14. a[1] \in Bad
    BY <1>9, <1>10, <1>11, <1>12
<1>15. Len(a[1]) \in Lens
    BY <1>14
<1> HIDE DEF Lens, Bad
<1> QED BY <1>0, <1>1, <1>2, <1>13, <1>15

\* FailureContained is inductive with two facts: errors are of settled fields,
\* and what an object counts is the null of a field that is answered with it.
ErrorInv ==
    /\ \A e \in errors : e \in DOMAIN fld /\ fld[e].is # "wait"
    /\ FailureContained
    /\ \A o \in DOMAIN obj : invalids[<<o, "out">>] # 0 =>
        \E f \in Selected(o) : /\ Binding(o, f)
                               /\ <<o, f>> \in DOMAIN fld /\ fld[<<o, f>>].is = "null"

\* How far an error goes depends on the operation alone.
LEMMA SameForces ==
    ASSUME op' = op, NEW o, NEW f
    PROVE  Binding(o, f)' = Binding(o, f) /\ \A e : Forces(e, o, f)' = Forces(e, o, f)
<1>1. \A p, g : Binding(p, g)' = Binding(p, g)
    BY SameOperation DEF Binding
<1> QED BY <1>1 DEF Forces

\* The error of a field is an error of a field below one of its objects.
LEMMA ErrorBelow ==
    ASSUME ExecInv, ErrorInv, NEW e \in errors, NEW o \in DOMAIN obj, NEW f,
           Forces(e, o, f), e # <<o, f>>
    PROVE  \E c \in DOMAIN obj \ {<<>>} : \E g \in Selected(c) :
               Above(c) = <<o, f>> /\ Binding(c, g) /\ Forces(e, c, g)
<1>1. /\ e \in DOMAIN fld /\ e = <<e[1], e[2]>> /\ e[1] \in DOMAIN obj /\ e[2] \in Selected(e[1])
      /\ e[1] \in Path /\ o \in Path
    BY DEF ErrorInv, ExecInv, ShapeInv
<1>2. e[2] \in STRING
    BY <1>1, SelectedNames DEF ExecInv, ShapeInv
<1> DEFINE n == Len(e[1])
           k == Len(o)
           c == SubSeq(e[1], 1, k + 1)
           g == Name(e, k + 2)
<1>3. k < n /\ c \in Path /\ c # <<>> /\ Above(c) = <<o, f>> /\ Binding(c, g) /\ Forces(e, c, g)
    BY <1>1, <1>2, ForcesDown
<1>4. n \in Nat /\ k \in Nat
    BY <1>1, LenProperties DEF Path
<1>5. k + 1 \in 0..n
    BY <1>3, <1>4
<1>6. c \in DOMAIN obj
    BY <1>1, <1>5, PrefixesExist
<1>7. g \in Selected(c)
    <2>1. CASE k + 1 = n
        <3>1. c = e[1]
            BY <1>1, <1>4, <2>1, Prefixes
        <3>2. g = e[2]
            <4>1. ~(k + 2 <= Len(e[1]))
                BY <1>4, <2>1
            <4> QED BY <4>1 DEF Name
        <3> QED BY <1>1, <3>1, <3>2
    <2>2. CASE k + 1 # n
        <3> DEFINE l == k + 2
                   d == SubSeq(e[1], 1, l)
        <3>1. l \in 0..n /\ l # 0 /\ l - 1 = k + 1 /\ l <= Len(e[1])
            BY <1>3, <1>4, <2>2
        <3> HIDE DEF l
        <3>2. d \in DOMAIN obj
            BY <1>1, <3>1, PrefixesExist
        <3>3. Above(d) = <<SubSeq(e[1], 1, l - 1), e[1][l][1]>> /\ Len(d) = l
            BY <1>1, <3>1, Prefixes
        <3>4. d # <<>>
            BY <3>1, <3>3
        <3>5. Above(d) \in DOMAIN fld
            BY <3>2, <3>4 DEF ExecInv, TreeInv
        <3>6. Above(d)[2] \in Selected(Above(d)[1])
            BY <3>5 DEF ExecInv, ShapeInv
        <3>7. g = e[1][l][1]
            <4>1. g = Name(e, l)
                BY DEF l
            <4> QED BY <3>1, <4>1, Zenon DEF Name
        <3>8. Above(d)[1] = c /\ Above(d)[2] = g
            BY <3>1, <3>3, <3>7
        <3> HIDE DEF d, c, g
        <3> QED BY <3>6, <3>8
    <2> QED BY <2>1, <2>2
<1> HIDE DEF c, g
<1> QED BY <1>3, <1>6, <1>7

\* So there is none below a field that was not entered.
LEMMA NoErrorYet ==
    ASSUME ExecInv, ErrorInv, NEW o \in DOMAIN obj, NEW f, <<o, f>> \notin DOMAIN fld
    PROVE  \A e \in errors : ~Forces(e, o, f)
<1> SUFFICES ASSUME NEW e \in errors, Forces(e, o, f) PROVE FALSE
    OBVIOUS
<1>1. e # <<o, f>>
    BY DEF ErrorInv
<1>2. PICK c \in DOMAIN obj \ {<<>>} : Above(c) = <<o, f>>
    BY <1>1, ErrorBelow
<1> QED BY <1>2 DEF ExecInv, TreeInv

\* The executor is given the answer of a field, which is null if and only if an
\* error forces it.
LEMMA SettleErrors ==
    ASSUME ExecInv, ErrorInv, NEW o \in DOMAIN obj, NEW f \in Selected(o),
           Turn(o, f), ~Settled(o, f), NEW is \in {"value", "nil", "null"}, Settle(o, f, is), op' = op,
           errors' = errors \/ errors' = errors \cup {<<o, f>>},
           is = "null" <=> \E e \in errors' : Forces(e, o, f),
           is = "nil" => f \in Exec[TypeOf(o)].uncounted
    PROVE  ErrorInv'
<1>1. obj' = obj /\ op' = op
    BY DEF Settle
<1>2. \A p : TypeOf(p)' = TypeOf(p) /\ Selected(p)' = Selected(p) /\ Deferred(p)' = Deferred(p)
    BY <1>1, SameOperation
<1>3. \A p, g : Binding(p, g)' = Binding(p, g) /\ \A e : Forces(e, p, g)' = Forces(e, p, g)
    BY <1>1, SameForces
<1>4. /\ DOMAIN fld' = DOMAIN fld \cup {<<o, f>>}
      /\ fld'[<<o, f>>].is = is
      /\ \A of \in DOMAIN fld \ {<<o, f>>} : fld'[of] = fld[of]
    BY DEF Settle, Put
<1>5. /\ \A p \in DOMAIN obj : p \in Path
      /\ \A of \in DOMAIN fld : of = <<of[1], of[2]>> /\ of[1] \in DOMAIN obj
    BY DEF ExecInv, ShapeInv
<1>6. ASSUME NEW p \in DOMAIN obj, NEW g, Forces(<<o, f>>, p, g)
      PROVE  Turn(p, g) /\ ~Settled(p, g)
    BY <1>5, <1>6, ErrorsStop
<1>7. errors \subseteq errors' /\ errors' \subseteq errors \cup {<<o, f>>}
    OBVIOUS
<1>8. \A e \in errors' : e \in DOMAIN fld' /\ fld'[e].is # "wait"
    BY <1>4, <1>7 DEF ErrorInv
<1>9. ASSUME NEW of \in DOMAIN fld', fld'[of].is # "wait"
      PROVE  fld'[of].is = "null" <=> \E e \in errors' : Forces(e, of[1], of[2])
    <2>1. CASE of = <<o, f>>
        BY <1>4, <2>1
    <2>2. CASE of # <<o, f>>
        <3>1. of \in DOMAIN fld /\ fld'[of] = fld[of] /\ of = <<of[1], of[2]>> /\ of[1] \in DOMAIN obj
            BY <1>4, <1>5, <2>2
        <3>2. Settled(of[1], of[2])
            BY <1>9, <3>1 DEF Settled
        <3>3. fld[of].is = "null" <=> \E e \in errors : Forces(e, of[1], of[2])
            BY <3>1, <3>2 DEF ErrorInv, FailureContained
        <3>4. ~Forces(<<o, f>>, of[1], of[2])
            BY <1>6, <3>1, <3>2
        <3> QED BY <1>7, <3>1, <3>3, <3>4
    <2> QED BY <2>1, <2>2
<1>10. ASSUME NEW p \in DOMAIN obj, obj[p] # "open"
       PROVE  obj[p] = "null"
              <=> \E g \in Selected(p) : Binding(p, g) /\ \E e \in errors' : Forces(e, p, g)
    <2>1. obj[p] = "null"
          <=> \E g \in Selected(p) : Binding(p, g) /\ \E e \in errors : Forces(e, p, g)
        BY <1>10 DEF ErrorInv, FailureContained
    <2>2. \A g : Binding(p, g) => ~Forces(<<o, f>>, p, g)
        BY <1>6, <1>10 DEF Binding, Turn
    <2> QED BY <1>7, <2>1, <2>2
<1>11. FailureContained'
    <2>1. \A of \in DOMAIN fld' :
            Settled(of[1], of[2])' =>
                (fld'[of].is = "null" <=> \E e \in errors' : Forces(e, of[1], of[2])')
        <3> TAKE of \in DOMAIN fld'
        <3>1. of = <<of[1], of[2]>>
            BY <1>4, <1>5
        <3> QED BY <1>3, <1>9, <3>1 DEF Settled
    <2>2. \A p \in DOMAIN obj' : obj'[p] # "open" =>
            (obj'[p] = "null"
             <=> \E g \in Selected(p)' : Binding(p, g)' /\ \E e \in errors' : Forces(e, p, g)')
        BY <1>1, <1>2, <1>3, <1>10
    <2> QED BY <2>1, <2>2 DEF FailureContained
<1>12. ASSUME NEW p \in DOMAIN obj, invalids'[<<p, "out">>] # 0
       PROVE  \E g \in Selected(p) : /\ Binding(p, g) /\ <<p, g>> \in DOMAIN fld'
                                     /\ fld'[<<p, g>>].is = "null"
    <2>1. CASE invalids[<<p, "out">>] # 0
        <3>1. PICK g \in Selected(p) : /\ Binding(p, g) /\ <<p, g>> \in DOMAIN fld
                                       /\ fld[<<p, g>>].is = "null"
            BY <2>1 DEF ErrorInv
        <3>2. <<p, g>> # <<o, f>>
            BY <3>1 DEF Settled
        <3> QED BY <1>4, <3>1, <3>2
    <2>2. CASE invalids[<<p, "out">>] = 0
        <3>1. /\ is \in {"nil", "null"} /\ f \notin Exec[TypeOf(o)].uncounted
              /\ FieldSet(o, f) = <<p, "out">>
            BY <1>12, <2>2 DEF Settle
        <3>2. p = o /\ f \notin Deferred(o)
            BY <3>1 DEF FieldSet
        <3>3. Binding(o, f)
            BY <3>1, <3>2, UncountedIsNullable DEF Binding, ExecInv, ShapeInv
        <3> QED BY <1>4, <3>1, <3>2, <3>3
    <2> QED BY <2>1, <2>2
<1> QED BY <1>1, <1>2, <1>3, <1>8, <1>11, <1>12 DEF ErrorInv

\* A field function fails on its own account or not at all: nothing below it ran.
LEMMA FieldStepErrors == ASSUME ExecInv, ErrorInv, FieldStep PROVE ErrorInv'
<1>1. PICK o \in DOMAIN obj : \E f \in Selected(o) :
        \/ FieldError(o, f)
        \/ FieldNil(o, f)
        \/ \E n \in FieldLengths(o, f) : FieldValue(o, f, n)
    BY DEF FieldStep, FieldFunction
<1>2. PICK f \in Selected(o) :
        \/ FieldError(o, f)
        \/ FieldNil(o, f)
        \/ \E n \in FieldLengths(o, f) : FieldValue(o, f, n)
    BY <1>1
<1>3. MayRun(o, f) /\ op' = op
    BY <1>2 DEF FieldError, FieldNil, FieldValue
<1>4. Turn(o, f) /\ <<o, f>> \notin DOMAIN fld /\ ~Settled(o, f)
    BY <1>3, MayRunTurn DEF Settled
<1>5. \A e \in errors : ~Forces(e, o, f)
    BY <1>4, NoErrorYet
<1>6. o \in Path /\ f \in STRING
    BY SelectedNames DEF ExecInv, ShapeInv
<1>7. CASE FieldError(o, f)
    <2>1. errors' = errors \cup {<<o, f>>} /\ Settle(o, f, "null")
        BY <1>7 DEF FieldError
    <2>2. Forces(<<o, f>>, o, f)
        <3> DEFINE e == <<o, f>>
        <3>1. e[1] = o /\ e[2] = f
            OBVIOUS
        <3>2. Len(o) \in Nat /\ SubSeq(o, 1, Len(o)) = o
            BY <1>6, LenProperties, Prefixes DEF Path
        <3> HIDE DEF e
        <3>3. Name(e, Len(o) + 1) = f
            BY <3>1, <3>2 DEF Name
        <3>4. \A i \in Len(o) + 2..Len(o) + 1 : FALSE
            BY <3>2
        <3>5. /\ e[1] \in Path /\ e[2] \in STRING /\ Len(o) <= Len(e[1])
              /\ SubSeq(e[1], 1, Len(o)) = o
              /\ \A i \in Len(o) + 2..Len(e[1]) + 1 : Binding(SubSeq(e[1], 1, i - 1), Name(e, i))
            <4>1. Len(e[1]) = Len(o)
                BY <3>1
            <4>2. \A i \in Len(o) + 2..Len(e[1]) + 1 : FALSE
                BY <3>2, <4>1
            <4>3. e[1] \in Path /\ e[2] \in STRING
                BY <1>6, <3>1, Zenon
            <4>4. Len(o) <= Len(e[1])
                BY <3>2, <4>1
            <4>5. SubSeq(e[1], 1, Len(o)) = o
                BY <3>1, <3>2, Zenon
            <4> QED BY <4>2, <4>3, <4>4, <4>5, Zenon
        <3>6. Forces(e, o, f) <=>
                /\ Len(o) <= Len(e[1])
                /\ SubSeq(e[1], 1, Len(o)) = o /\ Name(e, Len(o) + 1) = f
                /\ \A i \in Len(o) + 2..Len(e[1]) + 1 : Binding(SubSeq(e[1], 1, i - 1), Name(e, i))
            BY <1>6, <3>5, ForcesForm
        <3>7. Forces(e, o, f)
            BY <3>3, <3>5, <3>6
        <3> QED BY <3>7 DEF e
    <2> QED BY <1>3, <1>4, <2>1, <2>2, SettleErrors
<1>8. CASE FieldNil(o, f)
    <2>1. NilAllowed(TypeOf(o), f)
        BY NilIsAllowed DEF ExecInv, ShapeInv, Selected
    <2>2. /\ ~Fields[TypeOf(o)][f].refusesNull /\ f \in Exec[TypeOf(o)].uncounted
        BY <1>8, <2>1 DEF FieldNil, NilAllowed
    <2>3. errors' = errors /\ Settle(o, f, "nil")
        BY <1>8, <2>2 DEF FieldNil
    <2> QED BY <1>3, <1>4, <1>5, <2>2, <2>3, SettleErrors
<1>9. ASSUME NEW n \in FieldLengths(o, f), FieldValue(o, f, n) PROVE ErrorInv'
    <2>0. errors' = errors
        BY <1>9 DEF FieldValue
    <2>1. CASE ~(IsObject(Fields[TypeOf(o)][f].type) /\ n > 0)
        <3>1. Settle(o, f, "value")
            BY <1>9, <2>1 DEF FieldValue
        <3> QED BY <1>3, <1>4, <1>5, <2>0, <3>1, SettleErrors
    <2>2. CASE IsObject(Fields[TypeOf(o)][f].type) /\ n > 0
        <3> DEFINE S == {Append(o, <<f, i>>) : i \in 1..n}
        <3>1. fld' = Put(fld, {<<o, f>>}, [is |-> "wait", len |-> n]) /\ OpenObjects(S)
            BY <1>9, <2>2 DEF FieldValue
        <3> HIDE DEF S
        <3>2. /\ DOMAIN fld' = DOMAIN fld \cup {<<o, f>>} /\ fld'[<<o, f>>].is = "wait"
              /\ \A of \in DOMAIN fld : fld'[of] = fld[of]
            BY <1>4, <3>1 DEF Put
        <3>3. /\ DOMAIN obj' = DOMAIN obj \cup S
              /\ \A c \in DOMAIN obj' : obj'[c] # "open" => c \in DOMAIN obj /\ obj[c] = obj'[c]
              /\ \A c \in DOMAIN obj' : invalids'[<<c, "out">>] # 0
                    => c \in DOMAIN obj /\ invalids[<<c, "out">>] # 0
            <4>1. DOMAIN invalids = (DOMAIN obj) \X {"out", "defer"}
                BY DEF ExecInv, ShapeInv
            <4> QED BY <3>1, <4>1 DEF OpenObjects, Put
        <3>4. \A p : Selected(p)' = Selected(p)
            BY <1>3, SameOperation
        <3>5. \A p, g : Binding(p, g)' = Binding(p, g) /\ \A e : Forces(e, p, g)' = Forces(e, p, g)
            BY <1>3, SameForces
        <3>6. \A e \in errors' : e \in DOMAIN fld' /\ fld'[e].is # "wait"
            BY <2>0, <3>2 DEF ErrorInv
        <3>7. FailureContained'
            <4>1. ASSUME NEW of \in DOMAIN fld', Settled(of[1], of[2])'
                  PROVE  fld'[of].is = "null" <=> \E e \in errors : Forces(e, of[1], of[2])
                <5>1. CASE of \in DOMAIN fld
                    <6>1. of = <<of[1], of[2]>> /\ fld'[of] = fld[of]
                        BY <3>2, <5>1 DEF ExecInv, ShapeInv
                    <6>2. Settled(of[1], of[2])
                        BY <4>1, <5>1, <6>1 DEF Settled
                    <6> QED BY <5>1, <6>1, <6>2 DEF ErrorInv, FailureContained
                <5>2. CASE of = <<o, f>>
                    BY <3>2, <4>1, <5>2 DEF Settled
                <5> QED BY <3>2, <5>1, <5>2
            <4>2. ASSUME NEW p \in DOMAIN obj', obj'[p] # "open"
                  PROVE  obj'[p] = "null"
                         <=> \E g \in Selected(p) : Binding(p, g) /\ \E e \in errors : Forces(e, p, g)
                BY <3>3, <4>2 DEF ErrorInv, FailureContained
            <4> QED BY <2>0, <3>4, <3>5, <4>1, <4>2 DEF FailureContained
        <3>8. ASSUME NEW p \in DOMAIN obj', invalids'[<<p, "out">>] # 0
              PROVE  \E g \in Selected(p) : /\ Binding(p, g) /\ <<p, g>> \in DOMAIN fld'
                                            /\ fld'[<<p, g>>].is = "null"
            <4>1. PICK g \in Selected(p) : /\ Binding(p, g) /\ <<p, g>> \in DOMAIN fld
                                           /\ fld[<<p, g>>].is = "null"
                BY <3>3, <3>8 DEF ErrorInv
            <4> QED BY <3>2, <4>1
        <3> QED BY <3>4, <3>5, <3>6, <3>7, <3>8 DEF ErrorInv
    <2> QED BY <2>1, <2>2
<1> QED BY <1>2, <1>7, <1>8, <1>9

\* A field that waited is null when one of its objects is, which an error below it
\* made null.
LEMMA FieldReturnErrors ==
    ASSUME ExecInv, ErrorInv, NEW of \in DOMAIN fld, FieldReturn(of[1], of[2])
    PROVE  ErrorInv'
<1> DEFINE o == of[1]
           f == of[2]
           is == IF \E c \in Children(o, f) : obj[c] = "null" THEN "null" ELSE "value"
<1>1. of = <<o, f>> /\ o \in DOMAIN obj /\ f \in Selected(o) /\ o \in Path
    BY DEF ExecInv, ShapeInv
<1>2. /\ fld[of].is = "wait" /\ \A c \in Children(o, f) : obj[c] # "open"
      /\ Settle(o, f, is) /\ op' = op /\ errors' = errors
    BY <1>1 DEF FieldReturn
<1>3. f \in STRING
    BY <1>1, SelectedNames DEF ExecInv, ShapeInv
<1>4. Turn(o, f) /\ ~Settled(o, f)
    BY <1>1, <1>2 DEF ExecInv, WaitInv, Turn, Settled
<1>5. ASSUME NEW c \in Children(o, f), obj[c] = "null"
      PROVE  \E e \in errors : Forces(e, o, f)
    <2>1. PICK i \in 1..fld[of].len : c = Append(o, <<f, i>>)
        BY <1>1 DEF Children
    <2>2. c \in DOMAIN obj /\ i \in Nat
        BY <2>1 DEF ExecInv, TreeInv, ShapeInv
    <2>3. PICK g \in Selected(c) : Binding(c, g) /\ \E e \in errors : Forces(e, c, g)
        BY <1>5, <2>2 DEF ErrorInv, FailureContained
    <2>4. PICK e \in errors : Forces(e, c, g)
        BY <2>3
    <2>5. e[1] \in Path /\ e[1] \in DOMAIN obj /\ e[2] \in Selected(e[1])
        BY DEF ErrorInv, ExecInv, ShapeInv
    <2>6. e[2] \in STRING
        BY <2>5, SelectedNames DEF ExecInv, ShapeInv
    <2>7. Forces(e, o, f)
        BY <1>1, <1>3, <2>1, <2>2, <2>3, <2>4, <2>5, <2>6, ForcesThrough
    <2> QED BY <2>7
<1>6. ASSUME NEW e \in errors, Forces(e, o, f)
      PROVE  \E c \in Children(o, f) : obj[c] = "null"
    <2>1. e # <<o, f>>
        BY <1>1, <1>2 DEF ErrorInv
    <2>2. PICK c \in DOMAIN obj \ {<<>>} : \E g \in Selected(c) :
            Above(c) = <<o, f>> /\ Binding(c, g) /\ Forces(e, c, g)
        BY <1>1, <1>6, <2>1, ErrorBelow
    <2>3. c \in Children(o, f)
        BY <1>1, <1>2, <2>2, ChildrenBelow
    <2>4. obj[c] = "null"
        BY <1>2, <2>2, <2>3 DEF ErrorInv, FailureContained
    <2> QED BY <2>3, <2>4
<1>7. is = "null" <=> \E e \in errors' : Forces(e, o, f)
    BY <1>2, <1>5, <1>6
<1>8. is \in {"value", "nil", "null"} /\ is # "nil"
    OBVIOUS
<1> HIDE DEF is, o, f
<1> QED BY <1>1, <1>2, <1>4, <1>7, <1>8, SettleErrors

\* An object is null when a null of it was counted, and an error reached it then.
LEMMA ObjectReturnErrors ==
    ASSUME ExecInv, ErrorInv, NEW o \in DOMAIN obj, ObjectReturn(o)
    PROVE  ErrorInv'
<1>1. /\ obj[o] = "open"
      /\ \A f \in Selected(o) \ Deferred(o) : Settled(o, f)
      /\ op' = op /\ fld' = fld /\ invalids' = invalids /\ errors' = errors
    BY NotDeferred DEF ObjectReturn
<1>2. /\ DOMAIN obj' = DOMAIN obj
      /\ obj'[o] = IF invalids[<<o, "out">>] > 0 THEN "null" ELSE "valid"
      /\ \A p \in DOMAIN obj : p # o => obj'[p] = obj[p]
    BY DEF ObjectReturn
<1>3. \A p : Selected(p)' = Selected(p)
    BY <1>1, SameOperation
<1>4. \A p, g : /\ Binding(p, g)' = Binding(p, g) /\ Settled(p, g)' = Settled(p, g)
                /\ \A e : Forces(e, p, g)' = Forces(e, p, g)
    BY <1>1, SameForces DEF Settled
<1>5. obj'[o] = "null" <=> invalids[<<o, "out">>] # 0
    <2>1. invalids[<<o, "out">>] \in Nat
        BY DEF ExecInv, ShapeInv
    <2> QED BY <1>2, <2>1
<1>6. ASSUME NEW f \in Selected(o), Binding(o, f)
      PROVE  /\ <<o, f>> \in DOMAIN fld
             /\ fld[<<o, f>>].is = "null" <=> \E e \in errors : Forces(e, o, f)
             /\ fld[<<o, f>>].is = "null" => invalids[<<o, "out">>] # 0
    <2>1. Settled(o, f)
        BY <1>1, <1>6 DEF Binding
    <2>2. <<o, f>> \in DOMAIN fld
        BY <2>1 DEF Settled
    <2>3. fld[<<o, f>>].is = "null" <=> \E e \in errors : Forces(e, o, f)
        <3> DEFINE of == <<o, f>>
        <3>1. of \in DOMAIN fld /\ of[1] = o /\ of[2] = f
            BY <2>2
        <3> HIDE DEF of
        <3>2. fld[of].is = "null" <=> \E e \in errors : Forces(e, o, f)
            BY <2>1, <3>1 DEF ErrorInv, FailureContained
        <3> QED BY <3>2 DEF of
    <2>4. fld[<<o, f>>].is = "null" => invalids[<<o, "out">>] # 0
        <3>1. f \notin Exec[TypeOf(o)].uncounted /\ FieldSet(o, f) = <<o, "out">>
            BY <1>6, UncountedIsNullable DEF Binding, FieldSet, ExecInv, ShapeInv
        <3> QED BY <2>2, <3>1 DEF ExecInv, FieldInv
    <2> QED BY <2>2, <2>3, <2>4
<1>7. obj'[o] = "null"
      <=> \E f \in Selected(o) : Binding(o, f) /\ \E e \in errors : Forces(e, o, f)
    <2>1. ASSUME invalids[<<o, "out">>] # 0
          PROVE  \E f \in Selected(o) : Binding(o, f) /\ \E e \in errors : Forces(e, o, f)
        BY <1>6, <2>1 DEF ErrorInv
    <2>2. ASSUME NEW f \in Selected(o), Binding(o, f), \E e \in errors : Forces(e, o, f)
          PROVE  invalids[<<o, "out">>] # 0
        BY <1>6, <2>2
    <2> QED BY <1>5, <2>1, <2>2
<1>8. FailureContained'
    <2>1. \A of \in DOMAIN fld :
            Settled(of[1], of[2]) => (fld[of].is = "null" <=> \E e \in errors : Forces(e, of[1], of[2]))
        BY DEF ErrorInv, FailureContained
    <2>2. ASSUME NEW p \in DOMAIN obj, obj'[p] # "open"
          PROVE  obj'[p] = "null"
                 <=> \E g \in Selected(p) : Binding(p, g) /\ \E e \in errors : Forces(e, p, g)
        <3>1. CASE p = o
            BY <1>7, <3>1
        <3>2. CASE p # o
            BY <1>2, <2>2, <3>2 DEF ErrorInv, FailureContained
        <3> QED BY <3>1, <3>2
    <2> QED BY <1>1, <1>2, <1>3, <1>4, <2>1, <2>2 DEF FailureContained
<1> QED BY <1>1, <1>2, <1>3, <1>4, <1>8 DEF ErrorInv

\* Groups and the handler touch neither objects nor fields.
LEMMA OthersKeepErrors ==
    ASSUME ErrorInv, UNCHANGED <<op, obj, fld, invalids, errors>>
    PROVE  ErrorInv'
<1>1. \A p : Selected(p)' = Selected(p)
    BY SameOperation
<1>2. \A p, g : /\ Binding(p, g)' = Binding(p, g) /\ Settled(p, g)' = Settled(p, g)
                /\ \A e : Forces(e, p, g)' = Forces(e, p, g)
    BY SameForces DEF Settled
<1>3. FailureContained'
    BY <1>1, <1>2 DEF ErrorInv, FailureContained
<1> QED BY <1>1, <1>2, <1>3 DEF ErrorInv

\* The executor of the root starts without errors.
LEMMA FirstErrors == ASSUME ExecInv, ErrorInv, HandlerFirst PROVE ErrorInv'
<1>1. DOMAIN obj = {} /\ DOMAIN fld = {} /\ DOMAIN invalids = {}
    BY DEF HandlerFirst, ExecInv, RootInv, ShapeInv
<1>2. fld' = fld /\ errors' = errors /\ errors = {}
    BY <1>1 DEF HandlerFirst, ErrorInv
<1>3. /\ DOMAIN obj' = {<<>>} /\ obj'[<<>>] = "open" /\ invalids'[<<<<>>, "out">>] = 0
    BY <1>1 DEF HandlerFirst, OpenObjects, Put
<1>4. FailureContained'
    BY <1>1, <1>2, <1>3 DEF FailureContained
<1> QED BY <1>2, <1>3, <1>4 DEF ErrorInv

\* Before the first call there are no errors.
LEMMA ErrorInit == Init => ErrorInv
<1> SUFFICES ASSUME Init PROVE ErrorInv
    OBVIOUS
<1>1. DOMAIN obj = {} /\ DOMAIN fld = {} /\ errors = {}
    BY DEF Init
<1> QED BY <1>1 DEF ErrorInv, FailureContained

\* Every step keeps ErrorInv.
LEMMA ErrorNext == ExecInv /\ ErrorInv /\ [Next]_vars => ErrorInv'
<1> SUFFICES ASSUME ExecInv, ErrorInv, [Next]_vars PROVE ErrorInv'
    OBVIOUS
<1>1. CASE FieldStep
    BY <1>1, FieldStepErrors
<1>2. CASE ReturnStep
    <2>1. ASSUME NEW o \in DOMAIN group, GroupReturn(o) PROVE ErrorInv'
        BY <2>1, OthersKeepErrors DEF GroupReturn
    <2> QED BY <1>2, <2>1, FieldReturnErrors, ObjectReturnErrors DEF ReturnStep
<1>3. CASE HandlerStep
    <2>1. CASE HandlerMarshal \/ HandlerWrite
        BY <2>1, OthersKeepErrors DEF HandlerMarshal, HandlerWrite
    <2>2. ASSUME NEW o \in DOMAIN group, HandlerReceive(o) PROVE ErrorInv'
        BY <2>2, OthersKeepErrors DEF HandlerReceive
    <2> QED BY <1>3, <2>1, <2>2, FirstErrors DEF HandlerStep
<1>4. CASE HandlerCall
    BY <1>4, OthersKeepErrors DEF HandlerCall
<1>5. CASE UNCHANGED vars
    BY <1>5, OthersKeepErrors DEF vars
<1> QED BY <1>1, <1>2, <1>3, <1>4, <1>5 DEF Next

\* A failure is reported and goes exactly as far as the schema says: what the
\* executors count, what the field functions refuse and what is deferred agree
\* along every path of the response.
THEOREM FailuresAreContained == Spec => []FailureContained
<1>1. ErrorInv => FailureContained
    BY DEF ErrorInv
<1> QED BY <1>1, ExecInit, ExecNext, ErrorInit, ErrorNext, PTL DEF Spec
=============================================================================
