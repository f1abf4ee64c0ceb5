------------------------------ MODULE GraphExec ------------------------------
(***************************************************************************)
(* The execution of one GraphQL operation by the generated code.           *)
(*                                                                         *)
(* An object of the response is known by its path, a sequence of steps     *)
(* <<field, index>>; index 1 is the object of a field that is not a list.  *)
(* The executor of an object (_Type) runs the selected properties in       *)
(* place, one after another, then dispatches the concurrent fields and     *)
(* waits for all of them; a list marshals its elements concurrently and    *)
(* waits.  A field function recovers a panic, reports errors and answers   *)
(* null; a null where the schema has none makes the object null.           *)
(*                                                                         *)
(* Fields under @defer form a group of their object, run by a goroutine    *)
(* that ends by sending its result on an unbuffered channel.  The handler  *)
(* that Exec returns gives the first response, then one group a call,      *)
(* until the counter of groups is zero; how often it is called is up to    *)
(* the transport.  An object has one deferred label here.                  *)
(***************************************************************************)
EXTENDS GraphSchema

CONSTANTS Queries,   \* the operations: [root, sel, dfr], sel and dfr sets of field paths
          MaxLen     \* bound: the elements of a list

ASSUME GraphAssumption ==
    /\ MaxLen \in Nat
    /\ \A q \in Queries : /\ q.root \in {"Query", "FaucetQuery", "Mutation"}
                          /\ q.sel \subseteq Seq(STRING) /\ q.dfr \subseteq q.sel

VARIABLES op,        \* the operation
          obj,       \* by the path of an object: "open", "valid" or "null"
          fld,       \* by <<object, field>>: [is : "wait" | "value" | "nil" | "null", len]
          invalids,  \* by <<object, "out" | "defer">>: FieldSet.Invalids
          group,     \* by the path of an object: "run", "send" or "sent"
          pending,   \* ec.pendingDeferred
          errors,    \* the fields of which an error was reported
          handler,   \* what the response handler is doing
          hasNext    \* the HasNext of the last response

vars == <<op, obj, fld, invalids, group, pending, errors, handler, hasNext>>
-----------------------------------------------------------------------------
FieldNames(o) == [i \in DOMAIN o |-> o[i][1]]
\* The type of an object, from the root of the operation down its path.
TypeFrom(root, o) ==
    LET type[n \in 0..Len(o)] == IF n = 0 THEN root ELSE Fields[type[n - 1]][o[n][1]].type
    IN  type[Len(o)]
TypeOf(o) == TypeFrom(op.root, o)
Selected(o) == {f \in FieldsOf(TypeOf(o)) : Append(FieldNames(o), f) \in op.sel}

\* collectFields of an object: the concurrent fields under @defer are put in the
\* deferred FieldSet, and a null in their place; the others stay.
Deferred(o) ==
    {f \in Selected(o) :
        /\ Exec[TypeOf(o)].defers
        /\ f \in Exec[TypeOf(o)].concurrently
        /\ Append(FieldNames(o), f) \in op.dfr}
InPlace(o) == Selected(o) \ Exec[TypeOf(o)].concurrently
Dispatched(o) == (Selected(o) \cap Exec[TypeOf(o)].concurrently) \ Deferred(o)
FieldSet(o, f) == <<o, IF f \in Deferred(o) THEN "defer" ELSE "out">>

\* What the object has in the place of a selected field, once its executor is
\* done: how the field ended, or the null put there for a deferred field.
Slot(o, f) == IF f \in Deferred(o) THEN "null" ELSE fld[<<o, f>>].is

Settled(o, f) == <<o, f>> \in DOMAIN fld /\ fld[<<o, f>>].is # "wait"
Started(o, f) == <<o, f>> \in DOMAIN fld
Children(o, f) == {Append(o, <<f, i>>) : i \in 1..fld[<<o, f>>].len}

Init ==
    /\ op \in Queries
    /\ obj = <<>> /\ fld = <<>> /\ invalids = <<>> /\ group = <<>>
    /\ pending = 0 /\ errors = {}
    /\ handler = "first" /\ hasNext = FALSE

\* The function f with the value v put at each key of S.
Put(f, S, v) == [x \in DOMAIN f \cup S |-> IF x \in S THEN v ELSE f[x]]

\* The FieldSets of the objects in S, whose executors are then under way.
OpenObjects(S) ==
    /\ obj' = Put(obj, S, "open")
    /\ invalids' = Put(invalids, S \X {"out", "defer"}, 0)

\* The executor looks at the answer of a field function: a null is counted,
\* unless the field is one that may be null.
Settle(o, f, is) ==
    /\ fld' = Put(fld, {<<o, f>>}, [is |-> is, len |-> 0])
    /\ invalids' =
        IF is \in {"nil", "null"} /\ f \notin Exec[TypeOf(o)].uncounted
        THEN [invalids EXCEPT ![FieldSet(o, f)] = @ + 1] ELSE invalids
    /\ UNCHANGED obj

\* A field function is entered: in place, when the fields before it are done;
\* by Dispatch, when the loop over the fields is over; in a deferred group.
MayRun(o, f) ==
    /\ ~Started(o, f)
    /\ \/ /\ obj[o] = "open"
          /\ f \in InPlace(o)
          /\ \A g \in InPlace(o) : Started(o, g) => Settled(o, g)
       \/ /\ obj[o] = "open"
          /\ f \in Dispatched(o)
          /\ \A g \in InPlace(o) : Settled(o, g)
       \/ /\ f \in Deferred(o)
          /\ o \in DOMAIN group /\ group[o] = "run"

\* The resolver fails or panics: the error is reported, the field is null.
FieldError(o, f) ==
    /\ MayRun(o, f)
    /\ OutcomesOf(TypeOf(o), f) \cap {"error", "panic"} # {}
    /\ errors' = errors \cup {<<o, f>>}
    /\ Settle(o, f, "null")
    /\ UNCHANGED <<op, group, pending, handler, hasNext>>

\* It finds nothing: null, and an error where the function refuses a null.
FieldNil(o, f) ==
    /\ MayRun(o, f)
    /\ "nil" \in OutcomesOf(TypeOf(o), f)
    /\ errors' = IF Fields[TypeOf(o)][f].refusesNull THEN errors \cup {<<o, f>>} ELSE errors
    /\ Settle(o, f, "nil")
    /\ UNCHANGED <<op, group, pending, handler, hasNext>>

\* It has a value: a scalar is the answer, an object or the elements of a list
\* are handed to their executors.
FieldValue(o, f, n) ==
    LET row == Fields[TypeOf(o)][f] IN
    /\ MayRun(o, f)
    /\ "value" \in OutcomesOf(TypeOf(o), f)
    /\ IF IsObject(row.type) /\ n > 0
       THEN /\ fld' = Put(fld, {<<o, f>>}, [is |-> "wait", len |-> n])
            /\ OpenObjects({Append(o, <<f, i>>) : i \in 1..n})
       ELSE Settle(o, f, "value")
    /\ UNCHANGED <<op, group, pending, errors, handler, hasNext>>
FieldLengths(o, f) == IF Fields[TypeOf(o)][f].list THEN 0..MaxLen ELSE {1}

\* Every element is marshalled: one null among them makes the field null.
FieldReturn(o, f) ==
    /\ fld[<<o, f>>].is = "wait"
    /\ \A c \in Children(o, f) : obj[c] # "open"
    /\ Settle(o, f, IF \E c \in Children(o, f) : obj[c] = "null" THEN "null" ELSE "value")
    /\ UNCHANGED <<op, group, pending, errors, handler, hasNext>>

\* Mutant of ObjectReturn: the group starts without being counted.
ObjectReturnUncounted(o) ==
    /\ obj[o] = "open"
    /\ \A f \in InPlace(o) \cup Dispatched(o) : Settled(o, f)
    /\ obj' = [obj EXCEPT ![o] = IF invalids[<<o, "out">>] > 0 THEN "null" ELSE "valid"]
    /\ group' = IF obj'[o] = "null" \/ Deferred(o) = {} THEN group ELSE Put(group, {o}, "run")
    /\ UNCHANGED <<op, fld, invalids, pending, errors, handler, hasNext>>

\* The executor returns, after Dispatch: null if a field was counted, else the
\* object, whose deferred group is then started.
ObjectReturn(o) ==
    /\ obj[o] = "open"
    /\ \A f \in InPlace(o) \cup Dispatched(o) : Settled(o, f)
    /\ IF invalids[<<o, "out">>] > 0
       THEN obj' = [obj EXCEPT ![o] = "null"] /\ UNCHANGED <<group, pending>>
       ELSE /\ obj' = [obj EXCEPT ![o] = "valid"]
            /\ IF Deferred(o) = {} THEN UNCHANGED <<group, pending>>
               ELSE /\ group' = Put(group, {o}, "run")
                    /\ pending' = pending + 1
    /\ UNCHANGED <<op, fld, invalids, errors, handler, hasNext>>

\* processDeferredGroup's goroutine is done and waits for a receiver.
GroupReturn(o) ==
    /\ group[o] = "run"
    /\ \A f \in Deferred(o) : Settled(o, f)
    /\ group' = [group EXCEPT ![o] = "send"]
    /\ UNCHANGED <<op, obj, fld, invalids, pending, errors, handler, hasNext>>
-----------------------------------------------------------------------------
(***************************************************************************)
(* The response handler.  A mutation answers once.                         *)
(***************************************************************************)
HandlerFirst ==
    /\ handler = "first"
    /\ handler' = "exec"
    /\ OpenObjects({<<>>})
    /\ UNCHANGED <<op, fld, group, pending, errors, hasNext>>

HandlerMarshal ==
    /\ handler = "exec"
    /\ obj[<<>>] # "open"
    /\ handler' = "write"
    /\ UNCHANGED <<op, obj, fld, invalids, group, pending, errors, hasNext>>

HandlerWrite ==
    /\ handler = "write"
    /\ handler' = IF op.root = "Mutation" THEN "end" ELSE "idle"
    /\ hasNext' = (pending > 0)
    /\ UNCHANGED <<op, obj, fld, invalids, group, pending, errors>>

\* Mutant of HandlerCall: it receives without asking for the counter.
HandlerCallBlindly ==
    /\ handler = "idle"
    /\ handler' = "receive"
    /\ UNCHANGED <<op, obj, fld, invalids, group, pending, errors, hasNext>>

\* The transport calls the handler again.
HandlerCall ==
    /\ handler = "idle"
    /\ handler' = IF pending > 0 THEN "receive" ELSE "end"
    /\ UNCHANGED <<op, obj, fld, invalids, group, pending, errors, hasNext>>

HandlerReceive(o) ==
    /\ handler = "receive"
    /\ group[o] = "send"
    /\ group' = [group EXCEPT ![o] = "sent"]
    /\ pending' = pending - 1
    /\ handler' = "write"
    /\ UNCHANGED <<op, obj, fld, invalids, errors, hasNext>>

FieldFunction(o, f) ==
    \/ FieldError(o, f)
    \/ FieldNil(o, f)
    \/ \E n \in FieldLengths(o, f) : FieldValue(o, f, n)

IsProperty(o, f) == ~Fields[TypeOf(o)][f].resolver
FieldStep == \E o \in DOMAIN obj : \E f \in Selected(o) : FieldFunction(o, f)
PropertyStep ==
    \E o \in DOMAIN obj : \E f \in {g \in Selected(o) : IsProperty(o, g)} : FieldFunction(o, f)
ReturnStep ==
    \/ \E of \in DOMAIN fld : FieldReturn(of[1], of[2])
    \/ \E o \in DOMAIN obj : ObjectReturn(o)
    \/ \E o \in DOMAIN group : GroupReturn(o)
HandlerStep ==
    \/ HandlerFirst \/ HandlerMarshal \/ HandlerWrite
    \/ \E o \in DOMAIN group : HandlerReceive(o)

Next == FieldStep \/ ReturnStep \/ HandlerStep \/ HandlerCall

\* Goroutines are scheduled, a property is read, and the transport makes its first
\* call; it need not make another.  Nothing makes a resolver return: its queries
\* carry no context, and the list of stakers is posted for without a timeout.
Fairness == WF_vars(PropertyStep) /\ WF_vars(ReturnStep) /\ WF_vars(HandlerStep)

Spec == Init /\ [][Next]_vars /\ Fairness
-----------------------------------------------------------------------------
\* The result of the group of an object was given, and is not null.
Delivered(o) == o \in DOMAIN group /\ group[o] = "sent" /\ invalids[<<o, "defer">>] = 0

\* The object is in a response that was given: below values in their places, or
\* in the result of a deferred group.
InResponse(o) ==
    /\ handler \notin {"first", "exec"}
    /\ \A i \in 0..Len(o) : obj[SubSeq(o, 1, i)] = "valid"
    /\ \A i \in 1..Len(o) :
        LET p == SubSeq(o, 1, i - 1)
            f == o[i][1]
        IN  \/ Slot(p, f) = "value"
            \/ f \in Deferred(p) /\ Delivered(p) /\ fld[<<p, f>>].is = "value"

\* The last response says that nothing follows.
NothingFollows == handler = "end" \/ (handler = "idle" /\ ~hasNext)

\* What a client is given conforms to the schema text but for the nulls that stand
\* for deferred fields.  In every object of a response a field that is not
\* declared nullable has a value in its place, or is deferred; a deferred one has
\* a value in the result of its group, unless that is null as a whole; and no
\* null is left standing when a response says that nothing follows: its group
\* was given.  The text, the field functions and the executors each carry the
\* nullability of the field.
ResponseConforms ==
    \A o \in DOMAIN obj : InResponse(o) =>
        \A f \in Selected(o) \ NullableIn(TypeOf(o)) :
            IF f \in Deferred(o)
            THEN /\ Delivered(o) => Settled(o, f) /\ fld[<<o, f>>].is = "value"
                 /\ NothingFollows => o \in DOMAIN group /\ group[o] = "sent"
            ELSE Settled(o, f) /\ Slot(o, f) = "value"

\* "amounts: PairAmount!" and the other types of the schema text without a null:
\* in every object of a response such a field has a value in its place.
SlotsConform ==
    \A o \in DOMAIN obj : InResponse(o) =>
        \A f \in Selected(o) \ NullableIn(TypeOf(o)) : Slot(o, f) = "value"

\* The error e of a field makes the field f of o null: the field itself, or
\* every field from f down to e may not be null and is answered with its object.
Binding(o, f) == f \notin NullableIn(TypeOf(o)) /\ f \notin Deferred(o)
Forces(e, o, f) ==
    LET path == Append(e[1], <<e[2], 1>>) IN
    /\ Len(o) < Len(path)
    /\ SubSeq(path, 1, Len(o)) = o /\ path[Len(o) + 1][1] = f
    /\ \A i \in Len(o) + 2..Len(path) : Binding(SubSeq(path, 1, i - 1), path[i][1])

\* A failure is reported, and goes exactly as far as the schema says: a field is
\* null if and only if an error below it has no nullable or deferred field in
\* between; the objects beside it keep their data.
FailureContained ==
    /\ \A of \in DOMAIN fld :
        Settled(of[1], of[2]) =>
            (fld[of].is = "null" <=> \E e \in errors : Forces(e, of[1], of[2]))
    /\ \A o \in DOMAIN obj : obj[o] # "open" =>
        (obj[o] = "null"
         <=> \E f \in Selected(o) : Binding(o, f) /\ \E e \in errors : Forces(e, o, f))

\* No deferred group is left behind.  When a response says that nothing follows,
\* every goroutine of the operation has ended and every group was received: a
\* group that starts another counts it before it is received itself.
NothingLeftBehind ==
    NothingFollows =>
        /\ pending = 0
        /\ \A o \in DOMAIN obj : obj[o] # "open"
        /\ \A o \in DOMAIN group : group[o] = "sent"

\* A resolver was called, or may be, and has not returned.
Unreturned(o, f) == MayRun(o, f) /\ ~IsProperty(o, f)

\* The steps on the way to the field f of o that are deferred; the last of them
\* tells the group in which the field is answered.
DeferredSteps(o, f) ==
    {i \in 1..Len(o) + 1 :
        (IF i <= Len(o) THEN o[i][1] ELSE f) \in Deferred(SubSeq(o, 1, i - 1))}
InGroup(o, f, g) ==
    \E i \in DeferredSteps(o, f) :
        g = SubSeq(o, 1, i - 1) /\ \A j \in DeferredSteps(o, f) : j <= i

\* The call of the handler waits for a resolver: one of the first response, or
\* one in each of the groups, none of which is done.
WaitsForResolver ==
    \/ /\ handler = "exec"
       /\ \E o \in DOMAIN obj : \E f \in Selected(o) :
              Unreturned(o, f) /\ DeferredSteps(o, f) = {}
    \/ /\ handler = "receive"
       /\ \E g \in DOMAIN group : group[g] = "run"
       /\ \A g \in DOMAIN group : group[g] # "sent" =>
              \E o \in DOMAIN obj : \E f \in Selected(o) :
                  Unreturned(o, f) /\ InGroup(o, f, g)

\* Every call of the handler returns, unless a resolver that it waits for does
\* not: a panic leaves no executor waiting for its fields, no call receives from
\* a channel that no group will send on, and none waits for the resolvers of
\* another group than those that are left.
Answered == []<>(handler \in {"idle", "end"} \/ WaitsForResolver)
=============================================================================
