----------------------------- MODULE MCReindex -----------------------------
(***************************************************************************)
(* Small projects for Reindex: a definition of foo, callers of foo, a      *)
(* method C::foo that makes the name ambiguous, and the versions of one    *)
(* file that strain the node upsert.                                       *)
(***************************************************************************)
EXTENDS Reindex

MCSymbols == {"foo", "bar", "C::foo"}
MCNames == {"foo", "bar"}
MCShortName == [s \in MCSymbols |-> IF s = "bar" THEN "bar" ELSE "foo"]

Sym(s, k, l, g) == [symbol |-> s, kind |-> k, line |-> l, sig |-> g]
File(symbols, calls, structural) ==
  [symbols |-> symbols, calls |-> calls, structural |-> structural]
Call(f, g) == [caller |-> f, callee |-> g, member |-> FALSE]

Foo(l) == Sym("foo", "function", l, "fn foo()")
Bar(l) == Sym("bar", "function", l, "fn bar()")

\* Defines foo.
Definer == File(<<Foo(1)>>, {}, {})
\* Defines bar, which calls foo; top-level code, no symbol, calls bar.
Caller == File(<<Bar(1)>>, {Call("bar", "foo"), Call("C::foo", "bar")}, {})
\* Defines foo after bar; bar calls foo in the same file.
Both == File(<<Bar(1), Foo(2)>>, {Call("bar", "foo")}, {})
\* Defines a method foo that calls bar and inherits from foo.
Method ==
  File(<<Sym("C::foo", "method", 1, "fn foo(&self)")>>,
       {[caller |-> "C::foo", callee |-> "bar", member |-> TRUE]},
       {[source |-> "C::foo", target |-> "foo", kind |-> "INHERITS"]})

MCContents == {Caller, Both, Method}

\* foo becomes a struct on the line it was a function on.
Struct == File(<<Sym("foo", "struct", 1, "struct foo")>>, {Call("foo", "foo")}, {})
MCContentsKinds == {Definer, Struct, Caller}
=============================================================================
