---------------------------- MODULE MCModuleLinker ----------------------------
(***************************************************************************)
(* Families of files for the runs of ModuleLinker: three modules with the  *)
(* same few names, each with every choice of what a name is in it.         *)
(***************************************************************************)
EXTENDS ModuleLinker, TLC

CONSTANTS f, g, h, k, c, v   \* names

Sym(kind, linkage, def, refs) ==
  [kind |-> kind, linkage |-> linkage, def |-> def, import |-> FALSE,
   level |-> LeastPrivileged, hidden |-> FALSE, refs |-> refs]

Def(kind, linkage, refs) == Sym(kind, linkage, TRUE, refs)
Decl(kind, linkage) == Sym(kind, linkage, FALSE, {})
Imports(s) == [s EXCEPT !.import = TRUE]

Three(modules) == { [i \in 1 .. 3 |-> [form |-> "bitcode", syms |-> s[i]]] : s \in [1 .. 3 -> modules] }

(* A local variable mentions f, and f, where it is defined, h.              *)
Functions ==
  { v :> Def("variable", "internal", {f}) @@ f :> x @@ h :> y :
      x \in { Def("function", l, {h}) : l \in {"external", "weak", "linkonce",
                                              "available_externally", "internal"} }
            \cup { Decl("function", l) : l \in {"external", "extern_weak"} }
            \cup { Imports(Decl("function", "external")) },
      y \in { Def("function", l, {}) : l \in {"linkonce", "internal"} } }

(* A variable with a level of its own in each module, also as a declaration.*)
Variable ==
  { v :> Def("variable", "internal", {g}) @@ g :> [x EXCEPT !.level = l] :
      x \in { Def("variable", lk, {}) : lk \in {"external", "weak", "common", "linkonce"} }
            \cup { Decl("variable", lk) : lk \in {"external", "extern_weak"} },
      l \in {0, 1} }

(* Appending variables that mention a local function, which mentions f, or  *)
(* also themselves.                                                         *)
Constructors ==
  { (k :> Def("function", "internal", {f}) @@ f :> x @@ c :> y) :
      x \in { Def("function", l, {}) : l \in {"external", "weak", "linkonce"} }
            \cup { Decl("function", "external") },
      y \in { [Def("variable", "appending", {k}) EXCEPT !.hidden = b] : b \in BOOLEAN }
            \cup { Def("variable", "appending", {k, c}), Def("variable", "internal", {k}), Decl("variable", "external") } }

(* An appending variable in one module, something else in another.          *)
Mixed ==
  { c :> x : x \in { Def("variable", "appending", {c}), Def("variable", "weak", {}),
                     Decl("function", "external"), Decl("function", "extern_weak") }
                   \cup { Def("function", l, {c}) : l \in {"external", "weak", "linkonce"} } }

(* An alias of a local function in one module, a function in another.       *)
Aliases ==
  { v :> Def("variable", "internal", {g}) @@ h :> Def("function", "internal", {}) @@ g :> x :
      x \in { Def("alias", l, {h}) : l \in {"external", "weak", "internal"} }
            \cup { Def("function", l, {h}) : l \in {"external", "linkonce"} }
            \cup { Decl("function", "external") } }

(* Two modules in any form.                                                 *)
Files ==
  { [i \in 1 .. 2 |-> [form |-> fm[i], syms |-> v :> Def("variable", "internal", {g}) @@ g :> x[i]]] :
      fm \in [1 .. 2 -> Form],
      x \in [1 .. 2 -> { [Def("variable", l, {}) EXCEPT !.level = lv, !.hidden = b] :
                            l \in {"external", "weak"}, lv \in {0, 1}, b \in BOOLEAN }
                       \cup { Decl("function", "external") } ] }

AnyInputs ==
  Three(Functions) \cup Three(Variable) \cup Three(Constructors) \cup Three(Mixed) \cup Three(Aliases) \cup Files
=============================================================================
