----------------------------- MODULE MCPlacement -----------------------------
(***************************************************************************)
(* Families of modules for the runs of SectionPlacement: main, functions f *)
(* and g, globals x and y, an alias al.                                    *)
(***************************************************************************)
EXTENDS SectionPlacement, TLC

CONSTANTS main, f, g, x, y, al

MCName == {main, f, g, x, y, al}

By(vmain, vf, vg, vx, vy, val) ==
  (main :> vmain @@ f :> vf @@ g :> vg @@ x :> vx @@ y :> vy @@ al :> val)

(* f and g call each other, themselves and main, and use the globals; the   *)
(* initialisers hold the addresses of functions, globals and the alias; the *)
(* alias stands for a function or a global.                                 *)
Refs ==
  { By({f, al}, rf, rg, rx, ry, ra) :
      rf \in {{f, g, x}, {y}}, rg \in {{main}, {f, x, y}},
      rx \in {{f, y}, {al, x}}, ry \in {{}, {x, g}}, ra \in {{f}, {y}} }

Labels == { By({}, lf, {}, lx, {}, {}) : lf \in {{}, {f, g}}, lx \in {{}, {f}, {g}} }

Attrs == { By(am, af, ag, None, None, None) :
             am \in {None, 0}, af \in {None, 0, 1}, ag \in {None, 1} }

Levels == { By(0, 0, 0, lx, ly, 0) : lx \in {0, 1}, ly \in {0, 2} }

Family(defs, attrs, levels, rs, ls) ==
  [ funs : {<<main, f, g>>}, globs : {<<x, y>>}, aliases : {{al}},
    defs : defs, attr : attrs, level : levels, refs : rs, labels : ls ]

AllDefined == {{main, f, g}}

AnyModules ==
  Family(AllDefined, Attrs, Levels, Refs, Labels)
    \cup { [r EXCEPT !.defs = {main, g}, !.refs[f] = {}] :
             r \in Family(AllDefined, Attrs, {By(0, 0, 0, 1, 1, 0)}, Refs,
                          {By({}, {}, {}, {}, {}, {})}) }
    \cup Family(AllDefined,
                { By(None, af, 1, None, None, None) : af \in {0, TooLarge} },
                { By(0, 0, 0, lx, 1, 0) : lx \in {0, TooLarge} },
                Refs, { By({}, {f}, {}, lx, {}, {}) : lx \in {{f}, {g}} })

=============================================================================
